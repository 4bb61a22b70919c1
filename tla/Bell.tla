---------------------------------- MODULE Bell ----------------------------------
(***************************************************************************)
(* Notifications: the server keeps the most recent in memory and sends     *)
(* each to the streams then open (server/src/notifications); the bell of   *)
(* the console (client/src/components/ConsoleLayout.tsx) asks for the      *)
(* recent ones and opens a stream, at once, and shows what comes last.     *)
(***************************************************************************)
EXTENDS Integers, Sequences, SequencesExt

CONSTANTS
  MaxRecent,     \* notifications the server keeps
  MaxShown,      \* notifications a list holds
  MaxUnread,     \* the unread count stops here
  MaxPublished,  \* bound: notifications published
  MaxBreaks      \* bound: restarts of the server, streams and requests that break

BellAssumption ==
  /\ {MaxRecent, MaxShown, MaxUnread} \subseteq Nat \ {0} /\ MaxShown <= MaxRecent
  /\ {MaxPublished, MaxBreaks} \subseteq Nat

VARIABLES
  recent,  \* the server's notifications, newest first; they are numbered
  sse,     \* the stream of the page: how far its opening got, and what is on its way;
           \* missed: a notification it will not bring
  pull,    \* the request for the recent notifications; old: its answer was overtaken
  bell,    \* what the page shows
  news     \* notifications published; breaks; spoilt: by an answer to the request

bellVars == <<recent, sse, pull, bell, news>>

Listed(s, n) == SubSeq(s, 1, IF Len(s) < n THEN Len(s) ELSE n)
Lower(m, n) == IF m < n THEN m ELSE n

Connecting == [at |-> "connecting", snapshot |-> <<>>, sent |-> <<>>, missed |-> FALSE]
Asked == [at |-> "asked", list |-> <<>>, old |-> FALSE]
Overtaken == IF pull.at = "answered" THEN [pull EXCEPT !.old = TRUE] ELSE pull

BellInit ==
  /\ recent = <<>>
  /\ sse = Connecting
  /\ pull = Asked
  /\ bell = [list |-> <<>>, unread |-> 0, open |-> FALSE]
  /\ news = [published |-> 0, breaks |-> 0, spoilt |-> FALSE]

-----------------------------------------------------------------------------
(***************************************************************************)
(* The server.                                                             *)
(***************************************************************************)
listRecent == Listed(recent, MaxShown)

\* A mutant: the list is never cut.
publishUncut ==
  LET n == news.published + 1 IN
  /\ n <= MaxPublished
  /\ recent' = <<n>> \o recent
  /\ sse' = IF sse.at = "open" THEN [sse EXCEPT !.sent = Append(@, [type |-> "notification", n |-> n])]
            ELSE [sse EXCEPT !.missed = sse.at = "snapshot"]
  /\ news' = [news EXCEPT !.published = n]
  /\ pull' = Overtaken
  /\ UNCHANGED bell

\* A stream whose snapshot was taken and that is not yet subscribed misses it.
publish ==
  LET n == news.published + 1 IN
  /\ n <= MaxPublished
  /\ recent' = Listed(<<n>> \o recent, MaxRecent)
  /\ sse' = IF sse.at = "open" THEN [sse EXCEPT !.sent = Append(@, [type |-> "notification", n |-> n])]
            ELSE [sse EXCEPT !.missed = sse.at = "snapshot"]
  /\ news' = [news EXCEPT !.published = n]
  /\ pull' = Overtaken
  /\ UNCHANGED bell

\* The handler of the stream takes the snapshot; what it returns is subscribed to after.
streamOpened ==
  /\ sse.at = "connecting"
  /\ sse' = [sse EXCEPT !.at = "snapshot", !.snapshot = listRecent]
  /\ UNCHANGED <<recent, pull, bell, news>>

subscribed ==
  /\ sse.at = "snapshot"
  /\ sse' = [sse EXCEPT !.at = "open", !.snapshot = <<>>,
                         !.sent = <<[type |-> "snapshot", list |-> sse.snapshot]>>]
  /\ UNCHANGED <<recent, pull, bell, news>>

\* A token that expired: the browser does not try again.
streamRefused ==
  /\ sse.at = "connecting" /\ news.breaks < MaxBreaks
  /\ news' = [news EXCEPT !.breaks = @ + 1]
  /\ sse' = [Connecting EXCEPT !.at = "refused"]
  /\ UNCHANGED <<recent, pull, bell>>

answer ==
  /\ pull.at = "asked"
  /\ pull' = [pull EXCEPT !.at = "answered", !.list = listRecent]
  /\ UNCHANGED <<recent, sse, bell, news>>

\* The notifications are lost with the process.
restart ==
  /\ news.breaks < MaxBreaks
  /\ recent' = <<>>
  /\ sse' = IF sse.at = "refused" THEN sse ELSE Connecting
  /\ news' = [news EXCEPT !.breaks = @ + 1]
  /\ pull' = Overtaken
  /\ UNCHANGED bell

-----------------------------------------------------------------------------
(***************************************************************************)
(* The page.  Every page of the console has a bell of its own.             *)
(***************************************************************************)
mount ==
  /\ sse # Connecting \/ pull # Asked
  /\ sse' = Connecting /\ pull' = Asked
  /\ bell' = [list |-> <<>>, unread |-> 0, open |-> FALSE]
  /\ news' = [news EXCEPT !.spoilt = FALSE]
  /\ UNCHANGED recent

\* The browser opens a stream that broke again, with the same token.
reconnect ==
  /\ sse.at = "open" /\ news.breaks < MaxBreaks
  /\ sse' = Connecting
  /\ news' = [news EXCEPT !.breaks = @ + 1]
  /\ UNCHANGED <<recent, pull, bell>>

OnItsWay(list) == \E i \in DOMAIN sse.sent, j \in DOMAIN list :
  sse.sent[i].type = "notification" /\ sse.sent[i].n = list[j]

\* The answer replaces the list, also by an older one, or by one that holds a
\* notification the stream is about to bring: it is shown twice then.
pulled ==
  /\ pull.at = "answered"
  /\ pull' = [pull EXCEPT !.at = "done"]
  /\ bell' = [bell EXCEPT !.list = pull.list]
  /\ news' = [news EXCEPT !.spoilt = pull.old \/ OnItsWay(pull.list)]
  /\ UNCHANGED <<recent, sse>>

pullFailed ==
  /\ pull.at \in {"asked", "answered"} /\ news.breaks < MaxBreaks
  /\ pull' = [pull EXCEPT !.at = "done"]
  /\ bell' = [bell EXCEPT !.list = <<>>]
  /\ news' = [news EXCEPT !.breaks = @ + 1, !.spoilt = TRUE]
  /\ UNCHANGED <<recent, sse>>

Received(type) == sse.sent # <<>> /\ Head(sse.sent).type = type

\* A mutant: the snapshot only counts as read.
snapshotIgnored ==
  /\ Received("snapshot")
  /\ bell' = [bell EXCEPT !.unread = 0]
  /\ sse' = [sse EXCEPT !.sent = Tail(@)]
  /\ news' = [news EXCEPT !.spoilt = FALSE]
  /\ UNCHANGED <<recent, pull>>

\* The snapshot is as new as the stream: whatever spoilt the list before is repaired.
snapshotEvent ==
  /\ Received("snapshot")
  /\ bell' = [bell EXCEPT !.list = Head(sse.sent).list, !.unread = 0]
  /\ sse' = [sse EXCEPT !.sent = Tail(@)]
  /\ news' = [news EXCEPT !.spoilt = FALSE]
  /\ UNCHANGED <<recent, pull>>

notificationEvent ==
  /\ Received("notification")
  /\ bell' = [bell EXCEPT !.list = Listed(<<Head(sse.sent).n>> \o @, MaxShown),
                          !.unread = Lower(@ + 1, MaxUnread)]
  /\ sse' = [sse EXCEPT !.sent = Tail(@)]
  /\ UNCHANGED <<recent, pull, news>>

onOpenChange ==
  /\ bell' = [bell EXCEPT !.open = ~@, !.unread = IF bell.open THEN @ ELSE 0]
  /\ UNCHANGED <<recent, sse, pull, news>>

BellNext ==
  \/ publish \/ streamOpened \/ subscribed \/ streamRefused \/ answer \/ restart
  \/ mount \/ reconnect \/ pulled \/ pullFailed
  \/ snapshotEvent \/ notificationEvent \/ onOpenChange

-----------------------------------------------------------------------------
(***************************************************************************)
(* Properties.                                                             *)
(***************************************************************************)
BellTypeOK ==
  /\ recent \in Seq(1..MaxPublished) /\ Len(recent) <= MaxRecent
  /\ Len(bell.list) <= MaxShown /\ bell.unread \in 0..MaxUnread

\* Once the stream is open, all it sent received and the request answered, the bell
\* shows the newest notifications the server has, in order and each once; unless one
\* was published between the snapshot and the subscription, or the answer to the request
\* came after the stream was ahead of it.
BellComplete ==
  /\ sse.at = "open" /\ sse.sent = <<>> /\ ~sse.missed
  /\ pull.at = "done" /\ ~news.spoilt
  => bell.list = listRecent
=============================================================================

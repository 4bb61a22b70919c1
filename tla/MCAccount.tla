------------------------------ MODULE MCAccount ------------------------------
(* Instances of Account for TLC. *)
EXTENDS Account, TLC

Policy(max, lockout, weak, first, reject) ==
  [maxFailed |-> max, lockout |-> lockout, weak |-> weak, forceFirst |-> first,
   rejectWeak |-> reject]

\* Nothing is asked of a password, and no lock ends.
OneFailureLocks == Policy(1, 1, {}, FALSE, FALSE)
OneFailureLocksLonger == Policy(1, 2, {}, FALSE, FALSE)
TwoFailuresLock == Policy(2, 1, {}, FALSE, FALSE)
Plain == {OneFailureLocks, OneFailureLocksLonger, TwoFailuresLock}
\* Two failures lock, for a minute or two; in one case a first login has to be a reset.
Locking == {Policy(2, 2, {}, FALSE, FALSE), Policy(2, 1, {}, TRUE, FALSE)}
\* The initial password is to be changed, or is not accepted.
Strict == {Policy(2, 1, {"initial"}, FALSE, FALSE), Policy(1, 1, {"initial"}, FALSE, TRUE)}

Most(k, a, rs, u, l, rt, t) ==
  [tokens |-> k, attempts |-> a, resets |-> rs, updates |-> u, lost |-> l,
   restarts |-> rt, time |-> t]

\* Sessions and a reset, but nothing else that changes the account, under Plain: three tokens
\* of two logins, three of one login with a lost request, or two with one.  One session and
\* the whole of the lockout under the others, and under Strict until the first lock can have
\* ended.  A policy is updated to one of its group.
PlainOrVaried == Plain \cup Locking \cup Strict
Scenarios == [po \in PlainOrVaried |->
                CASE po = OneFailureLocks -> Most(3, 2, 1, 0, 0, 0, 0)
                  [] po = OneFailureLocksLonger -> Most(3, 1, 1, 0, 1, 0, 0)
                  [] po = TwoFailuresLock -> Most(2, 2, 1, 0, 1, 0, 0)
                  [] po \in Locking -> Most(1, 3, 0, 1, 0, 1, 2)
                  [] po \in Strict -> Most(1, 3, 0, 1, 0, 1, 1)]

\* One login and no fault at all.
OneLogin == [po \in Plain |-> Most(3, 1, 0, 0, 0, 0, 0)]

Symmetry == Permutations(Http)
=============================================================================

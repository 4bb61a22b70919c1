---------------------------- MODULE MCTaskQueue ----------------------------
(* Instances of TaskQueue for TLC. *)
EXTENDS TaskQueue, TLC

Body(fail, max, strategy) ==
  [forceFail |-> fail, maxRetry |-> max, retryStrategy |-> strategy, retryBaseDelay |-> 1]

\* A task that succeeds, one dead-lettered at once, one retried once and one
\* retried twice with a growing delay.
Bodies == {Body(FALSE, 1, "fixed"), Body(TRUE, 0, "fixed"),
           Body(TRUE, 2, "fixed"), Body(TRUE, 3, "exponential")}

\* One of two tasks may have any body, the other is dead-lettered at once.
Other == CHOOSE t \in Task : t # CHOOSE u \in Task : TRUE
InitTwo == Init /\ dto[Other] = Body(TRUE, 0, "fixed")
TwoTasks == InitTwo /\ [][Next]_vars /\ Fairness
=============================================================================

--------------------------- MODULE MCSubscription ---------------------------
(* Instances of Subscription for TLC. *)
EXTENDS Subscription, TLC

\* A trial with one dispatch and a paid plan with two.
TrialAndPaid == {[plan |-> "free", trial |-> 1, limit |-> 1],
                 [plan |-> "pro", trial |-> 0, limit |-> 2]}

PaidOnly == {[plan |-> "pro", trial |-> 0, limit |-> 1]}
=============================================================================

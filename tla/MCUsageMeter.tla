---------------------------- MODULE MCUsageMeter ----------------------------
(* Instances of UsageMeter for TLC. *)
EXTENDS UsageMeter, TLC

\* One dispatch, or any number.
UpAndDown == {[plan |-> "pro", trial |-> 0, limit |-> 1],
              [plan |-> "enterprise", trial |-> 0, limit |-> -1]}

Symmetry == Permutations(Http)
=============================================================================

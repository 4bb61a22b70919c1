------------------------------ MODULE MCPeriphery ------------------------------
(* Instances of Periphery for TLC. *)
EXTENDS Periphery, TLC

\* Nothing chooses among these but by \E.  Tabs, tenants, operators and instances are named
\* like the items: no part has both, or both are interchangeable together.
Symmetry == Permutations(Item) \cup Permutations(User)
=============================================================================

------------------------------ MODULE MCPlatform ------------------------------
(* Instances of Platform for TLC. *)
EXTENDS Platform, TLC

\* The rule of data/abac-policy-rules.json, and the same for managers only.
SelfScope == {[enabled |-> TRUE, allowedRoles |-> {"admin", "viewer"}, requireTenantMatch |-> TRUE],
              [enabled |-> TRUE, allowedRoles |-> {"admin"}, requireTenantMatch |-> FALSE]}

\* PATCHes of one flag, of none, and of two the second of which is not boolean.
Patches == {<<>>, <<[flag |-> "f1", value |-> "off"]>>,
            <<[flag |-> "f2", value |-> "on"], [flag |-> "f1", value |-> "not boolean"]>>}

\* A setting of the host, or of all three; three domains of one tenant, or free.
Some == {{"host"}, {"host", "tenant", "user"}}
Bound == {[d \in Domain |-> "t1"], [d \in Domain |-> "nobody"]}

Symmetry == Permutations(Http) \cup Permutations(Domain)
=============================================================================

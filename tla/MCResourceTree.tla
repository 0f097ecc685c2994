---------------------------- MODULE MCResourceTree ----------------------------
(* TLC instances of ResourceTree. *)
EXTENDS ResourceTree

CONSTANTS a1, a2, none, user, adapter, acme, globex

R4 == 1 .. 4
OneAdapter == {a1}
TwoAdapters == {a1, a2}

None4 == [r \in R4 |-> {}]
Zero4 == [r \in R4 |-> 0]

\* Tenancy disabled: one unscoped caller.
OneUser  == {user}
Unscoped == [c \in OneUser |-> {}]

\* Tenancy enabled: two organisations and the adapters, a system caller.
Orgs     == {acme, globex, adapter}
Adapted  == {adapter}
OrgScope == [c \in Orgs |-> IF c = adapter THEN {} ELSE {<<"org", c>>}]

\* A cluster (1) with a node pool (2, cascade) that owns a resource without
\* adapters (3, cascade), and a restricted child (4).
TreeOwner    == <<none, 1, 2, 1>>
TreeKind     == <<"cluster", "nodepool", "config", "lease">>
TreeRestrict == {"lease"}
TreeRequired == <<{a1}, {a1, a2}, {}, {a1}>>

\* A root without adapters (1) and its children of two kinds (2, 3), the second
\* of which may refer to the first; another root (5); 4 refers to one or two of
\* 1, 2 and 5.
R5          == 1 .. 5
RefOwner    == <<none, 1, 1, none, none>>
RefKind     == <<"cluster", "nodepool", "addon", "policy", "cluster">>
RefRestrict == {}
RefRequired == <<{}, {a1}, {}, {}, {}>>
RefTargets  == <<{}, {}, {2}, {1, 2, 5}, {}>>
RefMin      == <<0, 0, 0, 1, 0>>
RefMax      == <<0, 0, 0, 2, 0>>
=============================================================================

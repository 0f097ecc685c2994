------------------------------ MODULE MCRowLocks ------------------------------
(* A cluster (1) with a node pool (2), and a policy (3) that may refer to both
   and to which the cluster may refer. *)
EXTENDS RowLocks

CONSTANTS t1, t2, t3, none

R3 == 1 .. 3
LockOwner   == <<none, 1, none>>
LockKind    == <<"cluster", "nodepool", "policy">>
LockRequests == {<<"create", 2, {}>>, <<"delete", 1, {}>>, <<"force", 1, {}>>,
                 <<"patch", 3, {1, 2}>>, <<"patch", 1, {3}>>, <<"report", 2, {}>>}
LockTargets == <<{3}, {}, {1, 2}>>
=============================================================================

------------------------------- MODULE RowLocks -------------------------------
(***************************************************************************)
(* The row locks of the write transactions, one statement and one row at a *)
(* time (pkg/services/resource.go over pkg/dao/resource.go).  ResourceTree *)
(* takes a deletion as one atomic step; here it locks its rows in the      *)
(* order the code does while others do the same, transactions may wait for *)
(* each other in a circle, and PostgreSQL ends such a circle by aborting   *)
(* one of them.                                                            *)
(*                                                                         *)
(* A locking query lists its rows first and then locks them in id order; a *)
(* row that went while the query waited is left out.  Deletion policies,   *)
(* counts of references, adapters' names and tenants are ResourceTree's:   *)
(* every kind cascades and has adapters here.                              *)
(***************************************************************************)
EXTENDS Integers, Sequences, FiniteSets, SequencesExt, Relation

CONSTANTS
    Resources,  \* ids, ordered: a set of integers
    NoOwner,    \* the owner of a root resource
    Owner,      \* Owner[r]: r's owner_id
    Kind,       \* Kind[r]: r's kind
    Targets,    \* Targets[r]: what r may refer to
    Txs,        \* the transactions, each of which runs once
    Requests    \* what they may be: <<operation, resource, references>>

Ops == {"create", "patch", "delete", "force", "report"}

\* How many levels there may be below each resource.
Heights == {h \in [Resources -> 0 .. Cardinality(Resources)] :
               \A r \in Resources : Owner[r] # NoOwner => h[r] < h[Owner[r]]}

ASSUME LocksAssumption ==
    /\ Resources \subseteq Int /\ IsFiniteSet(Resources)
    /\ NoOwner \notin Resources
    /\ Owner \in [Resources -> Resources \cup {NoOwner}]
    \* no circles: an owner exists before what it owns, and owner_id never changes
    /\ Heights # {}
    /\ Targets \in [Resources -> SUBSET Resources]
    /\ Requests \subseteq Ops \X Resources \X SUBSET Resources
    /\ \A q \in Requests : q[3] \subseteq Targets[q[2]]

VARIABLES
    phase,  \* "absent", "active", "finalizing" or "gone", as committed
    refs,   \* committed rows of resource_references
    tx,     \* tx[t]: the request, what is left to do, and the tree collected so far
    held    \* held[t]: <<row, mode>> locks of t

vars == <<phase, refs, tx, held>>

Done == {"committed", "aborted"}

Present(r)  == phase[r] \in {"active", "finalizing"}
Children(r) == {c \in Resources : Owner[c] = r}
ChildKinds(r) == {Kind[c] : c \in Children(r)}

Idle == [op |-> "idle", on |-> NoOwner, to |-> {}, todo |-> <<>>, tree |-> {}]

\* A step of a transaction: lock a row (and why), list the children of a row of
\* one kind after the other, list the sources of references into the tree, or
\* read the targets of the new references.
LockRow(r, why) == [do |-> "lock", row |-> r, why |-> why, groups |-> {}]
ListKids(r, G)  == [do |-> "kids", row |-> r, why |-> "tree", groups |-> G]
ListSources     == [do |-> "sources", row |-> NoOwner, why |-> "source", groups |-> {}]
ReadTargets     == [do |-> "targets", row |-> NoOwner, why |-> "target", groups |-> {}]

\* DELETE asks for the children kind by kind, force delete for all at once.
Groups(op, r) == IF ChildKinds(r) = {} THEN {}
                 ELSE IF op = "delete" THEN {{k} : k \in ChildKinds(r)} ELSE {ChildKinds(r)}

\* The i-th smallest id of S.
ById(S) == [i \in 1 .. Cardinality(S) |-> CHOOSE x \in S : Cardinality({y \in S : y <= x}) = i]
LockAll(S, why) == [i \in 1 .. Cardinality(S) |-> LockRow(ById(S)[i], why)]

\* Mutant: force delete locks the tree from the leaves up.
ProgramLeavesFirst(op, r) ==
    CASE op = "create" -> IF Owner[r] = NoOwner THEN <<ReadTargets>>
                          ELSE <<LockRow(Owner[r], "own"), ReadTargets>>
      [] op = "patch"  -> <<LockRow(r, "own"), ReadTargets>>
      [] op = "delete" -> <<LockRow(r, "own"), ListKids(r, Groups(op, r))>>
      [] op = "force"  -> <<ListKids(r, Groups(op, r)), LockRow(r, "own"), ListSources>>
      [] op = "report" -> <<LockRow(r, "own")>>

\* Mutant: a create does not lock its parent.
ProgramParentUnlocked(op, r) ==
    CASE op = "create" -> <<ReadTargets>>
      [] op = "patch"  -> <<LockRow(r, "own"), ReadTargets>>
      [] op = "delete" -> <<LockRow(r, "own"), ListKids(r, Groups(op, r))>>
      [] op = "force"  -> <<LockRow(r, "own"), ListKids(r, Groups(op, r)), ListSources>>
      [] op = "report" -> <<LockRow(r, "own")>>

\* What each request does, in order.
Program(op, r) ==
    CASE op = "create" -> IF Owner[r] = NoOwner THEN <<ReadTargets>>
                          ELSE <<LockRow(Owner[r], "own"), ReadTargets>>
      [] op = "patch"  -> <<LockRow(r, "own"), ReadTargets>>
      [] op = "delete" -> <<LockRow(r, "own"), ListKids(r, Groups(op, r))>>
      [] op = "force"  -> <<LockRow(r, "own"), ListKids(r, Groups(op, r)), ListSources>>
      [] op = "report" -> <<LockRow(r, "own")>>

-----------------------------------------------------------------------------
(* Any state the table may be in between requests. *)
Init ==
    /\ phase \in [Resources -> {"absent", "active", "finalizing"}]
    /\ \A r \in Resources : Owner[r] # NoOwner =>
         /\ phase[r] = "active" => phase[Owner[r]] = "active"
         /\ phase[r] = "finalizing" => Present(Owner[r])
    /\ refs \in SUBSET UNION {{r} \X Targets[r] : r \in Resources}
    /\ \A e \in refs : phase[e[1]] = "active" /\ Present(e[2])
    /\ tx = [t \in Txs |-> Idle]
    /\ held = [t \in Txs |-> {}]

Begin(t, op, r, to) ==
    /\ tx[t] = Idle
    /\ op = "create" <=> phase[r] = "absent"
    /\ op = "create" => \A u \in Txs : tx[u].on # r  \* ids are fresh
    /\ tx' = [tx EXCEPT ![t] = [op |-> op, on |-> r, to |-> to, todo |-> Program(op, r), tree |-> {}]]
    /\ UNCHANGED <<phase, refs, held>>

-----------------------------------------------------------------------------
Running(t) == tx[t].op \in Ops
Doing(t, what) == Running(t) /\ tx[t].todo # <<>> /\ Head(tx[t].todo).do = what

Mode(item) == IF item.why = "target" THEN "share" ELSE "update"

\* Mutant: the foreign key's lock does not stop a FOR UPDATE.
ConflictUpdatesOnly(m, n) == m = "update" /\ n = "update"

\* FOR UPDATE against FOR UPDATE and against the foreign key's FOR KEY SHARE.
Conflict(m, n) == m = "update" \/ n = "update"
Blockers(t, item) ==
    {u \in Txs \ {t} : \E l \in held[u] : l[1] = item.row /\ Conflict(l[2], Mode(item))}

WaitsFor(t) == IF Doing(t, "lock") THEN Blockers(t, Head(tx[t].todo)) ELSE {}

End(t, how) ==
    /\ tx' = [tx EXCEPT ![t] = [Idle EXCEPT !.op = how]]
    /\ held' = [held EXCEPT ![t] = {}]

\* The row a request is about must be there and in the right phase; the parent of
\* a create, and the target of a reference under its foreign key, must be there.
Acceptable(t, item) ==
    /\ item.why = "own" =>
         phase[item.row] \in CASE tx[t].op \in {"create", "patch"} -> {"active"}
                               [] tx[t].op = "force"               -> {"finalizing"}
                               [] OTHER                            -> {"active", "finalizing"}
    /\ item.why = "target" => Present(item.row)

\* The head of todo is a row lock that nobody's lock conflicts with.
Lock(t) ==
    /\ Doing(t, "lock")
    /\ WaitsFor(t) = {}
    /\ LET item == Head(tx[t].todo)
       IN  IF ~Acceptable(t, item) THEN End(t, "aborted")
           ELSE /\ held' = IF Present(item.row)
                           THEN [held EXCEPT ![t] = @ \cup {<<item.row, Mode(item)>>}]
                           ELSE held
                /\ tx' = [tx EXCEPT
                           ![t].todo = Tail(@),
                           ![t].tree = IF item.why \in {"own", "tree"} /\ Present(item.row)
                                       THEN @ \cup {item.row} ELSE @]
    /\ UNCHANGED <<phase, refs>>

\* FindByKindAndOwnerForUpdate, FindChildrenForUpdate: the rows of one group of
\* kinds, to be locked by id; each is then visited before the next group.  The
\* groups come in any order (ChildrenOf ranges over a map).
List(t) ==
    /\ Doing(t, "kids")
    /\ LET item == Head(tx[t].todo)
           rest == Tail(tx[t].todo)
       IN  IF item.groups = {} THEN tx' = [tx EXCEPT ![t].todo = rest]
           ELSE \E g \in item.groups :
                  LET kids == {c \in Children(item.row) : Present(c) /\ Kind[c] \in g}
                  IN  tx' = [tx EXCEPT ![t].todo =
                               LockAll(kids, "tree")
                               \o [i \in 1 .. Cardinality(kids) |->
                                     ListKids(ById(kids)[i], Groups(tx[t].op, ById(kids)[i]))]
                               \o <<ListKids(item.row, item.groups \ {g})>> \o rest]
    /\ UNCHANGED <<phase, refs, held>>

\* FindExternalReferenceCounts lists the surviving sources.
Sources(t) ==
    /\ Doing(t, "sources")
    /\ tx' = [tx EXCEPT ![t].todo =
                LockAll({e[1] : e \in {e \in refs : e[2] \in tx[t].tree}} \ tx[t].tree, "source")
                \o Tail(@)]
    /\ UNCHANGED <<phase, refs, held>>

\* validateReferences reads the targets without a lock; the insert then locks
\* them for its foreign key, in whatever order a map gave.
Validate(t) ==
    /\ Doing(t, "targets")
    /\ IF \A x \in tx[t].to : phase[x] = "active"
       THEN \E order \in SetToSeqs(tx[t].to) :
              /\ tx' = [tx EXCEPT ![t].todo =
                          [i \in 1 .. Len(order) |-> LockRow(order[i], "target")] \o Tail(@)]
              /\ UNCHANGED held
       ELSE End(t, "aborted")
    /\ UNCHANGED <<phase, refs>>

-----------------------------------------------------------------------------
\* Nothing is left to lock: write and commit, or find a reason not to.
Commit(t) ==
    LET r == tx[t].on
        S == tx[t].tree
        into == {e \in refs : e[2] \in S}
        from == {e \in refs : e[1] \in S}
    IN  /\ Running(t) /\ tx[t].todo = <<>>
        /\ CASE tx[t].op = "create" ->
                  /\ phase' = [phase EXCEPT ![r] = "active"]
                  /\ refs' = refs \cup ({r} \X tx[t].to)
                  /\ End(t, "committed")
             [] tx[t].op = "patch" ->
                  /\ refs' = {e \in refs : e[1] # r} \cup ({r} \X tx[t].to)
                  /\ UNCHANGED phase
                  /\ End(t, "committed")
             [] tx[t].op = "delete" ->
                  IF \E e \in into : phase[e[1]] = "active" /\ e[1] \notin S
                  THEN End(t, "aborted") /\ UNCHANGED <<phase, refs>>
                  ELSE /\ phase' = [x \in Resources |-> IF x \in S THEN "finalizing" ELSE phase[x]]
                       /\ refs' = refs \ from
                       /\ End(t, "committed")
             [] tx[t].op = "force" ->
                  /\ phase' = [x \in Resources |-> IF x \in S THEN "gone" ELSE phase[x]]
                  /\ refs' = (refs \ into) \ from
                  /\ End(t, "committed")
             [] tx[t].op = "report" ->
                  /\ IF /\ phase[r] = "finalizing" /\ into = {}
                        /\ \A c \in Children(r) : ~Present(c)
                     THEN phase' = [phase EXCEPT ![r] = "gone"]
                     ELSE UNCHANGED phase
                  /\ UNCHANGED refs
                  /\ End(t, "committed")

\* Mutant: an error path leaves the transaction open.
FailOpen(t) ==
    /\ Running(t)
    /\ tx' = [tx EXCEPT ![t] = [Idle EXCEPT !.op = "aborted"]]
    /\ UNCHANGED <<phase, refs, held>>

\* A failed statement, a lost connection, a request that timed out: rolled back.
Fail(t) ==
    /\ Running(t)
    /\ End(t, "aborted")
    /\ UNCHANGED <<phase, refs>>

InCircle(t) ==
    /\ WaitsFor(t) # {}
    /\ TransitiveClosure([u, v \in Txs |-> v \in WaitsFor(u)], Txs)[t, t]

\* PostgreSQL aborts one transaction of a circle (SQLSTATE 40P01).
DeadlockVictim(t) ==
    /\ InCircle(t)
    /\ End(t, "aborted")
    /\ UNCHANGED <<phase, refs>>

Quiet == (\A t \in Txs : tx[t].op \in Done) /\ UNCHANGED vars

Step(t) == Lock(t) \/ List(t) \/ Sources(t) \/ Validate(t) \/ Commit(t)

Next ==
    \/ \E t \in Txs :
         \/ \E q \in Requests : Begin(t, q[1], q[2], q[3])
         \/ Step(t)
         \/ Fail(t)
         \/ DeadlockVictim(t)
    \/ Quiet

Spec == Init /\ [][Next]_vars

\* As long as some transaction can go on, or PostgreSQL's detector finds a
\* circle, something happens.  Nothing forces a request to fail.
Fairness == WF_vars(\E t \in Txs : Step(t) \/ DeadlockVictim(t))

FairSpec == Spec /\ Fairness

-----------------------------------------------------------------------------
(* Properties *)

\* A circle of waiting transactions always has a member that waits for a row
\* because of a reference (a source that loses its target, a target the insert
\* points at): walking the tree from a resource to its children, in whatever
\* order the kinds come, never deadlocks by itself.
TreeLocksNeverDeadlock ==
    LET WaitsInTree(t) == Doing(t, "lock") /\ Head(tx[t].todo).why \in {"own", "tree"}
    IN  ~ \E S \in (SUBSET {t \in Txs : WaitsInTree(t)}) \ {{}} :
            \A t \in S : WaitsFor(t) \cap S # {}

\* Every request is answered: whoever waits gets the lock, or a circle is broken.
EveryRequestEnds == (\E t \in Txs : Running(t)) ~> (\A t \in Txs : ~Running(t))

\* Locking row by row, with creates and patches of the same rows in between, the
\* transactions still only take the steps of the abstract life cycle: nothing is
\* alive under a marked resource and nothing is left without its owner.
Lifecycle == INSTANCE ResourceLifecycle
               WITH Resources <- Resources, NoOwner <- NoOwner, Owner <- Owner, phase <- phase
StepsOfLifecycle == [][Lifecycle!Next]_phase

\* A committed reference comes from a living resource and its target exists.
ReferencesHold == \A e \in refs : phase[e[1]] = "active" /\ Present(e[2])

-----------------------------------------------------------------------------
(* The inductive invariant: what holds of each transaction T with the locks H *)
(* in a table with phases p, and between them.                                *)

InTable(p, r) == p[r] \in {"active", "finalizing"}

\* A positive height for every owner, decreasing downwards.
Height == CHOOSE h \in Heights : TRUE

Kinds == {Kind[r] : r \in Resources}
Item == [do : {"lock", "kids", "sources", "targets"}, row : Resources \cup {NoOwner},
         why : {"own", "tree", "source", "target"}, groups : SUBSET SUBSET Kinds]

TxType(T, H) ==
    /\ T \in [op : Ops \cup Done \cup {"idle"}, on : Resources \cup {NoOwner},
              to : SUBSET Resources, todo : Seq(Item), tree : SUBSET Resources]
    /\ H \subseteq Resources \X {"share", "update"}
    /\ IF T.op \in Ops THEN T.on \in Resources
                       ELSE T.on = NoOwner /\ T.todo = <<>> /\ T.tree = {} /\ H = {}

Walks(T) == T.op \in {"delete", "force"}
OwnRow(T) == IF T.op = "create" THEN Owner[T.on] ELSE T.on

\* The row the transaction is about (or its parent's) is locked and as it should be.
OwnHeld(T, H, p) ==
    /\ T.op = "create" /\ Owner[T.on] # NoOwner =>
          <<Owner[T.on], "update">> \in H /\ p[Owner[T.on]] = "active"
    /\ T.op = "patch" => <<T.on, "update">> \in H /\ p[T.on] = "active"
    /\ T.op \in {"delete", "force", "report"} => T.on \in T.tree
    /\ T.op = "force" => p[T.on] = "finalizing"

\* Rows that are locked exist, the tree collected is locked, and the own row is
\* locked before anything else.
HoldsRows(T, H, p) ==
    /\ \A l \in H : InTable(p, l[1])
    /\ \A x \in T.tree : <<x, "update">> \in H
    /\ T.op \in Ops => OwnHeld(T, H, p) \/ (T.todo # <<>> /\ T.todo[1].why = "own")
    /\ T.op = "create" => p[T.on] = "absent"

\* What may be on the list.
ListOK(T, H, p) ==
    \A i \in 1 .. Len(T.todo) : LET m == T.todo[i] IN
        /\ m.do \in {"lock", "kids"} => m.row \in Resources
        /\ m.why = "own" => i = 1 /\ m.do = "lock" /\ m.row = OwnRow(T) /\ H = {} /\ T.tree = {}
        /\ m.do = "kids" => Walks(T) /\ m.why = "tree"
        /\ m.do = "lock" /\ m.why = "tree" =>
              Walks(T) /\ p[m.row] # "absent" /\ Owner[m.row] \in T.tree
        /\ m.do = "sources" => m.why = "source"
        /\ m.do = "targets" => m.why = "target"
        /\ m.why = "source" => T.op = "force"
        /\ m.why = "target" => T.op \in {"create", "patch"}

\* A row to be locked is visited later, a row to be visited is locked before (or
\* went away), and sources come last.
VisitsInOrder(T, p) ==
    /\ \A i \in 1 .. Len(T.todo) :
          Walks(T) /\ T.todo[i].do = "lock" /\ T.todo[i].why \in {"own", "tree"} =>
             \E j \in i + 1 .. Len(T.todo) :
                T.todo[j] = ListKids(T.todo[i].row, Groups(T.op, T.todo[i].row))
    /\ \A j \in 1 .. Len(T.todo) :
          T.todo[j].do = "kids" =>
             \/ T.todo[j].row \in T.tree
             \/ p[T.todo[j].row] = "gone"
             \/ \E i \in 1 .. j - 1 : /\ T.todo[i].do = "lock" /\ T.todo[i].why \in {"own", "tree"}
                                      /\ T.todo[i].row = T.todo[j].row
    /\ \A i, j \in 1 .. Len(T.todo) : T.todo[i].why = "source" /\ T.todo[j].do = "kids" => j < i

\* No child of a locked row is forgotten.
MissesNone(T, p) ==
    Walks(T) =>
        \A x \in T.tree : \A c \in Children(x) : InTable(p, c) =>
            \/ c \in T.tree
            \/ \E i \in 1 .. Len(T.todo) :
                  \/ T.todo[i] = LockRow(c, "tree")
                  \/ T.todo[i].do = "kids" /\ T.todo[i].row = x /\ \E g \in T.todo[i].groups : Kind[c] \in g

\* The rows locked while walking are a tree that hangs from the own row.
Connected(T, H) ==
    /\ (\E j \in 1 .. Len(T.todo) : T.todo[j].do = "kids") => \A l \in H : l[1] \in T.tree
    /\ Walks(T) => \A x \in T.tree : /\ x = T.on \/ Owner[x] \in T.tree
                                     /\ Height[x] <= Height[T.on]

\* The targets of the new references are locked, or will be.
TargetsHeld(T, H) ==
    T.op \in {"create", "patch"} =>
        \A x \in T.to :
            \/ \E i \in 1 .. Len(T.todo) : T.todo[i].do = "targets" \/ T.todo[i] = LockRow(x, "target")
            \/ \E m \in {"share", "update"} : <<x, m>> \in H

TxInv(T, H, p) ==
    /\ TxType(T, H) /\ HoldsRows(T, H, p) /\ ListOK(T, H, p) /\ VisitsInOrder(T, p)
    /\ MissesNone(T, p) /\ Connected(T, H) /\ TargetsHeld(T, H)

LocksExclusive ==
    \A t, u \in Txs : t # u =>
        \A l \in held[t], m \in held[u] : l[1] = m[1] => ~Conflict(l[2], m[2])

IdsFresh ==
    \A t, u \in Txs : t # u /\ tx[t].op = "create" /\ tx[u].op = "create" => tx[t].on # tx[u].on

TableInOrder ==
    /\ phase \in [Resources -> {"absent", "active", "finalizing", "gone"}]
    /\ refs \subseteq Resources \X Resources
    /\ \A r \in Resources : Owner[r] # NoOwner =>
         /\ phase[r] = "active" => phase[Owner[r]] = "active"
         /\ phase[r] = "finalizing" => Present(Owner[r])

RowLocksInv ==
    /\ TableInOrder /\ ReferencesHold
    /\ DOMAIN tx = Txs /\ DOMAIN held = Txs
    /\ \A t \in Txs : TxInv(tx[t], held[t], phase)
    /\ LocksExclusive /\ IdsFresh
=============================================================================

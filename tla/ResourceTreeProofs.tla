-------------------------- MODULE ResourceTreeProofs --------------------------
(***************************************************************************)
(* Proofs about ResourceTree for every finite forest of resources, every   *)
(* policy, every set of adapters, every bound on references and any        *)
(* number of callers.  What rests on a caller seeing the whole of its tree *)
(* is proved for tenants of the same grain (SameGrain).                    *)
(***************************************************************************)
EXTENDS ResourceTree, FiniteSetTheorems, TLAPS

-----------------------------------------------------------------------------
(* Types *)

(* A row without a pending transaction. *)
LEMMA NoTxType ==
    NoTx \in [op : {"none", "create", "patch"}, to : SUBSET Resources, own : Tenancies]
BY DEF NoTx, Tenancies

(* The first step of a create or a patch leaves a well-formed transaction. *)
LEMMA BeginType ==
    ASSUME TypeOK, NEW c \in Callers, NEW s \in Resources, NEW to \in SUBSET Targets[s],
           BeginCreate(c, s, to) \/ BeginPatch(c, s, to)
    PROVE  TypeOK'
<1>1. to \subseteq Resources
  BY KindAssumption
<1>2. Scope[c] \in Tenancies /\ tenancy[s] \in Tenancies
  BY DEF TypeOK, Tenancies
<1> QED
  BY <1>1, <1>2 DEF TypeOK, BeginCreate, BeginPatch

(* Every step keeps the tables well formed. *)
LEMMA TypeStep ==
    ASSUME TypeOK, [Next]_vars
    PROVE  TypeOK'
<1>1. ASSUME NEW c \in Callers, NEW s \in Resources, NEW to \in SUBSET Targets[s],
             BeginCreate(c, s, to) \/ BeginPatch(c, s, to)
      PROVE  TypeOK'
  BY <1>1, BeginType
<1>2. ASSUME NEW c \in Callers, NEW r \in Resources, Delete(c, r)
      PROVE  TypeOK'
  BY <1>2 DEF TypeOK, Delete, deleteResourceTree
<1>3. ASSUME NEW c \in Callers, NEW r \in Resources, ForceDelete(c, r)
      PROVE  TypeOK'
  BY <1>3 DEF TypeOK, ForceDelete, forceDeleteTx
<1>4. ASSUME NEW c \in Callers, NEW r \in Resources, NEW a \in Adapters, NEW final \in BOOLEAN,
             ProcessAdapterStatus(c, r, a, final)
      PROVE  TypeOK'
  BY <1>4 DEF TypeOK, ProcessAdapterStatus
<1>5. ASSUME NEW s \in Resources, Commit(s)
      PROVE  TypeOK'
  <2>1. tx[s].to \subseteq Resources /\ tx[s].own \in Tenancies
    BY DEF TypeOK
  <2> QED
    BY <1>5, <2>1, NoTxType DEF TypeOK, Commit
<1>6. ASSUME NEW s \in Resources, Rollback(s)
      PROVE  TypeOK'
  BY <1>6, NoTxType DEF TypeOK, Rollback
<1>7. CASE UNCHANGED vars
  BY <1>7 DEF TypeOK, vars
<1> QED
  BY <1>1, <1>2, <1>3, <1>4, <1>5, <1>6, <1>7 DEF Next, NotFound

(* The tables are well formed at the start. *)
LEMMA TypeInit ==
    ASSUME Init PROVE TypeOK
BY NoTxType DEF Init, TypeOK, Tenancies

(* Every row, reference and pending transaction is well formed in every       *)
(* reachable state: no handler leaves a phase, a tenancy or a reference that  *)
(* the others do not know.                                                    *)
THEOREM TypeCorrect == Spec => []TypeOK
<1>1. Init => TypeOK
  BY TypeInit
<1>2. TypeOK /\ [Next]_vars => TypeOK'
  BY TypeStep
<1> QED
  BY <1>1, <1>2, PTL DEF Spec

-----------------------------------------------------------------------------
(* Rows and references, whoever sees what *)

(* As many reference rows as targets. *)
LEMMA CountOfRows ==
    ASSUME NEW s, NEW to, IsFiniteSet(to)
    PROVE  Cardinality({s} \X to) = Cardinality(to)
<1>1. IsFiniteSet({s}) /\ Cardinality({s}) = 1
  BY FS_Singleton
<1>2. Cardinality({s} \X to) = Cardinality({s}) * Cardinality(to)
  BY <1>1, FS_Product
<1> QED
  BY <1>1, <1>2, FS_CardinalityType

(* Reference rows are finitely many, and with fewer rows they do not get more. *)
LEMMA RowsFinite ==
    ASSUME TypeOK, NEW A, NEW B, A \subseteq B, B \subseteq refs
    PROVE  /\ IsFiniteSet(A) /\ IsFiniteSet(B)
           /\ Cardinality(A) \in Nat /\ Cardinality(B) \in Nat
           /\ Cardinality(A) <= Cardinality(B)
<1>1. IsFiniteSet(Resources \X Resources)
  BY TreeAssumption, FS_Product
<1>2. B \subseteq Resources \X Resources
  BY DEF TypeOK
<1>3. IsFiniteSet(B)
  BY <1>1, <1>2, FS_Subset
<1> QED
  BY <1>3, FS_Subset, FS_CardinalityType

(* A deletion or a report, which touches only rows that are there and that no *)
(* pending transaction has locked, leaves the pending ones what they rely on. *)
LEMMA PendingRowsKept ==
    ASSUME TypeOK, PendingRows, tx' = tx,
           \A x \in Resources : phase'[x] # phase[x] => Present(x) /\ ~Locked(x)
    PROVE  PendingRows'
<1> SUFFICES ASSUME NEW s \in Resources
             PROVE  /\ tx[s].op = "create" =>
                          /\ phase'[s] = "absent"
                          /\ Owner[s] # NoOwner => phase'[Owner[s]] = "active"
                    /\ tx[s].op = "patch" => phase'[s] = "active"
  BY DEF PendingRows
<1>1. CASE tx[s].op = "create"
  <2>1. phase'[s] = "absent"
    BY <1>1 DEF PendingRows, Present
  <2>2. ASSUME Owner[s] # NoOwner PROVE phase'[Owner[s]] = "active"
    <3>1. Owner[s] \in Resources /\ Locked(Owner[s])
      BY <1>1, <2>2, TreeAssumption DEF Locked, Locks
    <3> QED
      BY <1>1, <2>2, <3>1 DEF PendingRows
  <2> QED
    BY <1>1, <2>1, <2>2
<1>2. CASE tx[s].op = "patch"
  <2>1. Locked(s)
    BY <1>2 DEF Locked, Locks
  <2> QED
    BY <1>2, <2>1 DEF PendingRows
<1> QED
  BY <1>1, <1>2

(* Counts survive a step that leaves alone the references of what stays alive. *)
LEMMA CountsKept ==
    ASSUME ReferenceCountsHold,
           \A x \in Resources : phase'[x] = "active" => phase[x] = "active" /\ RefsOf(x)' = RefsOf(x)
    PROVE  ReferenceCountsHold'
BY DEF ReferenceCountsHold

(* The first step of a create or a patch. *)
LEMMA BeginRows ==
    ASSUME RowsInv, NEW c \in Callers, NEW s \in Resources, NEW to \in SUBSET Targets[s],
           BeginCreate(c, s, to) \/ BeginPatch(c, s, to)
    PROVE  RowsInv'
<1>1. TypeOK'
  BY BeginType DEF RowsInv
<1>2. phase' = phase /\ refs' = refs
  BY DEF BeginCreate, BeginPatch
<1>3. PendingRows'
  <2>1. tx \in [Resources -> [op : {"none", "create", "patch"}, to : SUBSET Resources,
                               own : Tenancies]]
    BY DEF RowsInv, TypeOK
  <2>2. validateReferences(c, s, to)
    BY DEF BeginCreate, BeginPatch
  <2>3. CASE BeginCreate(c, s, to)
    BY <1>2, <2>1, <2>2, <2>3 DEF BeginCreate, ParentFound, validateReferences, RowsInv, PendingRows
  <2>4. CASE BeginPatch(c, s, to)
    BY <1>2, <2>1, <2>2, <2>4 DEF BeginPatch, validateReferences, RowsInv, PendingRows
  <2> QED
    BY <2>3, <2>4
<1>4. ReferencesIntact' /\ ReferenceCountsHold'
  BY <1>2 DEF RowsInv, ReferencesIntact, ReferenceCountsHold, Present, RefsOf
<1> QED
  BY <1>1, <1>3, <1>4 DEF RowsInv

(* The second step writes the row and its references. *)
LEMMA CommitRows ==
    ASSUME RowsInv, NEW s \in Resources, Commit(s), TypeOK'
    PROVE  RowsInv'
<1> USE DEF RowsInv
<1>1. /\ phase' = [phase EXCEPT ![s] = "active"]
      /\ refs' = (refs \ RefsOf(s)) \cup ({s} \X tx[s].to)
      /\ tx' = [tx EXCEPT ![s] = NoTx]
      /\ tx[s].op # "none"
      /\ \A t \in tx[s].to : Present(t)
  BY DEF Commit
<1>2. PendingRows'
  BY <1>1, TreeAssumption DEF PendingRows, TypeOK, NoTx
<1>3. ReferencesIntact'
  BY <1>1 DEF ReferencesIntact, TypeOK, Present, RefsOf
<1>4. ReferenceCountsHold'
  <2>1. RefsOf(s)' = {s} \X tx[s].to
    BY <1>1 DEF RefsOf
  <2>2. IsFiniteSet(tx[s].to)
    BY TreeAssumption, FS_Subset DEF TypeOK
  <2>3. Cardinality(RefsOf(s)') = Cardinality(tx[s].to)
    BY <2>1, <2>2, CountOfRows
  <2>4. \A x \in Resources \ {s} : RefsOf(x)' = RefsOf(x) /\ phase'[x] = phase[x]
    BY <1>1 DEF RefsOf, TypeOK
  <2>5. ASSUME NEW x \in Resources, phase'[x] = "active"
        PROVE  /\ Cardinality(RefsOf(x)') >= MinRefs[x]
               /\ MaxRefs[x] > 0 => Cardinality(RefsOf(x)') <= MaxRefs[x]
    BY <1>1, <2>3, <2>4, <2>5 DEF PendingRows, ReferenceCountsHold
  <2> QED
    BY <2>5 DEF ReferenceCountsHold, RefsOf
<1> QED
  BY <1>2, <1>3, <1>4

(* A transaction that fails leaves no trace. *)
LEMMA RollbackRows ==
    ASSUME RowsInv, NEW s \in Resources, Rollback(s), TypeOK'
    PROVE  RowsInv'
<1>1. PendingRows'
  BY DEF RowsInv, Rollback, PendingRows, TypeOK, NoTx
<1>2. ReferencesIntact' /\ ReferenceCountsHold'
  BY DEF RowsInv, Rollback, ReferencesIntact, ReferenceCountsHold, Present, RefsOf
<1> QED
  BY <1>1, <1>2 DEF RowsInv

(* DELETE with its cascade. *)
LEMMA DeleteRows ==
    ASSUME RowsInv, NEW c \in Callers, NEW r \in Resources, Delete(c, r), TypeOK'
    PROVE  RowsInv'
<1> USE DEF RowsInv
<1>1. PICK S \in SUBSET Resources : \E Soft \in SUBSET S : deleteResourceTree(c, r, S, Soft)
  BY DEF Delete
<1>2. PICK Soft \in SUBSET S : deleteResourceTree(c, r, S, Soft)
  BY <1>1
<1>3. \A x \in S : Present(x)
  BY <1>2 DEF deleteResourceTree, IsCascade, Delete
<1>4. PendingRows'
  <2>1. \A x \in Resources : phase'[x] # phase[x] => Present(x) /\ ~Locked(x)
    BY <1>2, <1>3 DEF deleteResourceTree
  <2> QED
    BY <2>1, PendingRowsKept DEF Delete
<1>5. ReferencesIntact'
  <2> SUFFICES ASSUME NEW e \in refs, e[1] \notin S
               PROVE  phase'[e[1]] = "active" /\ phase'[e[2]] \in {"active", "finalizing"}
    BY <1>2 DEF ReferencesIntact, Present, deleteResourceTree, RefsFrom
  <2>1. e[1] \in Resources /\ e[2] \in Resources
    BY DEF TypeOK
  <2>2. phase'[e[1]] = "active"
    BY <1>2, <2>1 DEF deleteResourceTree, ReferencesIntact
  <2>3. e[2] \in S => e[2] \in Soft
    BY <1>2 DEF deleteResourceTree, Unreferenced, RefsInto
  <2> QED
    BY <1>2, <2>1, <2>2, <2>3 DEF deleteResourceTree, ReferencesIntact, Present
<1>6. ReferenceCountsHold'
  <2>1. ASSUME NEW x \in Resources, phase'[x] = "active"
        PROVE  phase[x] = "active" /\ RefsOf(x)' = RefsOf(x)
    BY <1>2, <2>1 DEF deleteResourceTree, RefsOf, RefsFrom
  <2> QED
    BY <2>1, CountsKept
<1> QED
  BY <1>4, <1>5, <1>6

(* An adapter's report, and the hard delete it may bring. *)
LEMMA ReportRows ==
    ASSUME RowsInv, NEW c \in Callers, NEW r \in Resources, NEW a \in Adapters,
           NEW final \in BOOLEAN, ProcessAdapterStatus(c, r, a, final), TypeOK'
    PROVE  RowsInv'
<1> USE DEF RowsInv
<1>1. \/ phase' = phase /\ refs' = refs
      \/ /\ RefsInto({r}) = {}
         /\ phase' = [phase EXCEPT ![r] = "gone"]
         /\ refs' = refs \ RefsFrom({r})
  BY DEF ProcessAdapterStatus
<1>2. PendingRows'
  <2>1. \A x \in Resources : phase'[x] # phase[x] => Present(x) /\ ~Locked(x)
    BY <1>1 DEF ProcessAdapterStatus, TypeOK
  <2> QED
    BY <2>1, PendingRowsKept DEF ProcessAdapterStatus
<1>3. ReferencesIntact'
  BY <1>1 DEF ReferencesIntact, Present, TypeOK, RefsInto, RefsFrom
<1>4. ReferenceCountsHold'
  <2>1. ASSUME NEW x \in Resources, phase'[x] = "active"
        PROVE  phase[x] = "active" /\ RefsOf(x)' = RefsOf(x)
    BY <1>1, <2>1 DEF RefsOf, RefsFrom, TypeOK
  <2> QED
    BY <2>1, CountsKept
<1> QED
  BY <1>2, <1>3, <1>4

(* Force delete of a subtree: its references go, in and out, and the sources   *)
(* that stay keep their minimum.                                              *)
LEMMA ForceDeleteRows ==
    ASSUME RowsInv, NEW c \in Callers, NEW r \in Resources, ForceDelete(c, r), TypeOK'
    PROVE  RowsInv'
<1> USE DEF RowsInv
<1>1. PICK S \in SUBSET Resources : forceDeleteTx(c, r, S)
  BY DEF ForceDelete
<1>2. \A x \in S : Present(x)
  BY <1>1 DEF forceDeleteTx, IsSubtree, ForceDelete, Present
<1>3. PendingRows'
  <2>1. \A x \in Resources : phase'[x] # phase[x] => Present(x) /\ ~Locked(x)
    BY <1>1, <1>2 DEF forceDeleteTx
  <2> QED
    BY <2>1, PendingRowsKept DEF ForceDelete
<1>4. ReferencesIntact'
  BY <1>1 DEF forceDeleteTx, ReferencesIntact, Present, TypeOK, RefsInto, RefsFrom
<1>5. ASSUME NEW x \in Resources, phase'[x] = "active"
      PROVE  /\ Cardinality(RefsOf(x)') >= MinRefs[x]
             /\ MaxRefs[x] > 0 => Cardinality(RefsOf(x)') <= MaxRefs[x]
  <2>1. x \notin S /\ phase[x] = "active"
    BY <1>1, <1>5 DEF forceDeleteTx
  <2>2. RefsOf(x)' = RefsOf(x) \ RefsInto(S)
    BY <1>1, <2>1 DEF forceDeleteTx, RefsOf, RefsFrom
  <2>3. /\ Cardinality(RefsOf(x)') \in Nat /\ Cardinality(RefsOf(x)) \in Nat
        /\ Cardinality(RefsOf(x)') <= Cardinality(RefsOf(x))
    <3>1. RefsOf(x)' \subseteq RefsOf(x) /\ RefsOf(x) \subseteq refs
      BY <2>2 DEF RefsOf
    <3> QED
      BY <3>1, RowsFinite
  <2>4. MaxRefs[x] > 0 => Cardinality(RefsOf(x)') <= MaxRefs[x]
    BY <2>1, <2>3, KindAssumption DEF ReferenceCountsHold
  <2>5. CASE x \in {e[1] : e \in RefsInto(S)}
    BY <1>1, <2>1, <2>2, <2>4, <2>5 DEF forceDeleteTx
  <2>6. CASE x \notin {e[1] : e \in RefsInto(S)}
    <3>1. RefsOf(x)' = RefsOf(x)
      BY <2>2, <2>6 DEF RefsOf
    <3> QED
      BY <2>1, <2>4, <3>1 DEF ReferenceCountsHold
  <2> QED
    BY <2>5, <2>6
<1>6. ReferenceCountsHold'
  BY <1>5 DEF ReferenceCountsHold, RefsOf
<1> QED
  BY <1>3, <1>4, <1>6

(* Every step keeps rows and references in order. *)
LEMMA RowsStep ==
    ASSUME RowsInv, [Next]_vars
    PROVE  RowsInv'
<1>1. TypeOK'
  BY TypeStep DEF RowsInv
<1>2. CASE UNCHANGED vars
  BY <1>2 DEF vars, RowsInv, TypeOK, PendingRows, ReferencesIntact, ReferenceCountsHold,
              Present, RefsOf
<1> QED
  BY <1>1, <1>2, BeginRows, CommitRows, RollbackRows, DeleteRows, ReportRows, ForceDeleteRows
     DEF Next, NotFound

(* No rows, no references. *)
LEMMA RowsInit ==
    ASSUME Init PROVE RowsInv
<1>1. PendingRows /\ ReferencesIntact /\ ReferenceCountsHold
  BY DEF Init, PendingRows, ReferencesIntact, ReferenceCountsHold, NoTx
<1> QED
  BY <1>1, TypeInit DEF RowsInv

(* The inductive invariant on rows and references, for any scopes.             *)
THEOREM RowsInvariant == Spec => []RowsInv
<1>1. Init => RowsInv
  BY RowsInit
<1>2. RowsInv /\ [Next]_vars => RowsInv'
  BY RowsStep
<1> QED
  BY <1>1, <1>2, PTL DEF Spec

(* References are validated without a lock on their target and written later: *)
(* the foreign key, the checks of DELETE and the clean-up of force delete      *)
(* still never leave a reference without its source or its target.            *)
THEOREM ReferencesAlwaysIntact == Spec => []ReferencesIntact
<1>1. RowsInv => ReferencesIntact
  BY DEF RowsInv
<1> QED
  BY <1>1, RowsInvariant, PTL

(* No sequence of creates, patches, deletions and force deletes takes an      *)
(* active resource below the minimum or above the maximum of its references.  *)
THEOREM ReferenceCountsAlwaysHold == Spec => []ReferenceCountsHold
<1>1. RowsInv => ReferenceCountsHold
  BY DEF RowsInv
<1> QED
  BY <1>1, RowsInvariant, PTL

-----------------------------------------------------------------------------
(* Steps of the abstract life cycle *)

(* Whoever sees a resource sees what is below it. *)
LEMMA SeesChildren ==
    ASSUME TenantsApart, NEW c \in Callers, NEW d \in Resources,
           Present(d), Owner[d] \in Resources, Sees(c, Owner[d])
    PROVE  Sees(c, d)
BY TreeAssumption DEF TenantsApart, Sees

(* What a DELETE visits, it visits with all that is alive below, and what it  *)
(* removes at once leaves nothing behind.                                     *)
LEMMA DeleteRetires ==
    ASSUME TreeInv, NEW c \in Callers, NEW r \in Resources, Delete(c, r)
    PROVE  Lifecycle!Next
<1>1. PICK S \in SUBSET Resources : \E Soft \in SUBSET S : deleteResourceTree(c, r, S, Soft)
  BY DEF Delete
<1>2. PICK Soft \in SUBSET S : deleteResourceTree(c, r, S, Soft)
  BY <1>1
<1>3. \A x \in S : Present(x) /\ Sees(c, x)
  BY <1>2 DEF deleteResourceTree, IsCascade, Delete
<1>4. ASSUME NEW d \in Resources, Owner[d] \in S
      PROVE  /\ phase[d] = "active" => d \in S
             /\ Owner[d] \notin Soft /\ Present(d) => d \in S \ Soft
  <2>1. d \in Children(Owner[d])
    BY DEF Children
  <2>2. Present(d) => Sees(c, d)
    BY <1>3, <1>4, SeesChildren DEF TreeInv
  <2>3. Present(d) /\ d \notin S => Kind[d] \in Restricted
    BY <1>2, <1>4, <2>1, <2>2 DEF deleteResourceTree, IsCascade
  <2>4. Present(d) /\ d \notin S => phase[d] # "active"
    BY <1>2, <1>4, <2>1, <2>2, <2>3 DEF deleteResourceTree, checkCanDelete
  <2>5. Present(d) /\ (d \in Soft \/ (d \notin S /\ phase[d] = "finalizing")) => Owner[d] \in Soft
    BY <1>2, <1>4, <2>1, <2>2 DEF deleteResourceTree, shouldSoftDelete
  <2> QED
    BY <2>4, <2>5 DEF Present
<1>5. Lifecycle!Retire(S, Soft)
  BY <1>2, <1>3, <1>4 DEF Lifecycle!Retire, Lifecycle!InTable, Present, deleteResourceTree
<1> QED
  BY <1>5 DEF Lifecycle!Next

(* A report removes its resource alone, when nothing is below it. *)
LEMMA ReportRemoves ==
    ASSUME TreeInv, NEW c \in Callers, NEW r \in Resources, NEW a \in Adapters,
           NEW final \in BOOLEAN, ProcessAdapterStatus(c, r, a, final)
    PROVE  Lifecycle!Next \/ UNCHANGED phase
<1>1. CASE phase' = [phase EXCEPT ![r] = "gone"] /\ phase[r] = "finalizing" /\ ~HasChildren(c, r)
  <2>1. ASSUME NEW d \in Resources, Present(d), Owner[d] = r PROVE FALSE
    <3>1. Sees(c, d)
      BY <2>1, SeesChildren DEF TreeInv, ProcessAdapterStatus
    <3> QED
      BY <1>1, <2>1, <3>1 DEF HasChildren, Children
  <2>2. phase' = [x \in Resources |-> IF x \in {r} THEN "gone" ELSE phase[x]]
    BY <1>1 DEF TreeInv, RowsInv, TypeOK
  <2>3. Lifecycle!Remove({r})
    BY <1>1, <2>1, <2>2 DEF Lifecycle!Remove, Lifecycle!InTable, Present
  <2> QED
    BY <2>3 DEF Lifecycle!Next
<1>2. CASE UNCHANGED phase
  BY <1>2
<1> QED
  BY <1>1, <1>2 DEF ProcessAdapterStatus, CanHardDelete

(* A force delete removes everything below the resource. *)
LEMMA ForceDeleteRemoves ==
    ASSUME TreeInv, NEW c \in Callers, NEW r \in Resources, ForceDelete(c, r)
    PROVE  Lifecycle!Next
<1>1. PICK S \in SUBSET Resources : forceDeleteTx(c, r, S)
  BY DEF ForceDelete
<1>2. \A x \in S : Present(x) /\ Sees(c, x)
  BY <1>1 DEF forceDeleteTx, IsSubtree, ForceDelete, Present
<1>3. ASSUME NEW d \in Resources, Present(d), Owner[d] \in S PROVE d \in S
  <2>1. Sees(c, d)
    BY <1>2, <1>3, SeesChildren DEF TreeInv
  <2> QED
    BY <1>1, <1>3, <2>1 DEF forceDeleteTx, IsSubtree, Children
<1>4. r \in S /\ phase[r] = "finalizing"
  BY <1>1 DEF forceDeleteTx, IsSubtree, ForceDelete
<1>5. Lifecycle!Remove(S)
  BY <1>1, <1>2, <1>3, <1>4 DEF Lifecycle!Remove, Lifecycle!InTable, Present, forceDeleteTx
<1> QED
  BY <1>5 DEF Lifecycle!Next

(* A create is born under a living parent; a patch changes no phase. *)
LEMMA CommitAppears ==
    ASSUME RowsInv, NEW s \in Resources, Commit(s)
    PROVE  Lifecycle!Next \/ UNCHANGED phase
<1>1. tx[s].op \in {"create", "patch"}
  BY DEF RowsInv, TypeOK, Commit
<1>2. CASE tx[s].op = "create"
  <2>1. Lifecycle!Appear(s)
    BY <1>2 DEF Lifecycle!Appear, RowsInv, PendingRows, Commit
  <2> QED
    BY <2>1 DEF Lifecycle!Next
<1>3. CASE tx[s].op = "patch"
  BY <1>3 DEF RowsInv, TypeOK, PendingRows, Commit
<1> QED
  BY <1>1, <1>2, <1>3

(* Every step of the tree is a step of the abstract life cycle, or none. *)
LEMMA LifecycleStep ==
    ASSUME TreeInv, [Next]_vars
    PROVE  [Lifecycle!Next]_phase
<1>1. ASSUME NEW c \in Callers, NEW s \in Resources, NEW to \in SUBSET Targets[s],
             BeginCreate(c, s, to) \/ BeginPatch(c, s, to)
      PROVE  UNCHANGED phase
  BY <1>1 DEF BeginCreate, BeginPatch
<1>2. ASSUME NEW s \in Resources, Rollback(s) PROVE UNCHANGED phase
  BY <1>2 DEF Rollback
<1>3. CASE UNCHANGED vars
  BY <1>3 DEF vars
<1> QED
  BY <1>1, <1>2, <1>3, DeleteRetires, ReportRemoves, ForceDeleteRemoves, CommitAppears
     DEF Next, NotFound, TreeInv

(* The abstract life cycle keeps owners in place and nothing alive under what *)
(* is being deleted, whatever implements it.                                  *)
LEMMA LifecycleKeepsTree ==
    ASSUME TypeOK, NoOrphans, NothingAliveUnderFinalizing, [Lifecycle!Next]_phase
    PROVE  NoOrphans' /\ NothingAliveUnderFinalizing'
<1> USE TreeAssumption DEF TypeOK, NoOrphans, NothingAliveUnderFinalizing, Present
<1>1. ASSUME NEW r \in Resources, Lifecycle!Appear(r)
      PROVE  NoOrphans' /\ NothingAliveUnderFinalizing'
  BY <1>1 DEF Lifecycle!Appear
<1>2. ASSUME NEW S \in SUBSET Resources, Lifecycle!Remove(S)
      PROVE  NoOrphans' /\ NothingAliveUnderFinalizing'
  BY <1>2 DEF Lifecycle!Remove, Lifecycle!InTable
<1>3. ASSUME NEW S \in SUBSET Resources, NEW Soft \in SUBSET S, Lifecycle!Retire(S, Soft)
      PROVE  NoOrphans' /\ NothingAliveUnderFinalizing'
  BY <1>3, ZenonT(60) DEF Lifecycle!Retire, Lifecycle!InTable
<1>4. CASE UNCHANGED phase
  BY <1>4
<1> QED
  BY <1>1, <1>2, <1>3, <1>4 DEF Lifecycle!Next

-----------------------------------------------------------------------------
(* Tenants *)

(* A deletion or a report changes nobody's tenancy and brings no row back. *)
LEMMA TenancyKept ==
    ASSUME OwnedByWriters, PendingTenancy, TenantsApart, tx' = tx, tenancy' = tenancy,
           refs' \subseteq refs,
           \A x \in Resources : /\ Present(x)' => Present(x)
                                /\ phase[x] # "absent" => phase'[x] # "absent",
           TypeOK
    PROVE  OwnedByWriters' /\ PendingTenancy' /\ TenantsApart'
<1>1. OwnedByWriters'
  BY DEF OwnedByWriters
<1>2. PendingTenancy'
  BY DEF PendingTenancy, TypeOK
<1>3. TenantsApart'
  BY DEF TenantsApart
<1> QED
  BY <1>1, <1>2, <1>3

(* With tenants of the same grain, what a writer sees is its own. *)
LEMMA SeenIsOwn ==
    ASSUME SameGrain, OwnedByWriters, NEW c \in Callers, MayWrite(c),
           NEW x \in Resources, Present(x), Sees(c, x)
    PROVE  tenancy[x] = Scope[c]
<1>1. tenancy[x] \in WriterScopes /\ Scope[c] \in WriterScopes
  BY DEF OwnedByWriters, MayWrite, WriterScopes
<1> QED
  BY <1>1 DEF SameGrain, Sees

(* The first step of a create or a patch read only what is the writer's. *)
LEMMA BeginTenancy ==
    ASSUME SameGrain, TreeInv, NEW c \in Callers, NEW s \in Resources,
           NEW to \in SUBSET Targets[s], BeginCreate(c, s, to) \/ BeginPatch(c, s, to)
    PROVE  OwnedByWriters' /\ PendingTenancy' /\ TenantsApart'
<1> USE DEF TreeInv
<1>1. phase' = phase /\ refs' = refs /\ tenancy' = tenancy
  BY DEF BeginCreate, BeginPatch
<1>2. OwnedByWriters' /\ TenantsApart'
  BY <1>1 DEF OwnedByWriters, TenantsApart, Present
<1>3. MayWrite(c) /\ Scope[c] \in WriterScopes
  BY DEF BeginCreate, BeginPatch, MayWrite, WriterScopes
<1>4. \A t \in to : t \in Resources /\ phase[t] = "active" /\ Sees(c, t)
  BY KindAssumption DEF BeginCreate, BeginPatch, validateReferences
<1>5. \A t \in to : phase[t] # "absent" /\ tenancy[t] = Scope[c]
  BY <1>3, <1>4, SeenIsOwn DEF Present
<1>6. /\ tx'[s].own = Scope[c] /\ tx'[s].to = to
      /\ tx'[s].op = "patch" => tenancy[s] = Scope[c]
      /\ tx'[s].op = "create" /\ Owner[s] # NoOwner => tenancy[Owner[s]] = Scope[c]
      /\ \A q \in Resources \ {s} : tx'[q] = tx[q]
  <2>1. CASE BeginCreate(c, s, to)
    <3>1. Owner[s] # NoOwner => tenancy[Owner[s]] = Scope[c]
      BY <1>3, <2>1, TreeAssumption, SeenIsOwn DEF BeginCreate, ParentFound, Present
    <3> QED
      BY <2>1, <3>1 DEF BeginCreate, RowsInv, TypeOK
  <2>2. CASE BeginPatch(c, s, to)
    <3>1. tenancy[s] = Scope[c]
      BY <1>3, <2>2, SeenIsOwn DEF BeginPatch, Present
    <3> QED
      BY <2>2, <3>1 DEF BeginPatch, RowsInv, TypeOK
  <2> QED
    BY <2>1, <2>2
<1>7. PendingTenancy'
  <2> SUFFICES ASSUME NEW q \in Resources, tx'[q].op # "none"
               PROVE  /\ tx'[q].own \in WriterScopes
                      /\ tx'[q].op = "patch" => tenancy[q] = tx'[q].own
                      /\ tx'[q].op = "create" /\ Owner[q] # NoOwner =>
                            tenancy[Owner[q]] = tx'[q].own
                      /\ \A t \in tx'[q].to : phase[t] # "absent" /\ tenancy[t] = tx'[q].own
    BY <1>1 DEF PendingTenancy
  <2>1. CASE q = s
    BY <1>3, <1>5, <1>6, <2>1
  <2>2. CASE q # s
    BY <1>6, <2>2 DEF PendingTenancy
  <2> QED
    BY <2>1, <2>2
<1> QED
  BY <1>2, <1>7

(* The second step stores the writer's tenancy where nothing points at the    *)
(* row yet.                                                                   *)
LEMMA CommitTenancy ==
    ASSUME TreeInv, NEW s \in Resources, Commit(s), NoOrphans'
    PROVE  OwnedByWriters' /\ PendingTenancy' /\ TenantsApart'
<1> USE DEF TreeInv, RowsInv
<1>1. /\ phase' = [phase EXCEPT ![s] = "active"]
      /\ refs' = (refs \ RefsOf(s)) \cup ({s} \X tx[s].to)
      /\ tenancy' = [tenancy EXCEPT ![s] = tx[s].own]
      /\ tx' = [tx EXCEPT ![s] = NoTx]
      /\ tx[s].op \in {"create", "patch"}
  BY DEF Commit, TypeOK
<1>2. \A x \in Resources : phase[x] # "absent" => tenancy'[x] = tenancy[x] /\ phase'[x] # "absent"
  BY <1>1 DEF TypeOK, PendingRows, PendingTenancy
<1>3. tenancy'[s] = tx[s].own /\ tx[s].own \in WriterScopes /\ phase'[s] = "active"
  BY <1>1 DEF TypeOK, PendingTenancy
<1>4. \A x \in Resources \ {s} : phase'[x] = phase[x] /\ tx'[x] = tx[x] /\ tenancy'[x] = tenancy[x]
  BY <1>1 DEF TypeOK
<1>5. OwnedByWriters'
  BY <1>3, <1>4 DEF OwnedByWriters, Present
<1>6. PendingTenancy'
  <2> SUFFICES ASSUME NEW q \in Resources, tx'[q].op # "none"
               PROVE  /\ tx'[q].own \in WriterScopes
                      /\ tx'[q].op = "patch" => tenancy'[q] = tx'[q].own
                      /\ tx'[q].op = "create" /\ Owner[q] # NoOwner =>
                            tenancy'[Owner[q]] = tx'[q].own
                      /\ \A t \in tx'[q].to : phase'[t] # "absent" /\ tenancy'[t] = tx'[q].own
    BY DEF PendingTenancy
  <2>1. q # s /\ tx'[q] = tx[q]
    BY <1>1, <1>4 DEF TypeOK, NoTx
  <2>2. tx[q].op = "create" /\ Owner[q] # NoOwner =>
           Owner[q] \in Resources /\ phase[Owner[q]] = "active"
    BY TreeAssumption DEF PendingRows
  <2>3. tx[q].to \subseteq Resources
    BY DEF TypeOK
  <2> QED
    BY <1>2, <1>4, <2>1, <2>2, <2>3 DEF PendingTenancy
<1>7. ASSUME NEW x \in Resources, Present(x)', Owner[x] # NoOwner
      PROVE  tenancy'[x] = tenancy'[Owner[x]]
  <2>1. Owner[x] \in Resources
    BY <1>7, TreeAssumption
  <2>2. CASE x = s /\ tx[s].op = "create"
    <3>1. phase[Owner[s]] = "active" /\ tenancy[Owner[s]] = tx[s].own
      BY <1>7, <2>2 DEF PendingRows, PendingTenancy
    <3> QED
      BY <1>2, <1>3, <2>1, <2>2, <3>1
  <2>3. CASE Present(x)
    <3>1. Present(Owner[x]) /\ tenancy[x] = tenancy[Owner[x]]
      BY <1>7, <2>3 DEF NoOrphans, TenantsApart
    <3> QED
      BY <1>2, <2>1, <2>3, <3>1 DEF Present
  <2> QED
    BY <1>1, <1>4, <1>7, <2>2, <2>3 DEF Present, PendingRows
<1>8. ASSUME NEW e \in refs' PROVE tenancy'[e[1]] = tenancy'[e[2]]
  <2>1. CASE e \in {s} \X tx[s].to
    <3>1. e[1] = s /\ e[2] \in Resources
      BY <2>1 DEF TypeOK
    <3>2. phase[e[2]] # "absent" /\ tenancy[e[2]] = tx[s].own
      BY <1>1, <2>1 DEF PendingTenancy
    <3> QED
      BY <1>2, <1>3, <3>1, <3>2
  <2>2. CASE e \in refs
    <3>1. e[1] \in Resources /\ e[2] \in Resources
      BY <2>2 DEF TypeOK
    <3>2. phase[e[1]] # "absent" /\ phase[e[2]] # "absent" /\ tenancy[e[1]] = tenancy[e[2]]
      BY <2>2 DEF ReferencesIntact, Present, TenantsApart
    <3> QED
      BY <1>2, <3>1, <3>2
  <2> QED
    BY <1>1, <1>8, <2>1, <2>2
<1> QED
  BY <1>5, <1>6, <1>7, <1>8 DEF TenantsApart

(* A transaction that fails leaves every tenancy as it was. *)
LEMMA RollbackTenancy ==
    ASSUME TreeInv, NEW s \in Resources, Rollback(s)
    PROVE  OwnedByWriters' /\ PendingTenancy' /\ TenantsApart'
<1>1. OwnedByWriters' /\ TenantsApart'
  BY DEF TreeInv, Rollback, OwnedByWriters, TenantsApart, Present
<1>2. PendingTenancy'
  BY DEF TreeInv, RowsInv, TypeOK, Rollback, PendingTenancy, NoTx
<1> QED
  BY <1>1, <1>2

(* Every step keeps tenants apart. *)
LEMMA TenancyStep ==
    ASSUME SameGrain, TreeInv, [Next]_vars, NoOrphans'
    PROVE  OwnedByWriters' /\ PendingTenancy' /\ TenantsApart'
<1> USE DEF TreeInv, RowsInv
<1>1. ASSUME NEW c \in Callers, NEW r \in Resources, Delete(c, r)
      PROVE  OwnedByWriters' /\ PendingTenancy' /\ TenantsApart'
  <2>1. \E S \in SUBSET Resources : \E Soft \in SUBSET S :
           (\A x \in S : Present(x)) /\ deleteResourceTree(c, r, S, Soft)
    BY <1>1 DEF Delete, deleteResourceTree, IsCascade
  <2>2. \A x \in Resources : /\ Present(x)' => Present(x)
                             /\ phase[x] # "absent" => phase'[x] # "absent"
    BY <2>1 DEF deleteResourceTree, Present
  <2>3. refs' \subseteq refs
    BY <2>1 DEF deleteResourceTree
  <2> QED
    BY <1>1, <2>2, <2>3, TenancyKept DEF Delete
<1>2. ASSUME NEW c \in Callers, NEW r \in Resources, ForceDelete(c, r)
      PROVE  OwnedByWriters' /\ PendingTenancy' /\ TenantsApart'
  <2>1. \A x \in Resources : /\ Present(x)' => Present(x)
                             /\ phase[x] # "absent" => phase'[x] # "absent"
    BY <1>2 DEF ForceDelete, forceDeleteTx, Present
  <2>2. refs' \subseteq refs
    BY <1>2 DEF ForceDelete, forceDeleteTx
  <2> QED
    BY <1>2, <2>1, <2>2, TenancyKept DEF ForceDelete
<1>3. ASSUME NEW c \in Callers, NEW r \in Resources, NEW a \in Adapters, NEW final \in BOOLEAN,
             ProcessAdapterStatus(c, r, a, final)
      PROVE  OwnedByWriters' /\ PendingTenancy' /\ TenantsApart'
  <2>1. \A x \in Resources : /\ Present(x)' => Present(x)
                             /\ phase[x] # "absent" => phase'[x] # "absent"
    BY <1>3 DEF ProcessAdapterStatus, TypeOK, Present
  <2>2. refs' \subseteq refs
    BY <1>3 DEF ProcessAdapterStatus
  <2> QED
    BY <1>3, <2>1, <2>2, TenancyKept DEF ProcessAdapterStatus
<1>4. CASE UNCHANGED vars
  BY <1>4 DEF vars, OwnedByWriters, PendingTenancy, TenantsApart, Present
<1> QED
  BY <1>1, <1>2, <1>3, <1>4, BeginTenancy, CommitTenancy, RollbackTenancy DEF Next, NotFound

-----------------------------------------------------------------------------
(* The tree *)

(* Every step keeps the tree in order. *)
LEMMA TreeStep ==
    ASSUME SameGrain, TreeInv, [Next]_vars
    PROVE  TreeInv'
<1>1. RowsInv'
  BY RowsStep DEF TreeInv
<1>2. [Lifecycle!Next]_phase
  BY LifecycleStep
<1>3. NoOrphans' /\ NothingAliveUnderFinalizing'
  BY <1>2, LifecycleKeepsTree DEF TreeInv, RowsInv
<1>4. OwnedByWriters' /\ PendingTenancy' /\ TenantsApart'
  BY <1>3, TenancyStep
<1> QED
  BY <1>1, <1>3, <1>4 DEF TreeInv

(* No rows, no tree. *)
LEMMA TreeInit ==
    ASSUME Init PROVE TreeInv
<1>1. OwnedByWriters /\ PendingTenancy
  BY DEF Init, OwnedByWriters, PendingTenancy, Present, NoTx
<1>2. NoOrphans /\ NothingAliveUnderFinalizing /\ TenantsApart
  BY DEF Init, NoOrphans, NothingAliveUnderFinalizing, TenantsApart, Present
<1> QED
  BY <1>1, <1>2, RowsInit DEF TreeInv

(* The inductive invariant on ownership and tenancy. *)
THEOREM TreeInvariant ==
    ASSUME SameGrain PROVE Spec => []TreeInv
<1>1. Init => TreeInv
  BY TreeInit
<1>2. TreeInv /\ [Next]_vars => TreeInv'
  BY TreeStep
<1> QED
  BY <1>1, <1>2, PTL DEF Spec

(* Cascades, restrictions, adapters' finalization and force deletes, of any   *)
(* callers and in any order, never remove a resource from above another.      *)
THEOREM NeverOrphans ==
    ASSUME SameGrain PROVE Spec => []NoOrphans
<1>1. TreeInv => NoOrphans
  BY DEF TreeInv
<1> QED
  BY <1>1, TreeInvariant, PTL

(* Nothing is created under, or survives, a resource marked for deletion.     *)
THEOREM NothingEverAliveUnderFinalizing ==
    ASSUME SameGrain PROVE Spec => []NothingAliveUnderFinalizing
<1>1. TreeInv => NothingAliveUnderFinalizing
  BY DEF TreeInv
<1> QED
  BY <1>1, TreeInvariant, PTL

(* Ownership and references never join two tenants' resources.                *)
THEOREM TenantsAlwaysApart ==
    ASSUME SameGrain PROVE Spec => []TenantsApart
<1>1. TreeInv => TenantsApart
  BY DEF TreeInv
<1> QED
  BY <1>1, TreeInvariant, PTL

(* The tree implements the abstract life cycle.                               *)
THEOREM Refinement ==
    ASSUME SameGrain PROVE Spec => ImplementsLifecycle
<1>1. Init => Lifecycle!Init
  BY DEF Init, Lifecycle!Init
<1>2. TreeInv /\ [Next]_vars => [Lifecycle!Next]_phase
  BY LifecycleStep
<1> QED
  BY <1>1, <1>2, TreeInvariant, PTL DEF Spec, ImplementsLifecycle, Lifecycle!Spec

-----------------------------------------------------------------------------
(* Adapters finish first *)

(* What a force delete takes is below the resource it was asked for, and was  *)
(* marked with it.                                                            *)
LEMMA ForceDeleteTakes ==
    ASSUME TreeInv, NEW c \in Callers, NEW r \in Resources, phase[r] = "finalizing",
           NEW S \in SUBSET Resources, IsSubtree(c, r, S), NEW x \in S
    PROVE  phase[x] = "finalizing" /\ r \in {x} \cup Ancestors[x]
<1>1. \A y \in S \ {r} : Present(y) /\ Owner[y] \in S /\ Owner[y] \in Resources /\ Owner[y] # NoOwner
  BY TreeAssumption DEF IsSubtree
<1>2. phase[x] = "finalizing"
  <2> DEFINE Alive == {y \in S : phase[y] = "active"}
  <2>1. ASSUME Alive # {} PROVE FALSE
    <3>1. PICK y \in Alive : Owner[y] \notin Alive
      BY <2>1, TreeAssumption
    <3>2. y # r /\ Owner[y] \in S
      BY <1>1, <3>1
    <3>3. phase[Owner[y]] = "active"
      BY <1>1, <3>1, <3>2 DEF TreeInv, NothingAliveUnderFinalizing
    <3> QED
      BY <3>1, <3>2, <3>3
  <2> QED
    BY <1>1, <2>1 DEF Present
<1>3. x = r \/ r \in Ancestors[x]
  <2> DEFINE Apart == {y \in S \ {r} : r \notin Ancestors[y]}
  <2>1. ASSUME Apart # {} PROVE FALSE
    <3>1. PICK y \in Apart : Owner[y] \notin Apart
      BY <2>1, TreeAssumption
    <3>2. Owner[y] = r \/ r \in Ancestors[Owner[y]]
      BY <1>1, <3>1
    <3>3. ASSUME NEW T \in SUBSET Resources, HoldsOwners(T, y) PROVE r \in T
      <4>1. Owner[y] \in T
        BY <1>1, <3>1, <3>3 DEF HoldsOwners
      <4>2. HoldsOwners(T, Owner[y])
        BY <3>3, <4>1 DEF HoldsOwners
      <4> QED
        BY <1>1, <3>1, <3>2, <4>1, <4>2 DEF Ancestors
    <3>4. r \in Ancestors[y]
      BY <3>1, <3>3 DEF Ancestors
    <3> QED
      BY <3>1, <3>4
  <2> QED
    BY <2>1
<1> QED
  BY <1>2, <1>3

(* One step that removes a resource whose kind has required adapters. *)
LEMMA RemovalStep ==
    ASSUME TreeInv, [Next]_vars, NEW r \in Resources,
           Required[r] # {}, phase[r] # "gone", phase'[r] = "gone"
    PROVE  /\ phase[r] = "finalizing"
           /\ \/ Required[r] \subseteq fin'[r]
              \/ \E c \in Callers, x \in {r} \cup Ancestors[r] : ForceDelete(c, x)
<1> DEFINE Goal == /\ phase[r] = "finalizing"
                   /\ \/ Required[r] \subseteq fin'[r]
                      \/ \E c \in Callers, x \in {r} \cup Ancestors[r] : ForceDelete(c, x)
<1> USE DEF TreeInv, RowsInv
<1>1. ASSUME NEW c \in Callers, NEW s \in Resources, NEW to \in SUBSET Targets[s],
             BeginCreate(c, s, to) \/ BeginPatch(c, s, to)
      PROVE  FALSE
  BY <1>1 DEF BeginCreate, BeginPatch
<1>2. ASSUME NEW c \in Callers, NEW s \in Resources, Delete(c, s) PROVE FALSE
  BY <1>2 DEF Delete, deleteResourceTree, shouldSoftDelete
<1>3. ASSUME NEW c \in Callers, NEW s \in Resources, ForceDelete(c, s) PROVE Goal
  <2>1. PICK S \in SUBSET Resources : forceDeleteTx(c, s, S)
    BY <1>3 DEF ForceDelete
  <2>2. r \in S
    BY <2>1 DEF forceDeleteTx
  <2>3. phase[r] = "finalizing" /\ s \in {r} \cup Ancestors[r]
    BY <1>3, <2>1, <2>2, ForceDeleteTakes DEF ForceDelete, forceDeleteTx
  <2> QED
    BY <1>3, <2>3
<1>4. ASSUME NEW c \in Callers, NEW s \in Resources, NEW a \in Adapters, NEW final \in BOOLEAN,
             ProcessAdapterStatus(c, s, a, final)
      PROVE  Goal
  <2>1. r = s /\ phase[r] = "finalizing" /\ Required[r] \subseteq fin'[r]
    BY <1>4 DEF ProcessAdapterStatus, CanHardDelete, TypeOK
  <2> QED
    BY <2>1
<1>5. ASSUME NEW s \in Resources, Commit(s) \/ Rollback(s) PROVE FALSE
  BY <1>5 DEF Commit, Rollback, TypeOK
<1>6. CASE UNCHANGED vars
  BY <1>6 DEF vars
<1> QED
  BY <1>1, <1>2, <1>3, <1>4, <1>5, <1>6 DEF Next, NotFound

(* No cascade, repeated DELETE or sibling's report removes a resource before  *)
(* its own required adapters have finished: only a force delete of it or of   *)
(* one above it does, and then out of the Finalizing phase.                   *)
THEOREM AdaptersAlwaysFinishFirst ==
    ASSUME SameGrain PROVE Spec => AdaptersFinishFirst
<1>1. TreeInv /\ [Next]_vars =>
        [\A r \in Resources :
           Required[r] # {} /\ phase[r] # "gone" /\ phase'[r] = "gone" =>
             /\ phase[r] = "finalizing"
             /\ \/ Required[r] \subseteq fin'[r]
                \/ \E c \in Callers, x \in {r} \cup Ancestors[r] : ForceDelete(c, x)]_vars
  BY RemovalStep
<1> QED
  BY <1>1, TreeInvariant, PTL DEF Spec, AdaptersFinishFirst
=============================================================================

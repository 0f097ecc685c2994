----------------------------- MODULE ResourceTree -----------------------------
(***************************************************************************)
(* Many resources: ownership, references between them, and the deletion    *)
(* policies (pkg/services/resource.go over pkg/dao/resource.go).           *)
(*                                                                         *)
(* Deletions and adapter reports lock every row they depend on before they *)
(* decide and are one atomic action each.  Create and Patch are not: they  *)
(* lock the parent's (or their own) row, then read the targets of their    *)
(* references without a lock, and write later.  Each is two steps here,    *)
(* with any other transaction in between; tx holds what is pending.        *)
(*                                                                         *)
(* Every read is scoped to the caller's tenant (tenancy @> the caller's    *)
(* dimensions): what a caller does not see is not locked, not cascaded to  *)
(* and does not block.  System callers see everything and only report.     *)
(*                                                                         *)
(* Conditions, generations and times are those of ResourceStatus; of the   *)
(* reports only Finalized at the deletion generation is kept.  Each kind   *)
(* has at most one reference type here.                                    *)
(***************************************************************************)
EXTENDS Integers, FiniteSets

CONSTANTS
    Resources,  \* ids, totally ordered: a set of integers
    NoOwner,    \* the owner of a root resource
    Owner,      \* Owner[r]: r's owner_id
    Kind,       \* Kind[r]: r's kind
    Restricted, \* kinds whose OnParentDelete is restrict; the others cascade
    Adapters,   \* adapter names that may report, registered or not
    Required,   \* Required[r]: the required adapters of r's kind
    Targets,    \* Targets[r]: resources of the kind r's references may name
    MinRefs,    \* MinRefs[r], MaxRefs[r]: bounds of r's reference type;
    MaxRefs,    \*   MaxRefs[r] = 0 is "no maximum"
    Callers,    \* who sends requests
    Systems,    \* the system callers among them (Sentinel, adapters)
    Scope       \* Scope[c]: the tenancy pairs a caller resolves to; {} is unscoped

ASSUME TreeAssumption ==
    /\ Resources \subseteq Int
    /\ NoOwner \notin Resources
    /\ IsFiniteSet(Resources)
    /\ Owner \in [Resources -> Resources \cup {NoOwner}]
    \* no circles: an owner exists before what it owns, and owner_id never changes
    /\ \A S \in (SUBSET Resources) \ {{}} : \E r \in S : Owner[r] \notin S

ASSUME KindAssumption ==
    /\ Required \in [Resources -> SUBSET Adapters]
    /\ Targets \in [Resources -> SUBSET Resources]
    /\ MinRefs \in [Resources -> Nat]
    /\ MaxRefs \in [Resources -> Nat]

\* resolveDimensions gives a tenant at least one pair; the absence of a tenant
\* in the context (tenancy disabled) is the only other unscoped case.
ASSUME CallerAssumption ==
    /\ Systems \subseteq Callers
    /\ DOMAIN Scope = Callers
    /\ \A c \in Systems : Scope[c] = {}

VARIABLES
    phase,   \* "absent", "active", "finalizing" (DeletedTime set) or "gone"
    fin,     \* required adapters whose report says Finalized=True at the deletion generation;
             \*   kept for a removed resource, as the reports its removal rested on
    refs,    \* rows of resource_references, <<source, target>>
    tenancy, \* tenancy[r]: the pairs stored on r's row
    tx       \* tx[r]: the write transaction for r that has validated and not yet written

vars == <<phase, fin, refs, tenancy, tx>>

Tenancies == {Scope[c] : c \in Callers} \cup {{}}

WriterScopes == {Scope[c] : c \in Callers \ Systems}

\* All dimensions are required ones, or tenancy is off: what one tenant may see
\* another may see only if they are the same tenant.
SameGrain == \A a, b \in WriterScopes : a \subseteq b => a = b

\* own: the tenancy a create will store.
NoTx == [op |-> "none", to |-> {}, own |-> {}]

TypeOK ==
    /\ phase \in [Resources -> {"absent", "active", "finalizing", "gone"}]
    /\ fin \in [Resources -> SUBSET Adapters]
    /\ refs \subseteq Resources \X Resources
    /\ tenancy \in [Resources -> Tenancies]
    /\ tx \in [Resources -> [op : {"none", "create", "patch"}, to : SUBSET Resources,
                             own : Tenancies]]

-----------------------------------------------------------------------------
Present(r)  == phase[r] \in {"active", "finalizing"}
Children(r) == {c \in Resources : Owner[c] = r}

\* ScopeDB, ScopeClause: tenancy @> the caller's pairs.
Sees(c, r) == Scope[c] \subseteq tenancy[r]

\* rejectSystemIdentityWrite
MayWrite(c) == c \notin Systems

\* S holds r's owner and, with any resource, that one's owner.
HoldsOwners(S, r) == \A x \in S \cup {r} : Owner[x] # NoOwner => Owner[x] \in S

\* The least such set: r's owner, its owner and so on.
Ancestors == [r \in Resources |->
                {a \in Resources : \A S \in SUBSET Resources : HoldsOwners(S, r) => a \in S}]

\* Mutants: soft-deleted children do not count; removed ones do.
HasActiveChildren(c, r) == \E x \in Children(r) : Sees(c, x) /\ phase[x] = "active"
EverHadChildren(c, r) == \E x \in Children(r) : Sees(c, x) /\ phase[x] # "absent"

\* hasChildren: active or soft-deleted, and visible to the caller.
HasChildren(c, r) == \E x \in Children(r) : Sees(c, x) /\ Present(x)

RefsOf(r)    == {e \in refs : e[1] = r}
RefsInto(S)  == {e \in refs : e[2] \in S}
RefsFrom(S)  == {e \in refs : e[1] \in S}

\* Mutants: a create does not lock its parent; a patch reads without FOR UPDATE.
LocksOwnRowOnly(s, r) == tx[s].op = "patch" /\ r = s
LocksParentOnly(s, r) == tx[s].op = "create" /\ r = Owner[s]

\* Row locks (FOR UPDATE) held by s's pending transaction: a patch locks its own
\* row, a create its parent's.
Locks(s, r) == \/ tx[s].op = "patch"  /\ r = s
               \/ tx[s].op = "create" /\ r = Owner[s]

Locked(r) == \E s \in Resources : Locks(s, r)

Init ==
    /\ phase = [r \in Resources |-> "absent"]
    /\ fin = [r \in Resources |-> {}]
    /\ refs = {}
    /\ tenancy = [r \in Resources |-> {}]
    /\ tx = [r \in Resources |-> NoTx]

-----------------------------------------------------------------------------
(* Create and Patch. *)

\* Mutant: targets are looked up whoever they belong to.
validateReferencesUnscoped(c, s, to) ==
    /\ to \subseteq Targets[s]
    /\ Cardinality(to) >= MinRefs[s]
    /\ MaxRefs[s] > 0 => Cardinality(to) <= MaxRefs[s]
    /\ \A t \in to : phase[t] = "active"

\* validateReferences: counts, and every target read as existing, visible and
\* not marked for deletion.  The read takes no lock on the target.
validateReferences(c, s, to) ==
    /\ to \subseteq Targets[s]
    /\ Cardinality(to) >= MinRefs[s]
    /\ MaxRefs[s] > 0 => Cardinality(to) <= MaxRefs[s]
    /\ \A t \in to : phase[t] = "active" /\ Sees(c, t)

\* The parent row is locked, visible and not marked for deletion.
ParentFound(c, s) ==
    Owner[s] # NoOwner =>
        phase[Owner[s]] = "active" /\ Sees(c, Owner[s]) /\ ~Locked(Owner[s])

\* The row will carry the caller's own tenancy, not its parent's.
BeginCreate(c, s, to) ==
    /\ MayWrite(c)
    /\ phase[s] = "absent"
    /\ tx[s] = NoTx
    /\ ParentFound(c, s)
    /\ validateReferences(c, s, to)
    /\ tx' = [tx EXCEPT ![s] = [op |-> "create", to |-> to, own |-> Scope[c]]]
    /\ UNCHANGED <<phase, fin, refs, tenancy>>

BeginPatch(c, s, to) ==
    /\ MayWrite(c)
    /\ phase[s] = "active"
    /\ Sees(c, s)
    /\ ~Locked(s)
    /\ validateReferences(c, s, to)
    /\ tx' = [tx EXCEPT ![s] = [op |-> "patch", to |-> to, own |-> tenancy[s]]]
    /\ UNCHANGED <<phase, fin, refs, tenancy>>

\* Mutant: the row's state is taken from the wrong field.
CommitMixedUp(s) ==
    /\ tx[s].op # "none"
    /\ phase' = [phase EXCEPT ![s] = tx[s].op]
    /\ refs' = (refs \ RefsOf(s)) \cup ({s} \X tx[s].to)
    /\ tenancy' = [tenancy EXCEPT ![s] = tx[s].own]
    /\ tx' = [tx EXCEPT ![s] = NoTx]
    /\ UNCHANGED fin

\* The reference rows are inserted and the transaction commits.  The foreign
\* key on target_id needs the target's row to be there, under a lock that
\* conflicts with FOR UPDATE; whether it is marked for deletion is not asked.
Commit(s) ==
    /\ tx[s].op # "none"
    /\ \A t \in tx[s].to : /\ Present(t)
                           /\ \A q \in Resources \ {s} : ~Locks(q, t)
    /\ phase' = [phase EXCEPT ![s] = "active"]
    /\ refs' = (refs \ RefsOf(s)) \cup ({s} \X tx[s].to)
    /\ tenancy' = [tenancy EXCEPT ![s] = tx[s].own]
    /\ tx' = [tx EXCEPT ![s] = NoTx]
    /\ UNCHANGED fin

\* A failed insert (the target is gone), a deadlock victim, a lost connection,
\* a request that timed out.
Rollback(s) ==
    /\ tx[s].op # "none"
    /\ tx' = [tx EXCEPT ![s] = NoTx]
    /\ UNCHANGED <<phase, fin, refs, tenancy>>

-----------------------------------------------------------------------------
(* Delete. *)

\* The resources deleteResourceTree(r) visits: r and, from a visited resource,
\* every visible child of a cascade kind.
IsCascade(c, r, S) ==
    /\ r \in S
    /\ \A x \in S \ {r} : /\ Present(x) /\ Sees(c, x)
                         /\ Owner[x] \in S /\ Kind[x] \notin Restricted
    /\ \A x \in S : \A d \in Children(x) :
          Present(d) /\ Sees(c, d) /\ Kind[d] \notin Restricted => d \in S

\* checkCanDelete
checkCanDelete(c, S) ==
    \A x \in S : \A d \in Children(x) :
        Kind[d] \in Restricted /\ Sees(c, d) => phase[d] # "active"

\* shouldSoftDelete, decided bottom-up: required adapters, or a visible
\* soft-deleted child.
shouldSoftDelete(c, S, Soft) ==
    \A x \in S : x \in Soft <=>
        \/ Required[x] # {}
        \/ \E d \in Children(x) :
              Sees(c, d) /\ (d \in Soft \/ (d \notin S /\ phase[d] = "finalizing"))

\* Children of one kind are visited by id; the kinds themselves come from a Go
\* map (ChildrenOf) and may come in any order, anew for each parent.
MixedParents == {p \in Resources : \E c, d \in Children(p) : Kind[c] # Kind[d]}
KindRank == LET Kinds == {Kind[r] : r \in Resources}
            IN  {f \in [Kinds -> 1 .. Cardinality(Kinds)] :
                    \A j, k \in Kinds : f[j] = f[k] => j = k}

\* s is handled before x: post-order.
Before(s, x, rank) ==
    \/ x \in Ancestors[s]
    \/ \E a \in {s} \cup Ancestors[s], b \in {x} \cup Ancestors[x] :
          /\ a # b /\ Owner[a] = Owner[b] /\ Owner[a] # NoOwner
          /\ IF Kind[a] = Kind[b] THEN a < b
                                  ELSE rank[Owner[a]][Kind[a]] < rank[Owner[a]][Kind[b]]

\* Mutant: references are not looked at.
UnreferencedUnchecked(c, S, Soft, rank) == TRUE

\* FindReferencers finds no active visible source when x's turn comes, and the
\* foreign key none at all when x's row goes.
Unreferenced(c, S, Soft, rank) ==
    \A e \in RefsInto(S) :
        (phase[e[1]] = "active" /\ Sees(c, e[1])) \/ e[2] \notin Soft =>
            e[1] \in S /\ Before(e[1], e[2], rank)

\* deleteResourceTree visits S, marks Soft and removes the rest; any check that
\* fails aborts the transaction.
deleteResourceTree(c, r, S, Soft) ==
    /\ IsCascade(c, r, S)
    /\ \A x \in S : ~Locked(x)
    /\ checkCanDelete(c, S)
    /\ shouldSoftDelete(c, S, Soft)
    /\ \E rank \in [MixedParents -> KindRank] : Unreferenced(c, S, Soft, rank)
    /\ phase' = [x \in Resources |->
                   IF x \in Soft THEN "finalizing" ELSE IF x \in S THEN "gone" ELSE phase[x]]
    /\ refs' = refs \ RefsFrom(S)

\* DELETE, of an active resource or again of one already marked: one
\* transaction for the whole cascade.
Delete(c, r) ==
    /\ MayWrite(c)
    /\ Present(r) /\ Sees(c, r)
    /\ \E S \in SUBSET Resources : \E Soft \in SUBSET S : deleteResourceTree(c, r, S, Soft)
    /\ UNCHANGED <<fin, tenancy, tx>>

-----------------------------------------------------------------------------
(* Adapter reports and force delete. *)

\* Mutant: the reporting adapter speaks for all of them.
CanHardDeleteOnFirst(c, r, final, f) ==
    /\ phase[r] = "finalizing"
    /\ final
    /\ ~HasChildren(c, r)

CanHardDelete(c, r, final, f) ==
    /\ phase[r] = "finalizing"
    /\ final
    /\ Required[r] \subseteq f
    /\ ~HasChildren(c, r)

\* An accepted report of adapter a; final: it says Finalized=True at the
\* current generation.  The foreign key of a reference to r fails the hard
\* delete, and the whole report with it.
ProcessAdapterStatus(c, r, a, final) ==
    LET f == IF phase[r] = "finalizing" /\ a \in Required[r]
             THEN IF final THEN fin[r] \cup {a} ELSE fin[r] \ {a}
             ELSE fin[r]
    IN  /\ Present(r) /\ Sees(c, r)
        /\ ~Locked(r)
        /\ IF CanHardDelete(c, r, final, f)
           THEN /\ RefsInto({r}) = {}
                /\ phase' = [phase EXCEPT ![r] = "gone"]
                /\ refs' = refs \ RefsFrom({r})
           ELSE UNCHANGED <<phase, refs>>
        /\ fin' = [fin EXCEPT ![r] = f]
        /\ UNCHANGED <<tenancy, tx>>

\* collectForceDeletionResources: r and every visible resource below it,
\* whatever its kind's policy.
IsSubtree(c, r, S) ==
    /\ r \in S
    /\ \A x \in S \ {r} : Present(x) /\ Sees(c, x) /\ Owner[x] \in S
    /\ \A x \in S : \A d \in Children(x) : Present(d) /\ Sees(c, d) => d \in S

\* Mutant: the minimum of surviving sources is not checked.
forceDeleteRegardless(c, r, S) ==
    /\ IsSubtree(c, r, S)
    /\ \A x \in S : ~Locked(x)
    /\ phase' = [x \in Resources |-> IF x \in S THEN "gone" ELSE phase[x]]
    /\ refs' = (refs \ RefsInto(S)) \ RefsFrom(S)

\* forceDeleteTx removes the subtree S with every reference into and out of it;
\* surviving sources, of any tenant, are locked and keep their minimum.
forceDeleteTx(c, r, S) ==
    LET Sources == {e[1] : e \in RefsInto(S)} \ S
    IN  /\ IsSubtree(c, r, S)
        /\ \A x \in S \cup Sources : ~Locked(x)
        /\ \A s \in Sources : Cardinality(RefsOf(s) \ RefsInto(S)) >= MinRefs[s]
        /\ phase' = [x \in Resources |-> IF x \in S THEN "gone" ELSE phase[x]]
        /\ refs' = (refs \ RefsInto(S)) \ RefsFrom(S)

ForceDelete(c, r) ==
    /\ MayWrite(c)
    /\ phase[r] = "finalizing" /\ Sees(c, r)
    /\ \E S \in SUBSET Resources : forceDeleteTx(c, r, S)
    /\ UNCHANGED <<fin, tenancy, tx>>

\* Any request for a resource that is gone is answered 404.
NotFound ==
    /\ \E r \in Resources : phase[r] = "gone"
    /\ UNCHANGED vars

-----------------------------------------------------------------------------
Next ==
    \/ \E c \in Callers, s \in Resources :
         \/ \E to \in SUBSET Targets[s] : BeginCreate(c, s, to) \/ BeginPatch(c, s, to)
         \/ Delete(c, s)
         \/ ForceDelete(c, s)
         \/ \E a \in Adapters, final \in BOOLEAN : ProcessAdapterStatus(c, s, a, final)
    \/ \E s \in Resources : Commit(s) \/ Rollback(s)
    \/ NotFound

Spec == Init /\ [][Next]_vars

\* Transactions end (the request timeout ends them if nothing else does), and
\* an adapter asked to finalize a resource keeps reporting that it has: Sentinel
\* asks again as long as the resource exists.  A retracted Finalized is not
\* retracted for ever.
Fairness ==
    /\ \A s \in Resources : WF_vars(Commit(s) \/ Rollback(s))
    /\ \A r \in Resources, a \in Adapters :
          WF_vars(\E c \in Callers : ProcessAdapterStatus(c, r, a, TRUE))
    /\ <>[][\A r \in Resources : phase'[r] = "finalizing" => fin[r] \subseteq fin'[r]]_vars

FairSpec == Spec /\ Fairness

-----------------------------------------------------------------------------
(* Properties *)

\* A resource in the table has its owner in the table: no deletion path
\* (cascade, finalization, force) removes a parent before its children.
NoOrphans ==
    \A r \in Resources : Present(r) /\ Owner[r] # NoOwner => Present(Owner[r])

\* Nothing is alive under a resource marked for deletion: cascade reaches every
\* child, restrict refuses, and no create slips in between.
NothingAliveUnderFinalizing ==
    \A r \in Resources :
        phase[r] = "active" /\ Owner[r] # NoOwner => phase[Owner[r]] = "active"

\* A reference belongs to a source that is not being deleted and names a
\* target whose row exists.
ReferencesIntact ==
    \A e \in refs : phase[e[1]] = "active" /\ Present(e[2])

\* Every active resource keeps at least the minimum, and at most the maximum,
\* of references its kind demands, whatever happens to their targets.
ReferenceCountsHold ==
    \A r \in Resources : phase[r] = "active" =>
        /\ Cardinality(RefsOf(r)) >= MinRefs[r]
        /\ MaxRefs[r] > 0 => Cardinality(RefsOf(r)) <= MaxRefs[r]

\* A resource whose kind has required adapters is removed only out of the
\* Finalizing phase, and only when every one of them has reported Finalized, the
\* last one in this very step, or by a force delete of it or of one above it: no
\* cascade, repeated DELETE or sibling's report takes a shortcut.
AdaptersFinishFirst ==
    [][\A r \in Resources :
        Required[r] # {} /\ phase[r] # "gone" /\ phase'[r] = "gone" =>
            /\ phase[r] = "finalizing"
            /\ \/ Required[r] \subseteq fin'[r]
               \/ \E c \in Callers, x \in {r} \cup Ancestors[r] : ForceDelete(c, x)]_vars

\* A marked resource is removed in the end.
DeletionCompletes ==
    \A r \in Resources : phase[r] = "finalizing" ~> phase[r] = "gone"

\* What validateReferences promises: no reference to a resource that is marked
\* for deletion.
NoReferenceToFinalizing == \A e \in refs : phase[e[2]] # "finalizing"

\* Callers that resolve to the same dimensions with different values never own
\* or reference across tenants: a child has its parent's tenancy, and a
\* reference joins resources of one tenant.  Otherwise a tenant's deletions
\* would meet rows of its own tree that it cannot see.
TenantsApart ==
    /\ \A r \in Resources :
          Present(r) /\ Owner[r] # NoOwner => tenancy[r] = tenancy[Owner[r]]
    /\ \A e \in refs : tenancy[e[1]] = tenancy[e[2]]

\* The tree keeps every promise of ResourceLifecycle: its transactions, the
\* cascade, the policies, the adapters' finalization and force delete only ever
\* take the steps Appear, Retire and Remove.
Lifecycle == INSTANCE ResourceLifecycle
               WITH Resources <- Resources, NoOwner <- NoOwner, Owner <- Owner, phase <- phase
ImplementsLifecycle == Lifecycle!Spec

-----------------------------------------------------------------------------
(* The inductive invariants: the properties, and what a pending transaction's *)
(* locks and its first step keep true until it ends.                          *)

\* The row a create will insert is not there and its parent is alive; the row
\* a patch has locked is alive; the new references are in number what the kind asks.
PendingRows ==
    \A s \in Resources :
        /\ tx[s].op = "create" => /\ phase[s] = "absent"
                                  /\ Owner[s] # NoOwner => phase[Owner[s]] = "active"
        /\ tx[s].op = "patch" => phase[s] = "active"
        /\ tx[s].op # "none" =>
              /\ Cardinality(tx[s].to) >= MinRefs[s]
              /\ MaxRefs[s] > 0 => Cardinality(tx[s].to) <= MaxRefs[s]

\* The row will be the writer's, as are its parent and the targets it read:
\* they may have gone since, but their tenancy has not changed.
PendingTenancy ==
    \A s \in Resources : tx[s].op # "none" =>
        /\ tx[s].own \in WriterScopes
        /\ tx[s].op = "patch" => tenancy[s] = tx[s].own
        /\ tx[s].op = "create" /\ Owner[s] # NoOwner => tenancy[Owner[s]] = tx[s].own
        /\ \A t \in tx[s].to : phase[t] # "absent" /\ tenancy[t] = tx[s].own

OwnedByWriters == \A r \in Resources : Present(r) => tenancy[r] \in WriterScopes

\* For every assignment of scopes.
RowsInv == TypeOK /\ PendingRows /\ ReferencesIntact /\ ReferenceCountsHold

\* For tenants of the same grain.
TreeInv ==
    /\ RowsInv
    /\ OwnedByWriters /\ PendingTenancy
    /\ NoOrphans /\ NothingAliveUnderFinalizing /\ TenantsApart
=============================================================================

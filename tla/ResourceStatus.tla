---------------------------- MODULE ResourceStatus ----------------------------
(***************************************************************************)
(* The life of one resource as the API sees it: creation, spec changes,    *)
(* adapter reports and the conditions aggregated from them, soft deletion  *)
(* and the hard delete that ends it (pkg/services/resource.go).            *)
(*                                                                         *)
(* Every mutation runs in one database transaction that locks the resource *)
(* row first (GetForUpdate), so each is one atomic action here.  Reports   *)
(* reach the API in any order and any number of times, with any generation *)
(* and any observation time: the report of an action is arbitrary.  The    *)
(* API replicas' wall clocks are not synchronised, so the time an update   *)
(* stamps on the row is arbitrary too.                                     *)
(***************************************************************************)
EXTENDS Aggregation

CONSTANTS
    HasMapper,  \* the kind has a CEL condition mapper
    MaxGen,     \* bound on the generations explored
    MaxTime     \* bound on the timestamps explored

ASSUME HasMapperAssumption == HasMapper \in BOOLEAN
ASSUME BoundsAssumption == MaxGen \in Nat /\ MaxTime \in Nat

VARIABLES
    phase,     \* "unborn", "active" (DeletedTime nil), "finalizing" or "gone"
    gen,       \* Resource.Generation
    updated,   \* Resource.UpdatedTime
    rows,      \* adapter_statuses rows of the resource
    conds,     \* resource_conditions rows of the resource
    children,  \* some resource, active or soft-deleted, has it as owner
    good       \* history: generations all required adapters reported True at once

vars == <<phase, gen, updated, rows, conds, children, good>>

Times == 1 .. MaxTime

TypeOK ==
    /\ phase \in {"unborn", "active", "finalizing", "gone"}
    /\ gen \in Nat
    /\ updated \in Nat
    /\ rows \in [Adapters -> Row]
    /\ conds \in Conds
    /\ children \in BOOLEAN
    /\ good \subseteq Nat

\* What a report in a PUT .../statuses body says.  "Missing": it lacks one of
\* the mandatory conditions Available, Applied, Health.
Reports == [gen : 1 .. MaxGen + 1, time : Times,
            avail : {"True", "False", "Unknown", "Missing"}, fin : BOOLEAN]

-----------------------------------------------------------------------------
Present  == phase \in {"active", "finalizing"}
Deleting == phase = "finalizing"

\* childrenRemainDuringDelete
ChildrenRemain(deleting, kids) == deleting /\ kids

\* recomputeAndSaveResourceConditions: aggregate, compare, write.
Recompute(r, g, refTime, deleting, kids) ==
    UpdateConditions(conds,
        AggregateResourceStatus(conds, r, g, refTime, deleting, ChildrenRemain(deleting, kids)))

\* Create and Patch aggregate only for kinds that have something to aggregate.
Aggregates == Required # {} \/ HasMapper

\* The history variable: required adapters agreeing on a generation, all True.
GoodGens(r, g) == IF Required # {} /\ AllTrueSameGen(r, g) THEN GensOf(r, Required) ELSE {}

Init ==
    /\ phase = "unborn"
    /\ gen = 0
    /\ updated = 0
    /\ rows = [a \in Adapters |-> NoRow]
    /\ conds = NoConds
    /\ children = FALSE
    /\ good = {}

Create ==
    /\ phase = "unborn"
    /\ phase' = "active"
    /\ gen' = 1
    /\ updated' \in Times
    /\ conds' = IF Aggregates THEN Recompute(rows, 1, updated', FALSE, FALSE) ELSE conds
    /\ UNCHANGED <<rows, children, good>>

\* Mutant: the generation moves and the conditions are not recomputed.
PatchWithoutRecompute ==
    /\ phase = "active"
    /\ gen < MaxGen
    /\ gen' = gen + 1
    /\ updated' \in Times
    /\ UNCHANGED <<phase, rows, conds, children, good>>

\* A PATCH that changes nothing commits without a write and is a stuttering
\* step, as is one refused because the resource is marked for deletion.
Patch ==
    /\ phase = "active"
    /\ gen < MaxGen
    /\ gen' = gen + 1
    /\ updated' \in Times
    /\ conds' = IF Aggregates THEN Recompute(rows, gen', updated', FALSE, children) ELSE conds
    /\ UNCHANGED <<phase, rows, children, good>>

-----------------------------------------------------------------------------
(* Deletion.  The cascade may remove the last child row; children that are   *)
(* soft-deleted in their turn, or were already, remain.                      *)

SoftDelete(g) ==
    /\ Required # {} \/ children'
    /\ phase' = "finalizing"
    /\ gen' = g
    /\ updated' \in Times
    /\ conds' = Recompute(rows, g, updated', TRUE, children')
    /\ UNCHANGED <<rows, good>>

\* The row goes at once; its conditions go with it, the adapter_statuses rows
\* have no foreign key and stay behind.
HardDelete ==
    /\ ~(Required # {} \/ children')
    /\ phase' = "gone"
    /\ conds' = NoConds
    /\ UNCHANGED <<gen, updated, rows, good>>

\* DELETE marks an active resource and bumps its generation; on one already
\* marked it only repeats the rest of the work.
Delete ==
    /\ Present
    /\ phase = "active" => gen < MaxGen
    /\ children' \in {children, FALSE}
    /\ \/ SoftDelete(IF phase = "active" THEN gen + 1 ELSE gen)
       \/ HardDelete

\* forceDeleteTx: only from the Finalizing state, whatever adapters say; the
\* whole subtree goes, with its adapter statuses.
ForceDelete ==
    /\ Deleting
    /\ phase' = "gone"
    /\ rows' = [a \in Adapters |-> NoRow]
    /\ conds' = NoConds
    /\ children' = FALSE
    /\ UNCHANGED <<gen, updated, good>>

-----------------------------------------------------------------------------
(* Adapter reports. *)

Newer(report, row) ==
    \/ report.gen > row.gen
    \/ report.gen = row.gen /\ report.time > row.time

\* Mutant: the mandatory conditions are not checked.
DiscardedUnlessIncomplete(report, row) ==
    \/ report.gen > gen
    \/ row.gen # 0 /\ report.gen < row.gen
    \/ row.gen # 0 /\ report.gen = row.gen /\ report.time < row.time
    \/ report.avail = "Unknown" /\ row.gen # 0

\* validateAndClassifyAdapterStatus, the rejected half: reports ahead of the
\* resource, behind the stored one, incomplete, or Unknown after a first report.
Discarded(report, row) ==
    \/ report.gen > gen
    \/ row.gen # 0 /\ report.gen < row.gen
    \/ row.gen # 0 /\ report.gen = row.gen /\ report.time < row.time
    \/ report.avail = "Missing"
    \/ report.avail = "Unknown" /\ row.gen # 0

\* Mutant: the update has no WHERE clause on generation and time.
UpsertUnguarded(row, report) == report

\* Upsert: an insert, or an update guarded by the strict order on
\* (generation, time); a repeated time leaves the stored row as it is.
Upsert(row, report) == IF row.gen = 0 \/ Newer(report, row) THEN report ELSE row

\* tryHardDeleteResource: the incoming report itself must carry Finalized=True.
CanHardDelete(report, r) ==
    /\ Deleting
    /\ report.fin
    /\ allAdaptersFinalized(r, gen)
    /\ ~ChildrenRemain(TRUE, children)

Triggers(report, row) ==
    \/ report.avail \in {"True", "False"}
    \/ HasMapper /\ row.gen = 0

ProcessAdapterStatus(a, report) ==
    LET r == [rows EXCEPT ![a] = Upsert(rows[a], report)]
    IN  /\ Present
        /\ ~Discarded(report, rows[a])
        /\ IF CanHardDelete(report, r)
           THEN /\ phase' = "gone"
                /\ rows' = [b \in Adapters |-> NoRow]
                /\ conds' = NoConds
                /\ UNCHANGED good
           ELSE /\ rows' = r
                /\ conds' = IF Triggers(report, rows[a])
                            THEN Recompute(r, gen, updated, Deleting, children)
                            ELSE conds
                /\ good' = good \cup GoodGens(r, gen)
                /\ UNCHANGED phase
        /\ UNCHANGED <<gen, updated, children>>

\* A report that is Discarded (one ahead of the resource always is), or a
\* request for a resource that is not there: the transaction ends without a write.
NoEffect ==
    /\ phase # "unborn"
    /\ UNCHANGED vars

-----------------------------------------------------------------------------
(* The rest of the tree, as far as this resource can see it.  Creating a     *)
(* child locks the parent row and is refused once the parent is marked.      *)

ChildCreated ==
    /\ phase = "active"
    /\ children' = TRUE
    /\ UNCHANGED <<phase, gen, updated, rows, conds, good>>

ChildrenGone ==
    /\ children
    /\ children' = FALSE
    /\ UNCHANGED <<phase, gen, updated, rows, conds, good>>

Next ==
    \/ Create
    \/ Patch
    \/ Delete
    \/ ForceDelete
    \/ \E a \in Adapters, report \in Reports : ProcessAdapterStatus(a, report)
    \/ NoEffect
    \/ ChildCreated
    \/ ChildrenGone

Spec == Init /\ [][Next]_vars

-----------------------------------------------------------------------------
(* Properties *)

\* The stored conditions are those a fresh aggregation of the stored reports
\* would write: no handler changes reports, generation or update time without
\* recomputing them, and recomputing is idempotent (the comparison that lets
\* saveAggregatedResourceConditions skip the write depends on it).  While the
\* resource is being deleted the child check may be out of date, nothing else.
\* (A kind with neither required adapters nor a mapper is not recomputed on PATCH.)
ConditionsUpToDate ==
    Present /\ Aggregates =>
        \E kids \in BOOLEAN : conds = Recompute(rows, gen, updated, Deleting, kids)

\* Reconciled=True is backed by a report of every required adapter at the
\* resource's current generation, and its last_updated_time is no later than
\* any of them: the condition is as fresh as its oldest evidence.
ReconciledBacked ==
    Present /\ conds.rec.status = "True" =>
        /\ conds.rec.gen = gen
        /\ \A a \in Required :
              /\ rows[a].gen = gen
              /\ IF Deleting THEN rows[a].fin ELSE rows[a].avail = "True"
              /\ conds.rec.updated <= rows[a].time

\* LastKnownReconciled=True names a generation that every required adapter
\* really reported True at the same time, that none of them has since reported
\* False, and that none of them is behind.
LastKnownReconciledBacked ==
    Present /\ conds.lkr.status = "True" =>
        /\ conds.lkr.gen \in good
        /\ \A a \in Required :
              /\ rows[a].gen >= conds.lkr.gen
              /\ rows[a].gen = conds.lkr.gen => rows[a].avail = "True"

\* The inductive invariant behind the three: no stored report is ahead of the
\* resource, the history covers the agreement the reports show now, and the
\* property of kinds without required adapters below.
ReportsNotAhead ==
    \A a \in Adapters : /\ rows[a].gen <= gen
                        /\ rows[a].gen = 0 => rows[a].avail = "Unknown"

AgreementRecorded ==
    Required # {} /\ AllTrueSameGen(rows, gen) => GensOf(rows, Required) \subseteq good

NothingBeforeCreate == phase = "unborn" => gen = 0 /\ conds = NoConds

\* A kind without required adapters never counts as reconciled, whatever other
\* adapters report: "all of no adapters" is not agreement.
NothingRequiredNothingReconciled ==
    Required = {} => conds.rec.status # "True" /\ conds.lkr.status # "True"

StatusInv ==
    /\ TypeOK
    /\ ReportsNotAhead
    /\ AgreementRecorded
    /\ NothingBeforeCreate
    /\ NothingRequiredNothingReconciled
    /\ ConditionsUpToDate
    /\ LastKnownReconciledBacked

\* What TransitionTimesHonest below rests on: a per-adapter condition exists only
\* while the adapter's stored report counts, so no rewrite drops its row.
AdapterConditionsReported ==
    \A a \in Adapters : conds.adp[a].status # "None" => a \in Usable(rows, gen)

\* A stored report is only ever replaced by one that is newer in the order
\* (observed generation, report time), and never by one that knows less: late
\* and repeated reports change nothing.
ReportsMoveForward ==
    [][Present /\ phase' # "gone" =>
        \A a \in Adapters : rows'[a] # rows[a] /\ rows[a].gen # 0 =>
            Newer(rows'[a], rows[a]) /\ rows'[a].avail # "Unknown"]_vars

\* Through aggregation and the DAO's rewrite of all condition rows, a condition
\* that exists keeps its creation time, and its last_transition_time moves only
\* when its status does.
KeepsItsTimes(old, new) ==
    old.status # "None" =>
        /\ new.status # "None"
        /\ new.created = old.created
        /\ new.status = old.status => new.transition = old.transition

TransitionTimesHonest ==
    [][Present /\ phase' # "gone" =>
        /\ KeepsItsTimes(conds.rec, conds'.rec)
        /\ KeepsItsTimes(conds.lkr, conds'.lkr)
        /\ \A a \in Adapters : KeepsItsTimes(conds.adp[a], conds'.adp[a])]_vars

\* LastKnownReconciled is lost only to new evidence: a report just stored that
\* says False at the tracked generation (computeLastKnownReconciledStatus).
\* Spec changes, deletion marks and failures at other generations never take it
\* away, not even when every required adapter fails at one newer generation,
\* where the operator guide has it turn False: LastKnownReconciledAsDocumented.
LastKnownReconciledSticky ==
    [][/\ Present /\ phase' # "gone"
       /\ conds.lkr.status = "True" /\ conds'.lkr.status # "True"
       => \E a \in Required : /\ rows'[a] # rows[a]
                              /\ rows'[a].gen = conds.lkr.gen
                              /\ rows'[a].avail = "False"]_vars

\* What docs/api-operator-guide.md:349-352 says of LastKnownReconciled: it is True
\* when all required adapters report Available=True for the same generation, or
\* stays True while their generations are mixed, and is False for "any other
\* combination of conditions".  The code keeps it True whenever no failure is at
\* the tracked generation, so also when all have moved on to one generation and
\* some or all of them fail there.
LastKnownReconciledAsDocumented ==
    Present /\ conds.lkr.status = "True" =>
        \/ \E a, b \in Required : rows[a].gen # rows[b].gen
        \/ \A a \in Required : rows[a].avail = "True"

\* What the comments of ProcessAdapterStatus and childrenRemainDuringDelete say
\* must not happen: a soft-deleted resource that is still there shows
\* Reconciled=True, so that nothing asks its adapters to report again.
FinalizingNotReconciled == ~(Deleting /\ conds.rec.status = "True")
=============================================================================

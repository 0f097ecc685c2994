------------------------------ MODULE Aggregation ------------------------------
(***************************************************************************)
(* The status aggregation of pkg/services/aggregation.go: the pure         *)
(* functions that turn the stored adapter reports of one resource, and the *)
(* conditions written last time, into the resource's new conditions.       *)
(*                                                                         *)
(* A stored report (a row of adapter_statuses) is a record                 *)
(*   gen   observed_generation (0: the adapter has no row)                 *)
(*   time  last_report_time                                                *)
(*   avail status of its Available condition                               *)
(*   fin   its Finalized condition is present and True                     *)
(*                                                                         *)
(* A resource condition is a record with the columns of                    *)
(* resource_conditions; message is a rendering of the others and is left   *)
(* out.  status = "None" stands for a condition type with no row.          *)
(***************************************************************************)
EXTENDS Integers, FiniteSetsExt

CONSTANTS
    Adapters,   \* every adapter name that may report, registered or not
    Required    \* EntityDescriptor.RequiredAdapters of the resource's kind

ASSUME RequiredAssumption == Required \subseteq Adapters

NoRow == [gen |-> 0, time |-> 0, avail |-> "Unknown", fin |-> FALSE]

NoCond == [status |-> "None", gen |-> 0, created |-> 0, updated |-> 0,
           transition |-> 0, reason |-> "None"]

NoConds == [rec |-> NoCond, lkr |-> NoCond, adp |-> [a \in Adapters |-> NoCond]]

Row == [gen : Nat, time : Nat, avail : {"True", "False", "Unknown"}, fin : BOOLEAN]

Reasons == {"None", "ReconciledAll", "ReconciledMissingAdapters",
            "ReconciledWaitingForChildren", "AllAdaptersReconciled",
            "AdaptersMissingReports", "AdapterReportedNotAvailable",
            "AdaptersNotAtSameGeneration", "AdapterReason"}

Cond == [status : {"None", "True", "False"}, gen : Nat, created : Nat,
         updated : Nat, transition : Nat, reason : Reasons]

Conds == [rec : Cond, lkr : Cond, adp : [Adapters -> Cond]]

-----------------------------------------------------------------------------
(* Snapshots: the required adapters whose report counts. *)

\* normalizeAdapterReportsForAggregation keeps the rows of required adapters
\* that are not ahead of the resource and carry a definite Available.
Usable(rows, g) ==
    {a \in Required : /\ rows[a].gen # 0
                      /\ rows[a].gen <= g
                      /\ rows[a].avail \in {"True", "False"}}

GensOf(rows, S)  == {rows[a].gen : a \in S}
TimesOf(rows, S) == {rows[a].time : a \in S}

\* The largest generation a required adapter has reported, 0 if none has.
MaxReportedGen(rows, g) == Max(GensOf(rows, Usable(rows, g)) \cup {0})

AtGen(rows, g, x) == {a \in Usable(rows, g) : rows[a].gen = x}

-----------------------------------------------------------------------------
(* Timestamps carried over from the previous condition. *)

Created(prev, refTime) == IF prev.status = "None" THEN refTime ELSE prev.created

\* computeGenericLastTransitionTime
GenericTransition(prev, status, updated) ==
    IF prev.status = status THEN prev.transition ELSE updated

-----------------------------------------------------------------------------
(* Reconciled *)

\* Mutant: a report of any generation counts.
ConditionMetAtAnyGeneration(rows, g, deleting) ==
    /\ Required # {}
    /\ \A a \in Required :
          /\ a \in Usable(rows, g)
          /\ IF deleting THEN rows[a].fin ELSE rows[a].avail = "True"

\* The loop of computeReconciled over the required adapters.
AllAdaptersConditionMet(rows, g, deleting) ==
    /\ Required # {}
    /\ \A a \in Required :
          /\ a \in AtGen(rows, g, g)
          /\ IF deleting THEN rows[a].fin ELSE rows[a].avail = "True"

ReconciledStatus(rows, g, deleting, children) ==
    IF AllAdaptersConditionMet(rows, g, deleting) /\ ~(deleting /\ children)
    THEN "True" ELSE "False"

ReconciledReason(rows, g, deleting, children) ==
    CASE ReconciledStatus(rows, g, deleting, children) = "True" -> "ReconciledAll"
      [] /\ ReconciledStatus(rows, g, deleting, children) # "True"
         /\ deleting /\ AllAdaptersConditionMet(rows, g, deleting)
                                          -> "ReconciledWaitingForChildren"
      [] OTHER -> "ReconciledMissingAdapters"

\* computeReconciledLastUpdatedTime: the oldest report at the current
\* generation, whatever it says; refTime while there is none.
ReconciledUpdated(rows, g, refTime) ==
    IF AtGen(rows, g, g) = {} THEN refTime ELSE Min(TimesOf(rows, AtGen(rows, g, g)))

\* computeReconciledLastTransitionTime: a generation bump that costs the
\* resource its True is dated by the resource's own update.
ReconciledTransition(prev, status, g, refTime, updated) ==
    IF prev.status = "True" /\ status = "False" /\ g > prev.gen
    THEN refTime
    ELSE GenericTransition(prev, status, updated)

computeReconciled(prev, rows, g, refTime, deleting, children) ==
    LET status  == ReconciledStatus(rows, g, deleting, children)
        updated == ReconciledUpdated(rows, g, refTime)
    IN  [status     |-> status,
         gen        |-> IF status = "True" THEN g ELSE MaxReportedGen(rows, g),
         created    |-> Created(prev, refTime),
         updated    |-> updated,
         transition |-> ReconciledTransition(prev, status, g, refTime, updated),
         reason     |-> ReconciledReason(rows, g, deleting, children)]

-----------------------------------------------------------------------------
(* LastKnownReconciled *)

HasMissingAdapter(rows, g) == Usable(rows, g) # Required

\* sameGenerationAllTrue
AllTrue(rows, g) ==
    \A a \in Required : a \in Usable(rows, g) /\ rows[a].avail = "True"

\* Required adapters that all report True do so at different generations.
Mixed(rows) == \E a, b \in Required : rows[a].gen # rows[b].gen

AllTrueSameGen(rows, g) == AllTrue(rows, g) /\ ~Mixed(rows)

\* A required adapter reports False at generation x.
FalseAt(rows, g, x) == \E a \in AtGen(rows, g, x) : rows[a].avail = "False"

\* Mutants: a failure at the tracked generation is ignored; nothing is sticky.
LKRStatusKeepsFailure(prev, rows, g) ==
    IF /\ Required # {}
       /\ ~HasMissingAdapter(rows, g)
       /\ AllTrueSameGen(rows, g) \/ prev.status = "True"
    THEN "True" ELSE "False"

LKRStatusNotSticky(prev, rows, g) ==
    IF Required # {} /\ AllTrueSameGen(rows, g) THEN "True" ELSE "False"

\* computeLastKnownReconciledStatus: True when established by reports that
\* agree on a generation; once True it is sticky until some adapter's failure
\* lands on the tracked generation.
LKRStatus(prev, rows, g) ==
    IF /\ Required # {}
       /\ ~HasMissingAdapter(rows, g)
       /\ \/ AllTrueSameGen(rows, g)
          \/ prev.status = "True" /\ ~FalseAt(rows, g, prev.gen)
    THEN "True" ELSE "False"

\* computeLastKnownReconciledObservedGeneration
LKRGen(prev, status, rows, g) ==
    CASE Required = {} -> 0
      [] Required # {} /\ status = "True" ->
            IF AllTrueSameGen(rows, g) THEN rows[CHOOSE a \in Required : TRUE].gen
                                       ELSE prev.gen
      [] OTHER -> IF Usable(rows, g) = {} THEN prev.gen ELSE MaxReportedGen(rows, g)

\* computeLastKnownReconciledLastUpdatedTime
LKRUpdated(prev, status, gen, rows, g, refTime) ==
    CASE Required = {} -> refTime
      [] Required # {} /\ AllTrueSameGen(rows, g) -> Min(TimesOf(rows, Required))
      [] /\ Required # {} /\ ~AllTrueSameGen(rows, g)
         /\ status = "False" /\ FalseAt(rows, g, gen) -> Min(TimesOf(rows, AtGen(rows, g, gen)))
      [] OTHER -> IF prev.status = "None" THEN refTime ELSE prev.updated

LKRReason(status, rows, g) ==
    CASE status = "True" -> "AllAdaptersReconciled"
      [] status # "True" /\ (Required = {} \/ HasMissingAdapter(rows, g))
            -> "AdaptersMissingReports"
      [] OTHER -> IF \E a \in Usable(rows, g) : rows[a].avail = "False"
                  THEN "AdapterReportedNotAvailable"
                  ELSE "AdaptersNotAtSameGeneration"

computeLastKnownReconciled(prev, rows, g, refTime) ==
    LET status  == LKRStatus(prev, rows, g)
        gen     == LKRGen(prev, status, rows, g)
        updated == LKRUpdated(prev, status, gen, rows, g, refTime)
    IN  [status     |-> status,
         gen        |-> gen,
         created    |-> Created(prev, refTime),
         updated    |-> updated,
         transition |-> GenericTransition(prev, status, updated),
         reason     |-> LKRReason(status, rows, g)]

-----------------------------------------------------------------------------
(* Per-adapter conditions, and the whole aggregation. *)

computeAdapterCondition(prev, row, refTime) ==
    [status     |-> row.avail,
     gen        |-> row.gen,
     created    |-> Created(prev, refTime),
     updated    |-> row.time,
     transition |-> GenericTransition(prev, row.avail, row.time),
     reason     |-> "AdapterReason"]

AggregateResourceStatus(prev, rows, g, refTime, deleting, children) ==
    [rec |-> computeReconciled(prev.rec, rows, g, refTime, deleting, children),
     lkr |-> computeLastKnownReconciled(prev.lkr, rows, g, refTime),
     adp |-> [a \in Adapters |->
                IF a \in Usable(rows, g)
                THEN computeAdapterCondition(prev.adp[a], rows[a], refTime)
                ELSE NoCond]]

\* Mutant: the rewrite stamps last_transition_time with the update time.
UpdateConditionRestamps(prev, new) ==
    IF new.status = "None" THEN NoCond ELSE
    [new EXCEPT !.created    = IF prev.status = "None" THEN @ ELSE prev.created,
                !.transition = new.updated]

\* The write replaces every condition row of the resource; a type that was
\* there before keeps its creation time, and its transition time unless its
\* status changes.
UpdateCondition(prev, new) ==
    IF new.status = "None" THEN NoCond ELSE
    [new EXCEPT !.created    = IF prev.status = "None" THEN @ ELSE prev.created,
                !.transition = IF prev.status = new.status THEN prev.transition ELSE @]

\* UpdateConditions of pkg/dao/resource_condition.go
UpdateConditions(prev, new) ==
    [rec |-> UpdateCondition(prev.rec, new.rec),
     lkr |-> UpdateCondition(prev.lkr, new.lkr),
     adp |-> [a \in Adapters |-> UpdateCondition(prev.adp[a], new.adp[a])]]

\* allAdaptersFinalized of tryHardDeleteResource.  Unlike the aggregation it
\* does not look at Available.
allAdaptersFinalized(rows, g) ==
    \A a \in Required : rows[a].gen = g /\ rows[a].fin
=============================================================================

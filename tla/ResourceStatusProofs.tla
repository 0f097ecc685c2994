------------------------- MODULE ResourceStatusProofs -------------------------
(***************************************************************************)
(* Proofs about ResourceStatus for every set of adapters, with or without  *)
(* required ones, and every bound on generations and times.  First facts   *)
(* about the aggregation operators: they are total and well typed, a True  *)
(* condition is backed by the reports, and aggregating twice writes what   *)
(* aggregating once did.                                                   *)
(***************************************************************************)
EXTENDS ResourceStatus, WellFoundedInduction, TLAPS

(* The oldest of a set of timestamps exists (minTime). *)
LEMMA MinExists ==
    ASSUME NEW S \in SUBSET Nat, S # {}
    PROVE  Min(S) \in S /\ \A x \in S : Min(S) <= x
<1>1. IsWellFoundedOn(OpToRel(<, Nat), Nat)
  BY NatLessThanWellFounded
<1>2. PICK m \in S : \A y \in S : ~(<<y, m>> \in OpToRel(<, Nat))
  BY <1>1, WFMin
<1>3. \A y \in S : ~(y < m)
  <2> TAKE y \in S
  <2>1. y < m => <<y, m>> \in OpToRel(<, Nat)
    <3>1. <<y, m>> \in Nat \X Nat /\ <<y, m>>[1] = y /\ <<y, m>>[2] = m
      OBVIOUS
    <3> QED
      BY <3>1, Zenon DEF OpToRel
  <2> QED
    BY <2>1, <1>2
<1>4. \A y \in S : m <= y
  BY <1>3
<1> QED
  BY <1>4 DEF Min

(* The newest generation of a bounded set exists. *)
LEMMA MaxExists ==
    ASSUME NEW g \in Nat, NEW S \in SUBSET (0 .. g), S # {}
    PROVE  Max(S) \in S /\ \A x \in S : Max(S) >= x
<1> DEFINE T == {g - x : x \in S}
<1>1. T \in SUBSET Nat /\ T # {}
  <2>1. \A x \in S : g - x \in Nat
    OBVIOUS
  <2>2. PICK x \in S : TRUE
    OBVIOUS
  <2>3. g - x \in T
    BY <2>2
  <2> QED
    BY <2>1, <2>3
<1>2. PICK m \in S : Min(T) = g - m
  BY <1>1, MinExists
<1>3. \A x \in S : x <= m
  <2> TAKE x \in S
  <2>1. g - x \in T
    OBVIOUS
  <2>2. g - m <= g - x
    BY <2>1, <1>1, <1>2, MinExists
  <2> QED
    BY <2>2
<1> QED
  BY <1>3 DEF Max

(* Usable snapshots are required adapters with a positive, current or past    *)
(* generation and a definite Available.                                      *)
LEMMA UsableFacts ==
    ASSUME NEW reps \in [Adapters -> Row], NEW g \in Nat, NEW a \in Usable(reps, g)
    PROVE  /\ a \in Required /\ a \in Adapters
           /\ reps[a].gen \in 1 .. g
           /\ reps[a].time \in Nat
           /\ reps[a].avail \in {"True", "False"}
BY RequiredAssumption DEF Usable, Row

(* The newest generation any usable snapshot reported is one of theirs, or 0. *)
LEMMA MaxReportedGenType ==
    ASSUME NEW reps \in [Adapters -> Row], NEW g \in Nat
    PROVE  MaxReportedGen(reps, g) \in 0 .. g
<1> DEFINE S == GensOf(reps, Usable(reps, g)) \cup {0}
<1>1. S \in SUBSET (0 .. g) /\ S # {}
  BY UsableFacts DEF GensOf
<1>2. Max(S) \in S
  BY <1>1, MaxExists
<1> QED
  BY <1>1, <1>2 DEF MaxReportedGen

(* minTime of the usable snapshots of some generation is a timestamp. *)
LEMMA MinTimeType ==
    ASSUME NEW reps \in [Adapters -> Row], NEW S \in SUBSET Required, S # {}
    PROVE  /\ Min(TimesOf(reps, S)) \in Nat
           /\ \A a \in S : Min(TimesOf(reps, S)) <= reps[a].time
<1>1. TimesOf(reps, S) \in SUBSET Nat /\ TimesOf(reps, S) # {}
  BY RequiredAssumption DEF TimesOf, Row
<1>2. \A a \in S : reps[a].time \in TimesOf(reps, S)
  BY DEF TimesOf
<1> QED
  BY <1>1, <1>2, MinExists

-----------------------------------------------------------------------------
(* Types *)

(* computeReconciled yields a well-formed condition. *)
LEMMA ReconciledType ==
    ASSUME NEW prev \in Cond, NEW reps \in [Adapters -> Row], NEW g \in Nat,
           NEW refTime \in Nat, NEW deleting \in BOOLEAN, NEW kids \in BOOLEAN
    PROVE  /\ computeReconciled(prev, reps, g, refTime, deleting, kids) \in Cond
           /\ computeReconciled(prev, reps, g, refTime, deleting, kids).status # "None"
<1> DEFINE c == computeReconciled(prev, reps, g, refTime, deleting, kids)
<1>1. c.status \in {"True", "False"}
  BY DEF computeReconciled, ReconciledStatus
<1>2. c.gen \in Nat
  BY MaxReportedGenType DEF computeReconciled
<1>3. c.created \in Nat
  BY DEF computeReconciled, Created, Cond
<1>4. ReconciledUpdated(reps, g, refTime) \in Nat
  BY MinTimeType DEF ReconciledUpdated, AtGen, Usable
<1>5. c.updated \in Nat
  BY <1>4 DEF computeReconciled
<1>6. c.transition \in Nat
  BY <1>4 DEF computeReconciled, ReconciledTransition, GenericTransition, Cond
<1>7. c.reason \in Reasons
  BY DEF computeReconciled, ReconciledReason, ReconciledStatus, Reasons
<1> QED
  BY <1>1, <1>2, <1>3, <1>5, <1>6, <1>7 DEF computeReconciled, Cond

(* The last_updated_time computeLastKnownReconciled picks is a timestamp. *)
LEMMA LKRUpdatedType ==
    ASSUME NEW prev \in Cond, NEW status, NEW ngen, NEW reps \in [Adapters -> Row],
           NEW g \in Nat, NEW refTime \in Nat
    PROVE  LKRUpdated(prev, status, ngen, reps, g, refTime) \in Nat
<1>1. CASE Required = {}
  BY <1>1 DEF LKRUpdated
<1>2. CASE Required # {} /\ AllTrueSameGen(reps, g)
  BY <1>2, MinTimeType DEF LKRUpdated
<1>3. CASE /\ Required # {} /\ ~AllTrueSameGen(reps, g)
           /\ status = "False" /\ FalseAt(reps, g, ngen)
  <2>1. AtGen(reps, g, ngen) # {} /\ AtGen(reps, g, ngen) \in SUBSET Required
    BY <1>3 DEF FalseAt, AtGen, Usable
  <2> QED
    BY <1>3, <2>1, MinTimeType DEF LKRUpdated
<1>4. CASE /\ Required # {} /\ ~AllTrueSameGen(reps, g)
           /\ ~(status = "False" /\ FalseAt(reps, g, ngen))
  BY <1>4 DEF LKRUpdated, Cond
<1> QED
  BY <1>1, <1>2, <1>3, <1>4

(* computeLastKnownReconciled yields a well-formed condition. *)
LEMMA LKRType ==
    ASSUME NEW prev \in Cond, NEW reps \in [Adapters -> Row], NEW g \in Nat,
           NEW refTime \in Nat
    PROVE  /\ computeLastKnownReconciled(prev, reps, g, refTime) \in Cond
           /\ computeLastKnownReconciled(prev, reps, g, refTime).status # "None"
<1> DEFINE status  == LKRStatus(prev, reps, g)
           ngen     == LKRGen(prev, status, reps, g)
           nupd == LKRUpdated(prev, status, ngen, reps, g, refTime)
<1>1. status \in {"True", "False"}
  BY DEF LKRStatus
<1>2. ngen \in Nat
  <2>1. Required # {} => reps[CHOOSE a \in Required : TRUE].gen \in Nat
    BY RequiredAssumption DEF Row
  <2>2. MaxReportedGen(reps, g) \in Nat
    BY MaxReportedGenType
  <2>3. prev.gen \in Nat
    BY DEF Cond
  <2> QED
    BY <2>1, <2>2, <2>3 DEF LKRGen
<1>3. nupd \in Nat
  BY LKRUpdatedType
<1>4. Created(prev, refTime) \in Nat
  BY DEF Created, Cond
<1>5. GenericTransition(prev, status, nupd) \in Nat
  BY <1>3 DEF GenericTransition, Cond
<1>6. LKRReason(status, reps, g) \in Reasons
  BY DEF LKRReason, Reasons
<1> HIDE DEF status, ngen, nupd
<1> QED
  BY <1>1, <1>2, <1>3, <1>4, <1>5, <1>6
  DEF computeLastKnownReconciled, Cond, status, ngen, nupd

(* The per-adapter condition copied from a report is well formed. *)
LEMMA AdapterConditionType ==
    ASSUME NEW prev \in Cond, NEW reps \in [Adapters -> Row], NEW g \in Nat,
           NEW refTime \in Nat, NEW a \in Usable(reps, g)
    PROVE  computeAdapterCondition(prev, reps[a], refTime) \in Cond
<1>1. Created(prev, refTime) \in Nat
  BY DEF Created, Cond
<1>2. GenericTransition(prev, reps[a].avail, reps[a].time) \in Nat
  BY UsableFacts DEF GenericTransition, Cond
<1>3. "AdapterReason" \in Reasons
  BY DEF Reasons
<1> QED
  BY <1>1, <1>2, <1>3, UsableFacts DEF computeAdapterCondition, Cond

(* An absent condition is a well-formed condition. *)
LEMMA NoCondType == NoCond \in Cond
BY DEF NoCond, Cond, Reasons

(* Writing a well-formed condition over another leaves a well-formed one. *)
LEMMA UpdateConditionType ==
    ASSUME NEW prev \in Cond, NEW new \in Cond
    PROVE  UpdateCondition(prev, new) \in Cond
BY NoCondType DEF UpdateCondition, Cond

(* What one run of the aggregation writes is a set of well-formed conditions. *)
LEMMA AggregationType ==
    ASSUME NEW prev \in Conds, NEW reps \in [Adapters -> Row], NEW g \in Nat,
           NEW refTime \in Nat, NEW deleting \in BOOLEAN, NEW kids \in BOOLEAN
    PROVE  UpdateConditions(prev,
              AggregateResourceStatus(prev, reps, g, refTime, deleting, kids)) \in Conds
<1> DEFINE new == AggregateResourceStatus(prev, reps, g, refTime, deleting, kids)
<1>1. prev.rec \in Cond /\ prev.lkr \in Cond /\ \A a \in Adapters : prev.adp[a] \in Cond
  BY DEF Conds
<1>2. new.rec \in Cond
  BY <1>1, ReconciledType DEF AggregateResourceStatus
<1>3. new.lkr \in Cond
  BY <1>1, LKRType DEF AggregateResourceStatus
<1>4. \A a \in Adapters : new.adp[a] \in Cond
  BY <1>1, AdapterConditionType, NoCondType DEF AggregateResourceStatus
<1> HIDE DEF new
<1>5. UpdateConditions(prev, new) \in Conds
  BY <1>1, <1>2, <1>3, <1>4, UpdateConditionType DEF UpdateConditions, Conds
<1> QED
  BY <1>5 DEF new

-----------------------------------------------------------------------------
(* Idempotence: what saveAggregatedResourceConditions relies on when it      *)
(* compares the new conditions with the stored ones and skips the write.     *)

(* The write keeps everything but the two preserved timestamps... *)
LEMMA UpdateConditionFields ==
    ASSUME NEW prev \in Cond, NEW new \in Cond, new.status # "None",
           NEW c, c = UpdateCondition(prev, new)
    PROVE  /\ c.status = new.status /\ c.gen = new.gen
           /\ c.updated = new.updated /\ c.reason = new.reason
           /\ c.created = IF prev.status = "None" THEN new.created ELSE prev.created
           /\ prev.status = new.status => c.transition = prev.transition
BY DEF UpdateCondition, Cond

(* ... so writing over a condition that agrees on the rest is no write. *)
LEMMA UpdateConditionFixpoint ==
    ASSUME NEW c \in Cond, NEW new \in Cond, c.status # "None", new.status = c.status,
           new.gen = c.gen, new.updated = c.updated, new.reason = c.reason
    PROVE  UpdateCondition(c, new) = c
<1>1. c = [status |-> c.status, gen |-> c.gen, created |-> c.created, updated |-> c.updated,
           transition |-> c.transition, reason |-> c.reason]
  BY DEF Cond
<1>2. UpdateCondition(c, new)
        = [status |-> c.status, gen |-> c.gen, created |-> c.created, updated |-> c.updated,
           transition |-> c.transition, reason |-> c.reason]
  BY DEF UpdateCondition, Cond
<1> QED
  BY <1>1, <1>2

(* Recomputing Reconciled over its own result writes the same row. *)
LEMMA ReconciledIdempotent ==
    ASSUME NEW prev \in Cond, NEW reps \in [Adapters -> Row], NEW g \in Nat,
           NEW refTime \in Nat, NEW deleting \in BOOLEAN, NEW kids \in BOOLEAN,
           NEW c, c = UpdateCondition(prev,
                         computeReconciled(prev, reps, g, refTime, deleting, kids))
    PROVE  UpdateCondition(c, computeReconciled(c, reps, g, refTime, deleting, kids)) = c
<1> DEFINE new  == computeReconciled(prev, reps, g, refTime, deleting, kids)
           new2 == computeReconciled(c, reps, g, refTime, deleting, kids)
<1>1. new \in Cond /\ new.status # "None"
  BY ReconciledType
<1>2. c \in Cond
  BY <1>1, UpdateConditionType
<1>3. new2 \in Cond
  BY <1>2, ReconciledType
<1>4. new2.status = new.status /\ new2.gen = new.gen /\ new2.updated = new.updated
      /\ new2.reason = new.reason
  BY DEF computeReconciled
<1> HIDE DEF new, new2
<1>5. c.status = new.status /\ c.gen = new.gen /\ c.updated = new.updated /\ c.reason = new.reason
  BY <1>1, UpdateConditionFields DEF new
<1>6. UpdateCondition(c, new2) = c
  BY <1>1, <1>2, <1>3, <1>4, <1>5, UpdateConditionFixpoint
<1> QED
  BY <1>6 DEF new2

(* Recomputing LastKnownReconciled over its own result writes the same row. *)
LEMMA LKRIdempotent ==
    ASSUME NEW prev \in Cond, NEW reps \in [Adapters -> Row], NEW g \in Nat,
           NEW refTime \in Nat,
           NEW c, c = UpdateCondition(prev, computeLastKnownReconciled(prev, reps, g, refTime))
    PROVE  UpdateCondition(c, computeLastKnownReconciled(c, reps, g, refTime)) = c
<1> DEFINE new    == computeLastKnownReconciled(prev, reps, g, refTime)
           new2   == computeLastKnownReconciled(c, reps, g, refTime)
           status == LKRStatus(prev, reps, g)
           lgen   == LKRGen(prev, status, reps, g)
           upd    == LKRUpdated(prev, status, lgen, reps, g, refTime)
<1>1. new \in Cond /\ new.status # "None"
  BY LKRType
<1>2. c \in Cond
  BY <1>1, UpdateConditionType
<1>3. new2 \in Cond
  BY <1>2, LKRType
<1>4. /\ new.status = status /\ new.gen = lgen /\ new.updated = upd
      /\ new.reason = LKRReason(status, reps, g)
  BY DEF computeLastKnownReconciled
<1>5. c.status = status /\ c.gen = lgen /\ c.updated = upd /\ c.reason = new.reason
  <2> HIDE DEF new
  <2>1. c.status = new.status /\ c.gen = new.gen /\ c.updated = new.updated /\ c.reason = new.reason
    BY <1>1, UpdateConditionFields DEF new
  <2> QED
    BY <2>1, <1>4
<1>6. LKRStatus(c, reps, g) = status
  <2>1. CASE status = "True" /\ ~AllTrueSameGen(reps, g)
    <3>1. lgen = prev.gen
      BY <2>1 DEF LKRGen, LKRStatus
    <3> QED
      BY <2>1, <3>1, <1>5 DEF LKRStatus
  <2>2. CASE status = "True" /\ AllTrueSameGen(reps, g)
    BY <2>2 DEF LKRStatus
  <2>3. CASE status = "False"
    BY <2>3, <1>5 DEF LKRStatus
  <2> QED
    BY <2>1, <2>2, <2>3 DEF LKRStatus
<1>7. LKRGen(c, status, reps, g) = lgen
  BY <1>5 DEF LKRGen
<1>8. LKRUpdated(c, status, lgen, reps, g, refTime) = upd
  BY <1>1, <1>4, <1>5 DEF LKRUpdated
<1>9. /\ new2.status = status /\ new2.gen = lgen /\ new2.updated = upd
      /\ new2.reason = LKRReason(status, reps, g)
  BY <1>6, <1>7, <1>8 DEF computeLastKnownReconciled
<1> HIDE DEF new, new2, status, lgen, upd
<1>10. UpdateCondition(c, new2) = c
  BY <1>1, <1>2, <1>3, <1>4, <1>5, <1>9, UpdateConditionFixpoint
<1> QED
  BY <1>10 DEF new2

(* Recomputing an adapter's condition over its own result writes the same row. *)
LEMMA AdapterConditionIdempotent ==
    ASSUME NEW prev \in Cond, NEW reps \in [Adapters -> Row], NEW g \in Nat,
           NEW refTime \in Nat, NEW a \in Usable(reps, g),
           NEW c, c = UpdateCondition(prev, computeAdapterCondition(prev, reps[a], refTime))
    PROVE  UpdateCondition(c, computeAdapterCondition(c, reps[a], refTime)) = c
<1> DEFINE new  == computeAdapterCondition(prev, reps[a], refTime)
           new2 == computeAdapterCondition(c, reps[a], refTime)
<1>1. new \in Cond /\ new.status # "None"
  BY AdapterConditionType, UsableFacts DEF computeAdapterCondition
<1>2. c \in Cond
  BY <1>1, UpdateConditionType
<1>3. new2 \in Cond
  BY <1>2, AdapterConditionType
<1>4. new2.status = new.status /\ new2.gen = new.gen /\ new2.updated = new.updated
      /\ new2.reason = new.reason
  BY DEF computeAdapterCondition
<1> HIDE DEF new, new2
<1>5. c.status = new.status /\ c.gen = new.gen /\ c.updated = new.updated /\ c.reason = new.reason
  BY <1>1, UpdateConditionFields DEF new
<1>6. UpdateCondition(c, new2) = c
  BY <1>1, <1>2, <1>3, <1>4, <1>5, UpdateConditionFixpoint
<1> QED
  BY <1>6 DEF new2

(* Aggregating the same reports against the conditions just written writes    *)
(* nothing new, whatever conditions were stored before.                      *)
THEOREM AggregationIdempotent ==
    ASSUME NEW prev \in Conds, NEW reps \in [Adapters -> Row], NEW g \in Nat,
           NEW refTime \in Nat, NEW deleting \in BOOLEAN, NEW kids \in BOOLEAN,
           NEW c, c = UpdateConditions(prev,
                        AggregateResourceStatus(prev, reps, g, refTime, deleting, kids))
    PROVE  UpdateConditions(c,
              AggregateResourceStatus(c, reps, g, refTime, deleting, kids)) = c
<1>1. prev.rec \in Cond /\ prev.lkr \in Cond /\ \A a \in Adapters : prev.adp[a] \in Cond
  BY DEF Conds
<1>2. c.rec = UpdateCondition(prev.rec,
                 computeReconciled(prev.rec, reps, g, refTime, deleting, kids))
  BY DEF UpdateConditions, AggregateResourceStatus
<1>3. c.lkr = UpdateCondition(prev.lkr, computeLastKnownReconciled(prev.lkr, reps, g, refTime))
  BY DEF UpdateConditions, AggregateResourceStatus
<1>4. \A a \in Adapters : c.adp[a] =
         UpdateCondition(prev.adp[a],
            IF a \in Usable(reps, g)
            THEN computeAdapterCondition(prev.adp[a], reps[a], refTime) ELSE NoCond)
  BY DEF UpdateConditions, AggregateResourceStatus
<1>5. \A a \in Adapters :
         UpdateCondition(c.adp[a],
            IF a \in Usable(reps, g)
            THEN computeAdapterCondition(c.adp[a], reps[a], refTime) ELSE NoCond) = c.adp[a]
  <2> TAKE a \in Adapters
  <2>1. CASE a \in Usable(reps, g)
    BY <2>1, <1>1, <1>4, AdapterConditionIdempotent
  <2>2. CASE a \notin Usable(reps, g)
    BY <2>2, <1>4 DEF UpdateCondition, NoCond
  <2> QED
    BY <2>1, <2>2
<1>6. UpdateCondition(c.rec,
         computeReconciled(c.rec, reps, g, refTime, deleting, kids)) = c.rec
  BY <1>1, <1>2, ReconciledIdempotent
<1>7. UpdateCondition(c.lkr, computeLastKnownReconciled(c.lkr, reps, g, refTime)) = c.lkr
  BY <1>1, <1>3, LKRIdempotent
<1>8. c \in Conds
  BY AggregationType
<1>9. c = [rec |-> c.rec, lkr |-> c.lkr, adp |-> [a \in Adapters |-> c.adp[a]]]
  BY <1>8 DEF Conds
<1> QED
  BY <1>5, <1>6, <1>7, <1>9 DEF UpdateConditions, AggregateResourceStatus

-----------------------------------------------------------------------------
(* What a True condition says about the reports. *)

(* Reconciled=True: every required adapter is at the resource's generation    *)
(* and meets the lifecycle's condition, and none reported before the          *)
(* condition's last_updated_time.                                             *)
LEMMA ReconciledTrue ==
    ASSUME NEW prev \in Cond, NEW reps \in [Adapters -> Row], NEW g \in Nat,
           NEW refTime \in Nat, NEW deleting \in BOOLEAN, NEW kids \in BOOLEAN,
           NEW c, c = UpdateCondition(prev,
                         computeReconciled(prev, reps, g, refTime, deleting, kids)),
           c.status = "True"
    PROVE  /\ Required # {}
           /\ c.gen = g
           /\ \A a \in Required :
                 /\ reps[a].gen = g
                 /\ IF deleting THEN reps[a].fin ELSE reps[a].avail = "True"
                 /\ c.updated <= reps[a].time
<1> DEFINE new == computeReconciled(prev, reps, g, refTime, deleting, kids)
<1>1. new \in Cond /\ new.status # "None"
  BY ReconciledType
<1>2. c.status = new.status /\ c.gen = new.gen /\ c.updated = new.updated
  <2> HIDE DEF new
  <2> QED
    BY <1>1, UpdateConditionFields DEF new
<1>3. AllAdaptersConditionMet(reps, g, deleting) /\ new.gen = g
  BY <1>2 DEF computeReconciled, ReconciledStatus
<1>4. Required # {} /\ AtGen(reps, g, g) = Required
  BY <1>3 DEF AllAdaptersConditionMet, AtGen, Usable
<1>5. new.updated = Min(TimesOf(reps, Required))
  BY <1>4 DEF computeReconciled, ReconciledUpdated
<1>6. \A a \in Required : new.updated <= reps[a].time
  BY <1>4, <1>5, MinTimeType
<1> QED
  BY <1>2, <1>3, <1>4, <1>6 DEF AllAdaptersConditionMet, AtGen

(* LastKnownReconciled=True: no required adapter is missing, and either they  *)
(* all agree now or the previous True stands unchallenged at its generation.  *)
LEMMA LKRTrue ==
    ASSUME NEW prev \in Cond, NEW reps \in [Adapters -> Row], NEW g \in Nat,
           NEW refTime \in Nat,
           NEW c, c = UpdateCondition(prev, computeLastKnownReconciled(prev, reps, g, refTime)),
           c.status = "True"
    PROVE  /\ Required # {}
           /\ Usable(reps, g) = Required
           /\ \/ /\ AllTrueSameGen(reps, g)
                 /\ \A a \in Required : reps[a].gen = c.gen
              \/ /\ prev.status = "True"
                 /\ c.gen = prev.gen
                 /\ ~FalseAt(reps, g, prev.gen)
<1> DEFINE new == computeLastKnownReconciled(prev, reps, g, refTime)
<1>1. new \in Cond /\ new.status # "None"
  BY LKRType
<1>2. c.status = new.status /\ c.gen = new.gen
  <2> HIDE DEF new
  <2> QED
    BY <1>1, UpdateConditionFields DEF new
<1>3. LKRStatus(prev, reps, g) = "True"
  BY <1>2 DEF computeLastKnownReconciled
<1>4. new.gen = LKRGen(prev, "True", reps, g)
  BY <1>3 DEF computeLastKnownReconciled
<1>5. Required # {} /\ Usable(reps, g) = Required
  BY <1>3 DEF LKRStatus, HasMissingAdapter
<1>6. CASE AllTrueSameGen(reps, g)
  <2>1. new.gen = reps[CHOOSE a \in Required : TRUE].gen
    BY <1>4, <1>5, <1>6 DEF LKRGen
  <2>2. \A a \in Required : reps[a].gen = new.gen
    BY <1>5, <1>6, <2>1 DEF AllTrueSameGen, Mixed
  <2> QED
    BY <1>2, <1>5, <1>6, <2>2
<1>7. CASE ~AllTrueSameGen(reps, g)
  BY <1>2, <1>3, <1>4, <1>5, <1>7 DEF LKRStatus, LKRGen
<1> QED
  BY <1>6, <1>7

(* Without required adapters neither condition is ever True. *)
LEMMA NothingRequired ==
    ASSUME NEW prev \in Conds, NEW reps \in [Adapters -> Row], NEW g \in Nat,
           NEW refTime \in Nat, NEW deleting \in BOOLEAN, NEW kids \in BOOLEAN,
           NEW c, c = UpdateConditions(prev,
                        AggregateResourceStatus(prev, reps, g, refTime, deleting, kids)),
           Required = {}
    PROVE  c.rec.status # "True" /\ c.lkr.status # "True"
<1>1. prev.rec \in Cond /\ prev.lkr \in Cond
  BY DEF Conds
<1>2. c.rec = UpdateCondition(prev.rec,
                 computeReconciled(prev.rec, reps, g, refTime, deleting, kids))
  BY DEF UpdateConditions, AggregateResourceStatus
<1>3. c.lkr = UpdateCondition(prev.lkr, computeLastKnownReconciled(prev.lkr, reps, g, refTime))
  BY DEF UpdateConditions, AggregateResourceStatus
<1> QED
  BY <1>1, <1>2, <1>3, ReconciledTrue, LKRTrue

(* A row that is not usable before and after a change does not influence the  *)
(* aggregation: the first Unknown report of an adapter leaves it as it was.   *)
LEMMA UnusableRowIrrelevant ==
    ASSUME NEW prev, NEW reps \in [Adapters -> Row], NEW r \in [Adapters -> Row],
           NEW g \in Nat, NEW refTime, NEW deleting \in BOOLEAN, NEW kids \in BOOLEAN,
           NEW a \in Adapters, \A b \in Adapters \ {a} : r[b] = reps[b],
           a \notin Usable(reps, g), a \notin Usable(r, g)
    PROVE  AggregateResourceStatus(prev, r, g, refTime, deleting, kids)
             = AggregateResourceStatus(prev, reps, g, refTime, deleting, kids)
<1>1. Usable(r, g) = Usable(reps, g)
  BY RequiredAssumption DEF Usable
<1>2. \A b \in Usable(reps, g) : b \in Adapters /\ r[b] = reps[b]
  BY RequiredAssumption DEF Usable
<1>3. GensOf(r, Usable(r, g)) = GensOf(reps, Usable(reps, g))
  BY <1>1, <1>2 DEF GensOf
<1>4. MaxReportedGen(r, g) = MaxReportedGen(reps, g)
  BY <1>3 DEF MaxReportedGen
<1>5. \A x : /\ AtGen(r, g, x) = AtGen(reps, g, x)
             /\ TimesOf(r, AtGen(r, g, x)) = TimesOf(reps, AtGen(reps, g, x))
             /\ FalseAt(r, g, x) <=> FalseAt(reps, g, x)
  BY <1>1, <1>2 DEF AtGen, TimesOf, FalseAt
<1>6. AllAdaptersConditionMet(r, g, deleting) <=> AllAdaptersConditionMet(reps, g, deleting)
  BY <1>1, <1>2 DEF AllAdaptersConditionMet, AtGen
<1>7. ReconciledUpdated(r, g, refTime) = ReconciledUpdated(reps, g, refTime)
  BY <1>5 DEF ReconciledUpdated
<1>8. computeReconciled(prev.rec, r, g, refTime, deleting, kids)
        = computeReconciled(prev.rec, reps, g, refTime, deleting, kids)
  BY <1>4, <1>6, <1>7 DEF computeReconciled, ReconciledStatus, ReconciledReason
<1>9. HasMissingAdapter(r, g) <=> HasMissingAdapter(reps, g)
  BY <1>1 DEF HasMissingAdapter
<1>10. AllTrue(r, g) <=> AllTrue(reps, g)
  BY <1>1, <1>2 DEF AllTrue
<1>11. AllTrue(reps, g) => \A b \in Required : r[b] = reps[b]
  BY <1>2 DEF AllTrue
<1>12. AllTrueSameGen(r, g) <=> AllTrueSameGen(reps, g)
  BY <1>10, <1>11 DEF AllTrueSameGen, Mixed
<1>13. AllTrueSameGen(reps, g) =>
         /\ Required # {} => r[CHOOSE b \in Required : TRUE] = reps[CHOOSE b \in Required : TRUE]
         /\ TimesOf(r, Required) = TimesOf(reps, Required)
  BY <1>11 DEF AllTrueSameGen, TimesOf
<1>14. LKRStatus(prev.lkr, r, g) = LKRStatus(prev.lkr, reps, g)
  BY <1>5, <1>9, <1>12 DEF LKRStatus
<1>15. \A s : LKRGen(prev.lkr, s, r, g) = LKRGen(prev.lkr, s, reps, g)
  BY <1>1, <1>4, <1>12, <1>13 DEF LKRGen
<1>16. \A s, x : LKRUpdated(prev.lkr, s, x, r, g, refTime) = LKRUpdated(prev.lkr, s, x, reps, g, refTime)
  BY <1>5, <1>12, <1>13 DEF LKRUpdated
<1>17. \A s : LKRReason(s, r, g) = LKRReason(s, reps, g)
  BY <1>1, <1>2, <1>9 DEF LKRReason
<1>18. computeLastKnownReconciled(prev.lkr, r, g, refTime)
         = computeLastKnownReconciled(prev.lkr, reps, g, refTime)
  BY <1>14, <1>15, <1>16, <1>17 DEF computeLastKnownReconciled
<1>19. \A b \in Usable(reps, g) : computeAdapterCondition(prev.adp[b], r[b], refTime)
                                   = computeAdapterCondition(prev.adp[b], reps[b], refTime)
  BY <1>2
<1> QED
  BY <1>1, <1>8, <1>18, <1>19 DEF AggregateResourceStatus

-----------------------------------------------------------------------------
(* Resources.                                                              *)

(* The conditions a handler writes are well formed. *)
LEMMA RecomputeType ==
    ASSUME conds \in Conds,
           NEW r \in [Adapters -> Row], NEW g \in Nat, NEW refTime \in Nat,
           NEW deleting \in BOOLEAN, NEW kids \in BOOLEAN
    PROVE  Recompute(r, g, refTime, deleting, kids) \in Conds
<1>1. ChildrenRemain(deleting, kids) \in BOOLEAN
  BY DEF ChildrenRemain
<1> QED
  BY <1>1, AggregationType DEF Recompute

(* A resource without conditions is a well-formed state. *)
LEMMA NoCondsType == NoConds \in Conds
BY NoCondType DEF NoConds, Conds

(* A resource without reports is a well-formed state. *)
LEMMA NoRowsType == [a \in Adapters |-> NoRow] \in [Adapters -> Row]
BY DEF NoRow, Row

(* A report that is not discarded is a well-formed row. *)
LEMMA UpsertType ==
    ASSUME TypeOK, NEW a \in Adapters, NEW report \in Reports, ~Discarded(report, rows[a])
    PROVE  [rows EXCEPT ![a] = Upsert(rows[a], report)] \in [Adapters -> Row]
<1>1. report \in Row
  BY BoundsAssumption DEF Reports, Row, Discarded, Times
<1>2. Upsert(rows[a], report) \in Row
  BY <1>1 DEF Upsert, TypeOK
<1> QED
  BY <1>2 DEF TypeOK

(* The generations every required adapter reported True are generations. *)
LEMMA GoodGensType ==
    ASSUME NEW r \in [Adapters -> Row], NEW g
    PROVE  GoodGens(r, g) \subseteq Nat
BY RequiredAssumption DEF GoodGens, GensOf, Row

(* Every step of every handler keeps the tables well formed. *)
LEMMA TypeStep ==
    ASSUME TypeOK, [Next]_vars
    PROVE  TypeOK'
<1> USE DEF TypeOK
<1>t. Times \subseteq Nat
  BY BoundsAssumption DEF Times
<1>1. CASE Create
  BY <1>1, <1>t, RecomputeType DEF Create
<1>2. CASE Patch
  <2>1. gen' \in Nat /\ updated' \in Nat
    BY <1>2, <1>t DEF Patch
  <2>2. Recompute(rows, gen', updated', FALSE, children) \in Conds
    BY <2>1, RecomputeType
  <2> QED
    BY <1>2, <2>1, <2>2 DEF Patch
<1>3. CASE Delete
  <2>1. children' \in BOOLEAN
    BY <1>3 DEF Delete
  <2>2. ASSUME NEW g \in Nat, SoftDelete(g) PROVE TypeOK'
    BY <2>1, <2>2, <1>t, RecomputeType DEF SoftDelete
  <2>3. CASE HardDelete
    BY <2>1, <2>3, NoCondsType DEF HardDelete
  <2> QED
    BY <1>3, <2>2, <2>3 DEF Delete
<1>4. CASE ForceDelete
  BY <1>4, NoCondsType, NoRowsType DEF ForceDelete
<1>5. ASSUME NEW a \in Adapters, NEW report \in Reports, ProcessAdapterStatus(a, report)
      PROVE  TypeOK'
  <2> DEFINE r == [rows EXCEPT ![a] = Upsert(rows[a], report)]
  <2>1. r \in [Adapters -> Row]
    BY <1>5, UpsertType DEF ProcessAdapterStatus
  <2>2. Recompute(r, gen, updated, Deleting, children) \in Conds
    BY <2>1, RecomputeType DEF Deleting
  <2>3. GoodGens(r, gen) \subseteq Nat
    BY <2>1, GoodGensType
  <2> HIDE DEF r
  <2> QED
    BY <1>5, <2>1, <2>2, <2>3, NoCondsType, NoRowsType DEF ProcessAdapterStatus, r
<1>6. CASE NoEffect
  BY <1>6 DEF NoEffect, vars
<1>7. CASE ChildCreated
  BY <1>7 DEF ChildCreated
<1>8. CASE ChildrenGone
  BY <1>8 DEF ChildrenGone
<1>9. CASE UNCHANGED vars
  BY <1>9 DEF vars
<1> QED
  BY <1>1, <1>2, <1>3, <1>4, <1>5, <1>6, <1>7, <1>8, <1>9 DEF Next

(* The resource row, its stored reports and its conditions are always well    *)
(* formed: in particular every aggregation is defined, whatever is reported.  *)
THEOREM TypeCorrect == Spec => []TypeOK
<1>1. Init => TypeOK
  <2> SUFFICES ASSUME Init PROVE TypeOK
    OBVIOUS
  <2>1. rows \in [Adapters -> Row]
    BY NoRowsType, Zenon DEF Init
  <2>2. conds \in Conds
    BY NoCondsType DEF Init
  <2> QED
    BY <2>1, <2>2 DEF Init, TypeOK
<1>2. TypeOK /\ [Next]_vars => TypeOK'
  BY TypeStep
<1> QED
  BY <1>1, <1>2, PTL DEF Spec

-----------------------------------------------------------------------------
(* The conditions invariant *)

(* Conditions just recomputed are up to date. *)
LEMMA RecomputeFresh ==
    ASSUME conds \in Conds,
           NEW r \in [Adapters -> Row], NEW g \in Nat, NEW refTime \in Nat,
           NEW deleting \in BOOLEAN, NEW kids \in BOOLEAN,
           NEW c, c = Recompute(r, g, refTime, deleting, kids)
    PROVE  c = UpdateConditions(c, AggregateResourceStatus(c, r, g, refTime, deleting,
                                                           ChildrenRemain(deleting, kids)))
<1>1. ChildrenRemain(deleting, kids) \in BOOLEAN
  BY DEF ChildrenRemain
<1> QED
  BY <1>1, AggregationIdempotent DEF Recompute

(* The parts of a recomputed condition set. *)
LEMMA RecomputeParts ==
    ASSUME NEW r, NEW g, NEW refTime, NEW deleting, NEW kids,
           NEW c, c = Recompute(r, g, refTime, deleting, kids)
    PROVE  /\ c.rec = UpdateCondition(conds.rec, computeReconciled(conds.rec, r, g, refTime,
                                         deleting, ChildrenRemain(deleting, kids)))
           /\ c.lkr = UpdateCondition(conds.lkr,
                         computeLastKnownReconciled(conds.lkr, r, g, refTime))
BY DEF Recompute, UpdateConditions, AggregateResourceStatus

(* A handler that recomputes for a kind without required adapters never writes True. *)
LEMMA RecomputeNothingRequired ==
    ASSUME conds \in Conds,
           NEW r \in [Adapters -> Row], NEW g \in Nat, NEW refTime \in Nat,
           NEW deleting \in BOOLEAN, NEW kids \in BOOLEAN,
           NEW c, c = Recompute(r, g, refTime, deleting, kids), Required = {}
    PROVE  c.rec.status # "True" /\ c.lkr.status # "True"
<1>1. ChildrenRemain(deleting, kids) \in BOOLEAN
  BY DEF ChildrenRemain
<1> QED
  BY <1>1, NothingRequired DEF Recompute

\* The agreement reports r show is in the history hist.
Recorded(r, g, hist) ==
    Required # {} /\ AllTrueSameGen(r, g) => GensOf(r, Required) \subseteq hist

\* A True lkr names a recorded generation that no report of r is behind...
Reached(lkr, r, hist) ==
    lkr.status = "True" => lkr.gen \in hist /\ \A a \in Required : r[a].gen >= lkr.gen

\* ... and that no report of r contradicts.
Unchallenged(lkr, r) ==
    lkr.status = "True" => \A a \in Required : r[a].gen = lkr.gen => r[a].avail = "True"

(* Recomputing keeps LastKnownReconciled backed when the reports it is        *)
(* computed from are no older than those that backed it before.               *)
LEMMA RecomputeBacked ==
    ASSUME conds \in Conds,
           NEW r \in [Adapters -> Row], NEW g \in Nat, NEW refTime \in Nat,
           NEW deleting \in BOOLEAN, NEW kids \in BOOLEAN,
           NEW c, c = Recompute(r, g, refTime, deleting, kids),
           NEW hist, Recorded(r, g, hist), Reached(conds.lkr, r, hist)
    PROVE  Reached(c.lkr, r, hist) /\ Unchallenged(c.lkr, r)
<1> SUFFICES ASSUME c.lkr.status = "True"
             PROVE  Reached(c.lkr, r, hist) /\ Unchallenged(c.lkr, r)
  BY DEF Reached, Unchallenged
<1>1. conds.lkr \in Cond
  BY DEF Conds
<1>2. c.lkr = UpdateCondition(conds.lkr, computeLastKnownReconciled(conds.lkr, r, g, refTime))
  BY RecomputeParts
<1>3. /\ Required # {}
      /\ Usable(r, g) = Required
      /\ \/ AllTrueSameGen(r, g) /\ \A a \in Required : r[a].gen = c.lkr.gen
         \/ conds.lkr.status = "True" /\ c.lkr.gen = conds.lkr.gen /\ ~FalseAt(r, g, conds.lkr.gen)
  BY <1>1, <1>2, LKRTrue
<1>4. \A a \in Required : r[a].gen \in Nat
  BY RequiredAssumption DEF Row
<1>5. CASE AllTrueSameGen(r, g) /\ \A a \in Required : r[a].gen = c.lkr.gen
  BY <1>3, <1>4, <1>5 DEF AllTrueSameGen, AllTrue, GensOf, Recorded, Reached, Unchallenged
<1>6. CASE conds.lkr.status = "True" /\ c.lkr.gen = conds.lkr.gen /\ ~FalseAt(r, g, conds.lkr.gen)
  <2>1. \A a \in Required : r[a].gen = c.lkr.gen => r[a].avail # "False"
    BY <1>3, <1>6 DEF FalseAt, AtGen
  <2> QED
    BY <1>3, <1>6, <2>1, UsableFacts DEF Reached, Unchallenged
<1> QED
  BY <1>3, <1>5, <1>6

\* Reports r after a report of adapter a was stored in rows.
Stored(r, a, report) ==
    /\ r \in [Adapters -> Row]
    /\ \A b \in Adapters \ {a} : r[b] = rows[b]
    /\ r[a].gen \in 1 .. gen
    /\ r[a].gen >= rows[a].gen
    /\ rows[a].gen = 0 => r[a] = report

(* What Upsert leaves behind for a report that was not discarded. *)
LEMMA UpsertFacts ==
    ASSUME TypeOK, ReportsNotAhead, NEW a \in Adapters, NEW report \in Reports,
           ~Discarded(report, rows[a])
    PROVE  Stored([rows EXCEPT ![a] = Upsert(rows[a], report)], a, report)
<1> DEFINE r == [rows EXCEPT ![a] = Upsert(rows[a], report)]
<1>1. r \in [Adapters -> Row]
  BY UpsertType
<1>2. report.gen \in 1 .. gen /\ report.time \in Nat
  BY BoundsAssumption DEF Reports, Discarded, TypeOK, Times
<1>3. rows[a].gen \in 0 .. gen /\ rows[a].time \in Nat
  BY DEF TypeOK, Row, ReportsNotAhead
<1>4. r[a] = Upsert(rows[a], report)
  BY DEF TypeOK
<1>5. \A b \in Adapters \ {a} : r[b] = rows[b]
  BY DEF TypeOK
<1> HIDE DEF r
<1>6. Stored(r, a, report)
  BY <1>1, <1>2, <1>3, <1>4, <1>5 DEF Upsert, Newer, Stored
<1> QED
  BY <1>6 DEF r

(* Usable snapshots do not depend on the resource's generation as long as no  *)
(* report is ahead of it.                                                     *)
LEMMA UsableStable ==
    ASSUME TypeOK, ReportsNotAhead, NEW g \in Nat, g >= gen
    PROVE  AllTrueSameGen(rows, g) <=> AllTrueSameGen(rows, gen)
<1>1. Usable(rows, g) = Usable(rows, gen)
  BY RequiredAssumption DEF Usable, TypeOK, Row, ReportsNotAhead
<1> QED
  BY <1>1 DEF AllTrueSameGen, AllTrue

(* A handler that leaves the reports alone and recomputes at the same or a    *)
(* later generation preserves the invariant: Create, Patch and the soft       *)
(* delete all have this shape.                                                *)
LEMMA RecomputeStep ==
    ASSUME StatusInv, TypeOK', Present \/ conds = NoConds, phase' # "unborn",
           Aggregates \/ phase' = "finalizing",
           UNCHANGED <<rows, good>>, gen' >= gen,
           NEW kids \in BOOLEAN,
           conds' = Recompute(rows, gen', updated', phase' = "finalizing", kids)
    PROVE  StatusInv'
<1> DEFINE del == phase' = "finalizing"
<1>1. del \in BOOLEAN /\ rows \in [Adapters -> Row] /\ gen' \in Nat /\ updated' \in Nat
      /\ gen \in Nat /\ conds \in Conds
  BY DEF StatusInv, TypeOK
<1>2. ReportsNotAhead'
  BY <1>1 DEF StatusInv, ReportsNotAhead, TypeOK, Row
<1>3. AllTrueSameGen(rows, gen') <=> AllTrueSameGen(rows, gen)
  BY <1>1, UsableStable DEF StatusInv
<1>4. Required # {} /\ AllTrueSameGen(rows, gen') => GensOf(rows, Required) \subseteq good
  BY <1>3 DEF StatusInv, AgreementRecorded
<1>5. AgreementRecorded'
  <2>1. AllTrueSameGen(rows, gen)' <=> AllTrueSameGen(rows, gen')
    BY DEF AllTrueSameGen, AllTrue, Mixed, Usable
  <2> QED
    BY <1>4, <2>1 DEF AgreementRecorded, GensOf
<1> HIDE DEF del
<1>6. conds' = Recompute(rows, gen', updated', del, kids)
  BY DEF del
<1>7. NothingRequiredNothingReconciled'
  BY <1>1, <1>6, RecomputeNothingRequired DEF NothingRequiredNothingReconciled
<1>8. ConditionsUpToDate'
  <2>1. conds' = UpdateConditions(conds',
                    AggregateResourceStatus(conds', rows, gen', updated', del,
                                            ChildrenRemain(del, kids)))
    BY <1>1, <1>6, RecomputeFresh
  <2>2. conds' = Recompute(rows, gen, updated, Deleting, kids)'
    BY <2>1 DEF Recompute, Deleting, del, ChildrenRemain
  <2> QED
    BY <2>2 DEF ConditionsUpToDate
<1>9. Reached(conds.lkr, rows, good)
  <2>1. conds = NoConds => conds.lkr.status # "True"
    BY DEF NoConds, NoCond
  <2> QED
    BY <2>1 DEF StatusInv, LastKnownReconciledBacked, Reached
<1>10. Recorded(rows, gen', good)
  BY <1>4 DEF Recorded
<1>11. Reached(conds'.lkr, rows, good) /\ Unchallenged(conds'.lkr, rows)
  BY <1>1, <1>6, <1>9, <1>10, RecomputeBacked
<1>12. LastKnownReconciledBacked'
  BY <1>11 DEF LastKnownReconciledBacked, Reached, Unchallenged
<1> QED
  BY <1>2, <1>5, <1>7, <1>8, <1>12 DEF StatusInv, NothingBeforeCreate

(* Once the row is gone nothing is claimed any more. *)
LEMMA GoneStep ==
    ASSUME StatusInv, TypeOK', phase' = "gone", conds' = NoConds, gen' = gen, good' = good,
           rows' = rows \/ rows' = [a \in Adapters |-> NoRow]
    PROVE  StatusInv'
<1>1. ~Present'
  BY DEF Present
<1>2. NothingRequiredNothingReconciled'
  BY DEF NothingRequiredNothingReconciled, NoConds, NoCond
<1>3. CASE rows' = rows
  <2>1. ReportsNotAhead'
    BY <1>3 DEF StatusInv, ReportsNotAhead
  <2>2. AgreementRecorded'
    BY <1>3 DEF StatusInv, AgreementRecorded, AllTrueSameGen, AllTrue, Mixed, Usable, GensOf
  <2> QED
    BY <1>1, <1>2, <2>1, <2>2 DEF StatusInv, ConditionsUpToDate, LastKnownReconciledBacked,
                                        NothingBeforeCreate
<1>4. CASE rows' = [a \in Adapters |-> NoRow]
  <2>1. ReportsNotAhead'
    BY <1>4 DEF StatusInv, TypeOK, ReportsNotAhead, NoRow
  <2>2. AgreementRecorded'
    BY <1>4, RequiredAssumption DEF AgreementRecorded, AllTrueSameGen, AllTrue, Usable, NoRow
  <2> QED
    BY <1>1, <1>2, <2>1, <2>2 DEF StatusInv, ConditionsUpToDate, LastKnownReconciledBacked,
                                        NothingBeforeCreate
<1> QED
  BY <1>3, <1>4

(* A handler that leaves conditions alone: a kind with nothing to aggregate,  *)
(* or a step of other resources.                                              *)
LEMMA KeepStep ==
    ASSUME StatusInv, TypeOK', UNCHANGED <<rows, good, conds>>, gen' >= gen,
           Present \/ conds = NoConds \/ UNCHANGED phase, phase' # "unborn" \/ UNCHANGED <<phase, gen>>,
           ~Aggregates \/ UNCHANGED <<phase, gen, updated>>
    PROVE  StatusInv'
<1>1. gen \in Nat /\ gen' \in Nat /\ rows \in [Adapters -> Row]
  BY DEF StatusInv, TypeOK
<1>2. ReportsNotAhead'
  BY <1>1 DEF StatusInv, ReportsNotAhead, TypeOK, Row
<1>3. NothingRequiredNothingReconciled' /\ NothingBeforeCreate'
  BY DEF StatusInv, NothingRequiredNothingReconciled, NothingBeforeCreate
<1>4. CASE ~Aggregates
  <2>1. Required = {}
    BY <1>4 DEF Aggregates
  <2> QED
    BY <1>2, <1>3, <1>4, <2>1 DEF StatusInv, ConditionsUpToDate, LastKnownReconciledBacked,
                                 AgreementRecorded, NothingRequiredNothingReconciled
<1>5. CASE UNCHANGED <<phase, gen, updated>>
  <2>1. AgreementRecorded'
    BY <1>5 DEF StatusInv, AgreementRecorded, AllTrueSameGen, AllTrue, Mixed, Usable, GensOf
  <2>2. ConditionsUpToDate'
    BY <1>5 DEF StatusInv, ConditionsUpToDate, Present, Deleting, Recompute
  <2>3. LastKnownReconciledBacked'
    BY <1>5 DEF StatusInv, LastKnownReconciledBacked, Present
  <2> QED
    BY <1>2, <1>3, <2>1, <2>2, <2>3 DEF StatusInv
<1> QED
  BY <1>4, <1>5

(* A report that is stored and does not end the resource. *)
LEMMA ReportStep ==
    ASSUME StatusInv, TypeOK', NEW a \in Adapters, NEW report \in Reports,
           Present, ~Discarded(report, rows[a]),
           rows' = [rows EXCEPT ![a] = Upsert(rows[a], report)],
           conds' = IF Triggers(report, rows[a])
                    THEN Recompute(rows', gen, updated, Deleting, children) ELSE conds,
           good' = good \cup GoodGens(rows', gen),
           UNCHANGED <<phase, gen, updated, children>>
    PROVE  StatusInv'
<1> DEFINE r == rows'
<1>1. /\ r \in [Adapters -> Row] /\ \A b \in Adapters \ {a} : r[b] = rows[b]
      /\ r[a].gen \in 1 .. gen /\ r[a].gen >= rows[a].gen
      /\ rows[a].gen = 0 => r[a] = report
  <2>1. TypeOK /\ ReportsNotAhead
    BY DEF StatusInv
  <2>2. Stored(r, a, report)
    BY <2>1, UpsertFacts
  <2> QED
    BY <2>2 DEF Stored
<1>2. gen \in Nat /\ updated \in Nat /\ conds \in Conds /\ children \in BOOLEAN
      /\ Deleting \in BOOLEAN /\ rows \in [Adapters -> Row]
  BY DEF StatusInv, TypeOK, Deleting
<1>3. ReportsNotAhead'
  BY <1>1 DEF StatusInv, ReportsNotAhead
<1>4. Recorded(r, gen, good')
  BY DEF Recorded, GoodGens
<1>5. AgreementRecorded'
  BY <1>4 DEF AgreementRecorded, Recorded, AllTrueSameGen, AllTrue, Mixed, Usable, GensOf
<1>6. NothingBeforeCreate'
  BY DEF NothingBeforeCreate, Present
<1>7. Reached(conds.lkr, r, good')
  <2>1. conds.lkr.gen \in Nat /\ \A b \in Required : b \in Adapters /\ rows[b].gen \in Nat
                                                /\ r[b].gen \in Nat
    BY <1>1, <1>2, RequiredAssumption DEF Conds, Cond, Row
  <2>2. \A b \in Required : r[b].gen >= rows[b].gen
    BY <1>1, <2>1
  <2>3. Reached(conds.lkr, rows, good)
    BY DEF StatusInv, LastKnownReconciledBacked, Reached
  <2> QED
    BY <2>1, <2>2, <2>3 DEF Reached
<1> HIDE DEF r
<1>8. CASE Triggers(report, rows[a])
  <2>1. conds' = Recompute(r, gen, updated, Deleting, children)
    BY <1>8 DEF r
  <2>2. NothingRequiredNothingReconciled'
    BY <1>1, <1>2, <2>1, RecomputeNothingRequired DEF NothingRequiredNothingReconciled
  <2>3. conds' = UpdateConditions(conds',
                    AggregateResourceStatus(conds', r, gen, updated, Deleting,
                                            ChildrenRemain(Deleting, children)))
    BY <1>1, <1>2, <2>1, RecomputeFresh
  <2>4. conds' = Recompute(rows, gen, updated, Deleting, children)'
    BY <2>3 DEF Recompute, Deleting, ChildrenRemain, r
  <2>5. ConditionsUpToDate'
    BY <1>2, <2>4 DEF ConditionsUpToDate
  <2>6. Reached(conds'.lkr, r, good') /\ Unchallenged(conds'.lkr, r)
    BY <1>1, <1>2, <1>4, <1>7, <2>1, RecomputeBacked
  <2>7. LastKnownReconciledBacked'
    BY <2>6 DEF LastKnownReconciledBacked, Reached, Unchallenged, r
  <2> QED
    BY <1>3, <1>5, <1>6, <2>2, <2>5, <2>7 DEF StatusInv
<1>9. CASE ~Triggers(report, rows[a])
  <2>1. conds' = conds
    BY <1>9
  <2>2. report.avail = "Unknown" /\ rows[a].gen = 0
    BY <1>9 DEF Triggers, Discarded, Reports
  <2>3. r[a].avail = "Unknown" /\ rows[a].avail = "Unknown"
    BY <1>1, <2>2 DEF StatusInv, ReportsNotAhead
  <2>4. NothingRequiredNothingReconciled'
    BY <2>1 DEF StatusInv, NothingRequiredNothingReconciled
  <2>5. ConditionsUpToDate'
    <3> SUFFICES ASSUME Aggregates PROVE ConditionsUpToDate'
      BY DEF ConditionsUpToDate, Aggregates
    <3>1. PICK kids \in BOOLEAN : conds = Recompute(rows, gen, updated, Deleting, kids)
      BY DEF StatusInv, ConditionsUpToDate
    <3>2. a \notin Usable(rows, gen) /\ a \notin Usable(r, gen)
      BY <2>3 DEF Usable
    <3>3. ChildrenRemain(Deleting, kids) \in BOOLEAN
      BY DEF ChildrenRemain, Deleting
    <3>4. AggregateResourceStatus(conds, r, gen, updated, Deleting, ChildrenRemain(Deleting, kids))
           = AggregateResourceStatus(conds, rows, gen, updated, Deleting,
                                     ChildrenRemain(Deleting, kids))
      BY <1>1, <1>2, <3>2, <3>3, UnusableRowIrrelevant
    <3>5. conds' = Recompute(rows, gen, updated, Deleting, kids)'
      BY <2>1, <3>1, <3>4 DEF Recompute, Deleting, ChildrenRemain, r
    <3> QED
      BY <3>5 DEF ConditionsUpToDate
  <2>6. LastKnownReconciledBacked'
    <3> SUFFICES ASSUME conds.lkr.status = "True", Present' PROVE LastKnownReconciledBacked'
      BY <2>1 DEF LastKnownReconciledBacked
    <3>1. /\ conds.lkr.gen \in good
          /\ \A b \in Required : /\ rows[b].gen >= conds.lkr.gen
                                 /\ rows[b].gen = conds.lkr.gen => rows[b].avail = "True"
      BY DEF StatusInv, LastKnownReconciledBacked
    <3>2. a \notin Required
      BY <2>2, <2>3, <3>1, <1>2 DEF Conds, Cond
    <3>3. \A b \in Required : r[b] = rows[b]
      BY <1>1, <3>2, RequiredAssumption
    <3> QED
      BY <2>1, <3>1, <3>3 DEF LastKnownReconciledBacked, r
  <2> QED
    BY <1>3, <1>5, <1>6, <2>4, <2>5, <2>6 DEF StatusInv
<1> QED
  BY <1>8, <1>9

(* Every handler preserves the invariant. *)
LEMMA StatusInvStep ==
    ASSUME StatusInv, [Next]_vars
    PROVE  StatusInv'
<1>0. TypeOK /\ TypeOK' /\ gen \in Nat
  BY TypeStep DEF StatusInv, TypeOK
<1>1. CASE Create
  <2>0. conds = NoConds /\ gen' >= gen /\ phase' = "active" /\ UNCHANGED <<rows, good>>
    <3>1. conds = NoConds
      BY <1>1 DEF Create, StatusInv, NothingBeforeCreate
    <3>2. gen = 0
      BY <1>1 DEF Create, StatusInv, NothingBeforeCreate
    <3> QED
      BY <1>1, <3>1, <3>2 DEF Create
  <2>1. CASE Aggregates
    BY <1>0, <1>1, <2>0, <2>1, RecomputeStep DEF Create
  <2>2. CASE ~Aggregates
    BY <1>0, <1>1, <2>0, <2>2, KeepStep DEF Create
  <2> QED
    BY <2>1, <2>2
<1>2. CASE Patch
  <2>0. Present /\ gen' >= gen /\ phase' = "active" /\ UNCHANGED <<rows, good>>
    BY <1>0, <1>2 DEF Patch, Present
  <2>1. CASE Aggregates
    <3>1. conds' = Recompute(rows, gen', updated', phase' = "finalizing", children)
      BY <1>2, <2>0, <2>1 DEF Patch
    <3>2. children \in BOOLEAN
      BY <1>0 DEF TypeOK
    <3> QED
      BY <1>0, <2>0, <2>1, <3>1, <3>2, RecomputeStep
  <2>2. CASE ~Aggregates
    BY <1>0, <1>2, <2>0, <2>2, KeepStep DEF Patch
  <2> QED
    BY <2>1, <2>2
<1>3. CASE Delete
  <2>1. Present
    BY <1>3 DEF Delete
  <2>2. ASSUME NEW g \in Nat, g >= gen, SoftDelete(g) PROVE StatusInv'
    <3>1. conds' = Recompute(rows, gen', updated', phase' = "finalizing", children')
      BY <2>2 DEF SoftDelete
    <3>2. children' \in BOOLEAN
      BY <1>0 DEF TypeOK
    <3>3. phase' = "finalizing" /\ gen' >= gen /\ UNCHANGED <<rows, good>>
      BY <2>2 DEF SoftDelete
    <3> QED
      BY <1>0, <2>1, <3>1, <3>2, <3>3, RecomputeStep
  <2>3. CASE HardDelete
    BY <1>0, <2>3, GoneStep DEF HardDelete
  <2> QED
    BY <1>0, <1>3, <2>2, <2>3 DEF Delete
<1>4. CASE ForceDelete
  BY <1>0, <1>4, GoneStep DEF ForceDelete
<1>5. ASSUME NEW a \in Adapters, NEW report \in Reports, ProcessAdapterStatus(a, report)
      PROVE  StatusInv'
  <2> DEFINE r == [rows EXCEPT ![a] = Upsert(rows[a], report)]
  <2>1. CASE CanHardDelete(report, r)
    BY <1>0, <1>5, <2>1, GoneStep DEF ProcessAdapterStatus
  <2>2. CASE ~CanHardDelete(report, r)
    <3>1. /\ Present /\ ~Discarded(report, rows[a])
          /\ rows' = r
          /\ conds' = IF Triggers(report, rows[a])
                      THEN Recompute(rows', gen, updated, Deleting, children) ELSE conds
          /\ good' = good \cup GoodGens(rows', gen)
          /\ UNCHANGED <<phase, gen, updated, children>>
      BY <1>5, <2>2 DEF ProcessAdapterStatus
    <3> QED
      BY <1>0, <3>1, ReportStep
  <2> QED
    BY <2>1, <2>2
<1>6. CASE NoEffect
  BY <1>0, <1>6, KeepStep DEF NoEffect, vars
<1>7. CASE ChildCreated
  BY <1>0, <1>7, KeepStep DEF ChildCreated
<1>8. CASE ChildrenGone
  BY <1>0, <1>8, KeepStep DEF ChildrenGone
<1>9. CASE UNCHANGED vars
  BY <1>0, <1>9, KeepStep DEF vars
<1> QED
  BY <1>1, <1>2, <1>3, <1>4, <1>5, <1>6, <1>7, <1>8, <1>9 DEF Next

(* The invariant holds before the resource exists. *)
LEMMA StatusInvInit == Init => StatusInv
<1> SUFFICES ASSUME Init PROVE StatusInv
  OBVIOUS
<1>1. TypeOK
  <2>1. rows \in [Adapters -> Row]
    BY NoRowsType, Zenon DEF Init
  <2>2. conds \in Conds
    BY NoCondsType DEF Init
  <2> QED
    BY <2>1, <2>2 DEF Init, TypeOK
<1>2. \A a \in Adapters : rows[a].gen = 0 /\ rows[a].avail = "Unknown"
  BY DEF Init, NoRow
<1>3. conds.rec.status = "None" /\ conds.lkr.status = "None"
  BY DEF Init, NoConds, NoCond
<1>4. ~Present
  BY DEF Init, Present
<1>5. ReportsNotAhead
  BY <1>2 DEF Init, ReportsNotAhead
<1>6. AgreementRecorded
  BY <1>2, RequiredAssumption DEF AgreementRecorded, AllTrueSameGen, AllTrue, Usable
<1> QED
  BY <1>1, <1>3, <1>4, <1>5, <1>6
  DEF StatusInv, NothingBeforeCreate, NothingRequiredNothingReconciled, ConditionsUpToDate,
      LastKnownReconciledBacked, Init

(* The inductive invariant holds of every behaviour. *)
THEOREM StatusInvariant == Spec => []StatusInv
<1>1. StatusInv /\ [Next]_vars => StatusInv'
  BY StatusInvStep
<1> QED
  BY StatusInvInit, <1>1, PTL DEF Spec

-----------------------------------------------------------------------------
(* The properties *)

(* Stored conditions are always what a fresh aggregation of the stored        *)
(* reports would write.                                                       *)
THEOREM ConditionsAlwaysUpToDate == Spec => []ConditionsUpToDate
<1>1. StatusInv => ConditionsUpToDate
  BY DEF StatusInv
<1> QED
  BY <1>1, StatusInvariant, PTL

(* LastKnownReconciled=True always names a generation that all required       *)
(* adapters reported True at once and none has contradicted since.            *)
THEOREM LastKnownReconciledAlwaysBacked == Spec => []LastKnownReconciledBacked
<1>1. StatusInv => LastKnownReconciledBacked
  BY DEF StatusInv
<1> QED
  BY <1>1, StatusInvariant, PTL

(* Reconciled=True is always backed by current, sufficiently fresh reports.   *)
THEOREM ReconciledAlwaysBacked == Spec => []ReconciledBacked
<1>1. StatusInv => ReconciledBacked
  <2> SUFFICES ASSUME StatusInv, Present, conds.rec.status = "True" PROVE ReconciledBacked
    BY DEF ReconciledBacked
  <2>1. Aggregates
    BY DEF StatusInv, NothingRequiredNothingReconciled, Aggregates
  <2>2. PICK kids \in BOOLEAN : conds = Recompute(rows, gen, updated, Deleting, kids)
    BY <2>1 DEF StatusInv, ConditionsUpToDate
  <2>3. conds.rec = UpdateCondition(conds.rec, computeReconciled(conds.rec, rows, gen, updated,
                                       Deleting, ChildrenRemain(Deleting, kids)))
    BY <2>2, RecomputeParts
  <2>4. /\ conds.rec \in Cond /\ rows \in [Adapters -> Row] /\ gen \in Nat /\ updated \in Nat
        /\ Deleting \in BOOLEAN /\ ChildrenRemain(Deleting, kids) \in BOOLEAN
    BY DEF StatusInv, TypeOK, Conds, Deleting, ChildrenRemain
  <2> QED
    BY <2>3, <2>4, ReconciledTrue DEF ReconciledBacked
<1> QED
  BY <1>1, StatusInvariant, PTL

(* A kind without required adapters is never reconciled, nor was it ever.     *)
THEOREM NothingRequiredNeverReconciled == Spec => []NothingRequiredNothingReconciled
<1>1. StatusInv => NothingRequiredNothingReconciled
  BY DEF StatusInv
<1> QED
  BY <1>1, StatusInvariant, PTL

-----------------------------------------------------------------------------
(* What a step may never do *)

(* A step of a resource that is there and stays leaves the reports alone or   *)
(* stores one that was not discarded, and leaves the conditions alone or      *)
(* rewrites them all from the reports it leaves.                              *)
LEMMA StepShape ==
    ASSUME StatusInv, [Next]_vars, Present, phase' # "gone"
    PROVE  /\ gen' >= gen
           /\ \/ rows' = rows
              \/ \E a \in Adapters, report \in Reports :
                    /\ ~Discarded(report, rows[a])
                    /\ rows' = [rows EXCEPT ![a] = Upsert(rows[a], report)]
           /\ \/ conds' = conds
              \/ \E ref \in Nat, del, kids \in BOOLEAN :
                    conds' = Recompute(rows', gen', ref, del, kids)
<1>0. gen \in Nat /\ updated \in Nat /\ updated' \in Nat /\ children \in BOOLEAN /\ children' \in BOOLEAN
  BY TypeStep DEF StatusInv, TypeOK
<1>1. CASE Create
  BY <1>1 DEF Create, Present
<1>2. CASE Patch
  <2>1. rows' = rows /\ gen' >= gen
    BY <1>0, <1>2 DEF Patch
  <2>2. conds' = conds \/ conds' = Recompute(rows', gen', updated', FALSE, children)
    BY <1>2, <2>1 DEF Patch
  <2> QED
    BY <1>0, <2>1, <2>2
<1>3. CASE Delete
  <2>1. ~HardDelete
    BY DEF HardDelete
  <2>2. PICK g \in {gen, gen + 1} : SoftDelete(g)
    BY <1>3, <2>1 DEF Delete
  <2>3. conds' = Recompute(rows', gen', updated', TRUE, children') /\ rows' = rows
    BY <2>2 DEF SoftDelete
  <2>4. gen' >= gen
    BY <1>0, <2>2 DEF SoftDelete
  <2> QED
    BY <1>0, <2>3, <2>4
<1>4. CASE ForceDelete
  BY <1>4 DEF ForceDelete
<1>5. ASSUME NEW a \in Adapters, NEW report \in Reports, ProcessAdapterStatus(a, report)
      PROVE  /\ gen' = gen /\ ~Discarded(report, rows[a])
             /\ rows' = [rows EXCEPT ![a] = Upsert(rows[a], report)]
             /\ \/ conds' = conds
                \/ conds' = Recompute(rows', gen', updated, Deleting, children)
  BY <1>5 DEF ProcessAdapterStatus
<1>6. Deleting \in BOOLEAN
  BY DEF Deleting
<1>7. CASE NoEffect \/ ChildCreated \/ ChildrenGone \/ UNCHANGED vars
  BY <1>0, <1>7 DEF NoEffect, ChildCreated, ChildrenGone, vars
<1>8. CASE \E a \in Adapters, report \in Reports : ProcessAdapterStatus(a, report)
  BY <1>0, <1>5, <1>6, <1>8
<1> QED
  BY <1>1, <1>2, <1>3, <1>4, <1>7, <1>8 DEF Next

(* A report that replaces a stored one is newer and says something definite. *)
LEMMA ReportsForward ==
    ASSUME StatusInv, [Next]_vars, Present, phase' # "gone",
           NEW a \in Adapters, rows'[a] # rows[a], rows[a].gen # 0
    PROVE  Newer(rows'[a], rows[a]) /\ rows'[a].avail \in {"True", "False"}
<1>1. rows \in [Adapters -> Row]
  BY DEF StatusInv, TypeOK
<1>2. PICK b \in Adapters, report \in Reports :
         /\ ~Discarded(report, rows[b])
         /\ rows' = [rows EXCEPT ![b] = Upsert(rows[b], report)]
  BY StepShape
<1>3. b = a /\ rows'[a] = report /\ Newer(report, rows[a])
  BY <1>1, <1>2 DEF Upsert
<1>4. report.avail \in {"True", "False"}
  BY <1>2, <1>3 DEF Discarded, Reports
<1> QED
  BY <1>3, <1>4

(* A report that counts goes on counting. *)
LEMMA UsableGrows ==
    ASSUME StatusInv, [Next]_vars, Present, phase' # "gone",
           NEW a \in Usable(rows, gen)
    PROVE  a \in Usable(rows', gen')
<1>1. /\ gen' >= gen /\ gen \in Nat /\ gen' \in Nat
      /\ rows \in [Adapters -> Row] /\ rows' \in [Adapters -> Row]
  BY StepShape, TypeStep DEF StatusInv, TypeOK
<1>2. a \in Adapters /\ a \in Required
  BY RequiredAssumption DEF Usable
<1>3. rows'[a].gen \in Nat /\ rows[a].gen \in Nat
  BY <1>1, <1>2 DEF Row
<1>4. rows'[a].gen <= gen'
  BY <1>2, StatusInvStep DEF StatusInv, ReportsNotAhead
<1>5. CASE rows'[a] = rows[a]
  BY <1>1, <1>2, <1>3, <1>4, <1>5 DEF Usable
<1>6. CASE rows'[a] # rows[a]
  <2>1. rows[a].gen # 0
    BY DEF Usable
  <2>2. Newer(rows'[a], rows[a]) /\ rows'[a].avail \in {"True", "False"}
    BY <1>2, <1>6, <2>1, ReportsForward
  <2> QED
    BY <1>2, <1>3, <1>4, <2>1, <2>2 DEF Usable, Newer
<1> QED
  BY <1>5, <1>6

(* A stored report is only ever replaced by a newer one that does not know    *)
(* less, however late, repeated or out of order reports arrive.               *)
THEOREM ReportsAlwaysMoveForward == Spec => ReportsMoveForward
<1>1. StatusInv /\ [Next]_vars =>
        [Present /\ phase' # "gone" =>
            \A a \in Adapters : rows'[a] # rows[a] /\ rows[a].gen # 0 =>
                Newer(rows'[a], rows[a]) /\ rows'[a].avail # "Unknown"]_vars
  BY ReportsForward
<1> QED
  BY <1>1, StatusInvariant, PTL DEF Spec, ReportsMoveForward

(* The per-adapter conditions a handler writes are those of reports that count. *)
LEMMA RecomputeAdapters ==
    ASSUME conds \in Conds,
           NEW r \in [Adapters -> Row], NEW g \in Nat, NEW refTime \in Nat,
           NEW deleting \in BOOLEAN, NEW kids \in BOOLEAN,
           NEW c, c = Recompute(r, g, refTime, deleting, kids), NEW a \in Adapters
    PROVE  /\ a \notin Usable(r, g) => c.adp[a] = NoCond
           /\ a \in Usable(r, g) =>
                 c.adp[a] = UpdateCondition(conds.adp[a],
                               computeAdapterCondition(conds.adp[a], r[a], refTime))
<1>1. c.adp[a] = UpdateCondition(conds.adp[a],
                    IF a \in Usable(r, g)
                    THEN computeAdapterCondition(conds.adp[a], r[a], refTime) ELSE NoCond)
  BY DEF Recompute, UpdateConditions, AggregateResourceStatus
<1>2. UpdateCondition(conds.adp[a], NoCond) = NoCond
  BY DEF UpdateCondition, NoCond
<1> QED
  BY <1>1, <1>2

(* A per-adapter condition exists only while the adapter's report counts. *)
THEOREM AdapterConditionsAlwaysReported == Spec => []AdapterConditionsReported
<1>1. Init => AdapterConditionsReported
  BY DEF Init, AdapterConditionsReported, NoConds, NoCond
<1>2. StatusInv /\ AdapterConditionsReported /\ [Next]_vars => AdapterConditionsReported'
  <2> SUFFICES ASSUME StatusInv, AdapterConditionsReported, [Next]_vars,
                      NEW a \in Adapters, conds'.adp[a].status # "None"
               PROVE  a \in Usable(rows', gen')
    BY DEF AdapterConditionsReported, Usable
  <2>0. TypeOK /\ TypeOK'
    BY TypeStep DEF StatusInv
  <2>1. conds' # NoConds
    BY DEF NoConds, NoCond
  <2>2. CASE Present /\ phase' # "gone"
    <3>1. CASE conds' = conds
      BY <2>2, <3>1, UsableGrows DEF AdapterConditionsReported
    <3>2. CASE conds' # conds
      <4>1. PICK ref \in Nat, del \in BOOLEAN, kids \in BOOLEAN :
               conds' = Recompute(rows', gen', ref, del, kids)
        BY <2>2, <3>2, StepShape
      <4> QED
        BY <2>0, <2>1, <4>1, RecomputeAdapters DEF TypeOK, NoCond
    <3> QED
      BY <3>1, <3>2
  <2>3. CASE Present /\ phase' = "gone"
    <3>1. conds' = NoConds
      <4>1. ~Create /\ ~Patch /\ ~ChildCreated
        BY <2>3 DEF Create, Patch, ChildCreated
      <4>2. ~NoEffect /\ ~ChildrenGone /\ ~UNCHANGED vars
        BY <2>3 DEF NoEffect, ChildrenGone, vars, Present
      <4>3. Delete => conds' = NoConds
        BY <2>3 DEF Delete, SoftDelete, HardDelete
      <4>4. ForceDelete => conds' = NoConds
        BY DEF ForceDelete
      <4>5. ASSUME NEW b \in Adapters, NEW report \in Reports, ProcessAdapterStatus(b, report)
            PROVE  conds' = NoConds
        BY <2>3, <4>5 DEF ProcessAdapterStatus, Present
      <4> QED
        BY <4>1, <4>2, <4>3, <4>4, <4>5 DEF Next
    <3> QED
      BY <2>1, <3>1
  <2>4. CASE ~Present
    <3>1. CASE Create
      <4>1. conds \in Conds /\ rows \in [Adapters -> Row] /\ updated' \in Nat /\ gen' = 1 /\ rows' = rows
        BY <2>0, <3>1 DEF TypeOK, Create
      <4>2. conds = NoConds
        BY <3>1 DEF Create, StatusInv, NothingBeforeCreate
      <4>3. conds' = Recompute(rows', gen', updated', FALSE, FALSE)
        BY <2>1, <3>1, <4>1, <4>2 DEF Create
      <4>4. PICK ref \in Nat, del \in BOOLEAN, kids \in BOOLEAN :
               conds' = Recompute(rows', gen', ref, del, kids)
        BY <4>1, <4>3
      <4> QED
        BY <2>0, <4>4, RecomputeAdapters DEF TypeOK, NoCond
    <3>2. CASE UNCHANGED <<conds, rows, gen>>
      BY <3>2 DEF AdapterConditionsReported, Usable
    <3>3. Create \/ UNCHANGED <<conds, rows, gen>>
      BY <2>4 DEF Next, Patch, Delete, ForceDelete, ProcessAdapterStatus, NoEffect, ChildCreated,
                  ChildrenGone, Present, Deleting, vars
    <3> QED
      BY <3>1, <3>2, <3>3
  <2> QED
    BY <2>2, <2>3, <2>4
<1> QED
  BY <1>1, <1>2, StatusInvariant, PTL DEF Spec

(* Writing over a condition keeps its creation time, and its transition time  *)
(* unless its status changes.                                                 *)
LEMMA UpdateKeepsTimes ==
    ASSUME NEW old \in Cond, NEW new \in Cond, new.status # "None",
           NEW c, c = UpdateCondition(old, new)
    PROVE  KeepsItsTimes(old, c)
BY UpdateConditionFields DEF KeepsItsTimes

(* Through every aggregation and rewrite a condition that exists stays, keeps *)
(* its creation time, and its last_transition_time moves only when its status *)
(* does.                                                                      *)
THEOREM TransitionTimesAlwaysHonest == Spec => TransitionTimesHonest
<1> DEFINE A == Present /\ phase' # "gone" =>
                  /\ KeepsItsTimes(conds.rec, conds'.rec)
                  /\ KeepsItsTimes(conds.lkr, conds'.lkr)
                  /\ \A a \in Adapters : KeepsItsTimes(conds.adp[a], conds'.adp[a])
<1>1. StatusInv /\ AdapterConditionsReported /\ [Next]_vars => [A]_vars
  <2> SUFFICES ASSUME StatusInv, AdapterConditionsReported, [Next]_vars, Present, phase' # "gone"
               PROVE  /\ KeepsItsTimes(conds.rec, conds'.rec)
                      /\ KeepsItsTimes(conds.lkr, conds'.lkr)
                      /\ \A a \in Adapters : KeepsItsTimes(conds.adp[a], conds'.adp[a])
    OBVIOUS
  <2>1. CASE conds' = conds
    BY <2>1 DEF KeepsItsTimes
  <2>2. CASE conds' # conds
    <3>1. PICK ref \in Nat, del \in BOOLEAN, kids \in BOOLEAN :
             conds' = Recompute(rows', gen', ref, del, kids)
      BY <2>2, StepShape
    <3>2. /\ conds \in Conds /\ rows' \in [Adapters -> Row] /\ gen' \in Nat
          /\ ChildrenRemain(del, kids) \in BOOLEAN
      BY TypeStep DEF StatusInv, TypeOK, ChildrenRemain
    <3>3. conds.rec \in Cond /\ conds.lkr \in Cond /\ \A a \in Adapters : conds.adp[a] \in Cond
      BY <3>2 DEF Conds
    <3>4. KeepsItsTimes(conds.rec, conds'.rec)
      BY <3>1, <3>2, <3>3, RecomputeParts, ReconciledType, UpdateKeepsTimes
    <3>5. KeepsItsTimes(conds.lkr, conds'.lkr)
      BY <3>1, <3>2, <3>3, RecomputeParts, LKRType, UpdateKeepsTimes
    <3>6. ASSUME NEW a \in Adapters, conds.adp[a].status # "None"
          PROVE  KeepsItsTimes(conds.adp[a], conds'.adp[a])
      <4>1. a \in Usable(rows', gen')
        BY <3>6, UsableGrows DEF AdapterConditionsReported
      <4> DEFINE new == computeAdapterCondition(conds.adp[a], rows'[a], ref)
      <4>2. conds'.adp[a] = UpdateCondition(conds.adp[a], new)
        BY <3>1, <3>2, <4>1, RecomputeAdapters
      <4>3. new \in Cond
        BY <3>2, <3>3, <4>1, AdapterConditionType
      <4>4. new.status # "None"
        BY <4>1 DEF computeAdapterCondition, Usable
      <4> QED
        BY <3>3, <4>2, <4>3, <4>4, UpdateKeepsTimes
    <3>7. \A a \in Adapters : KeepsItsTimes(conds.adp[a], conds'.adp[a])
      BY <3>6 DEF KeepsItsTimes
    <3> QED
      BY <3>4, <3>5, <3>7
  <2> QED
    BY <2>1, <2>2
<1> QED
  BY <1>1, StatusInvariant, AdapterConditionsAlwaysReported, PTL DEF Spec, TransitionTimesHonest

(* LastKnownReconciled is lost only to a report just stored that says False   *)
(* at the tracked generation: never to a spec change, to a deletion mark or   *)
(* to a failure at another generation.                                        *)
THEOREM LastKnownReconciledAlwaysSticky == Spec => LastKnownReconciledSticky
<1>1. StatusInv /\ [Next]_vars =>
        [/\ Present /\ phase' # "gone"
         /\ conds.lkr.status = "True" /\ conds'.lkr.status # "True"
         => \E a \in Required : /\ rows'[a] # rows[a]
                                /\ rows'[a].gen = conds.lkr.gen
                                /\ rows'[a].avail = "False"]_vars
  <2> SUFFICES ASSUME StatusInv, [Next]_vars, Present, phase' # "gone",
                      conds.lkr.status = "True", conds'.lkr.status # "True"
               PROVE  \E a \in Required : /\ rows'[a] # rows[a]
                                          /\ rows'[a].gen = conds.lkr.gen
                                          /\ rows'[a].avail = "False"
    OBVIOUS
  <2>1. PICK ref \in Nat, del \in BOOLEAN, kids \in BOOLEAN :
           conds' = Recompute(rows', gen', ref, del, kids)
    BY StepShape
  <2>2. /\ conds \in Conds /\ conds.lkr \in Cond /\ gen \in Nat /\ gen' \in Nat /\ updated \in Nat
        /\ rows \in [Adapters -> Row] /\ rows' \in [Adapters -> Row]
    BY TypeStep DEF StatusInv, TypeOK, Conds
  <2>3. Required # {} /\ Usable(rows, gen) = Required
    <3>1. Required # {}
      BY DEF StatusInv, NothingRequiredNothingReconciled
    <3>2. PICK k \in BOOLEAN : conds = Recompute(rows, gen, updated, Deleting, k)
      BY <3>1 DEF StatusInv, ConditionsUpToDate, Aggregates
    <3>3. conds.lkr = UpdateCondition(conds.lkr,
                         computeLastKnownReconciled(conds.lkr, rows, gen, updated))
      BY <3>2, RecomputeParts
    <3> QED
      BY <2>2, <3>3, LKRTrue
  <2>4. Usable(rows', gen') = Required
    BY <2>3, UsableGrows DEF Usable
  <2> DEFINE new == computeLastKnownReconciled(conds.lkr, rows', gen', ref)
  <2>5. new \in Cond /\ new.status # "None"
    BY <2>2, LKRType
  <2>6. conds'.lkr = UpdateCondition(conds.lkr, new)
    BY <2>1, RecomputeParts
  <2>7. conds'.lkr.status = new.status
    <3> HIDE DEF new
    <3> QED
      BY <2>2, <2>5, <2>6, UpdateConditionFields
  <2>8. LKRStatus(conds.lkr, rows', gen') # "True"
    BY <2>7 DEF computeLastKnownReconciled
  <2>9. FalseAt(rows', gen', conds.lkr.gen)
    BY <2>3, <2>4, <2>8 DEF LKRStatus, HasMissingAdapter
  <2>10. PICK a \in Required : rows'[a].gen = conds.lkr.gen /\ rows'[a].avail = "False"
    BY <2>4, <2>9 DEF FalseAt, AtGen
  <2>11. rows[a].gen = conds.lkr.gen => rows[a].avail = "True"
    BY DEF StatusInv, LastKnownReconciledBacked
  <2>12. rows'[a] # rows[a]
    BY <2>10, <2>11
  <2> QED
    BY <2>10, <2>12
<1> QED
  BY <1>1, StatusInvariant, PTL DEF Spec, LastKnownReconciledSticky
=============================================================================

-------------------------- MODULE MigrationLockProofs --------------------------
(***************************************************************************)
(* Proofs about MigrationLock for any number of pods, any length of        *)
(* MigrationList and any size of the connection pool.                      *)
(***************************************************************************)
EXTENDS MigrationLock, TLAPS

(* Nobody has begun. *)
LEMMA MigrationInit ==
    ASSUME Init PROVE MigrationInv
<1>1. TypeOK
  BY MigrationAssumption DEF Init, TypeOK
<1>2. LockHeld /\ KeepsItsPlace
  BY DEF Init, LockHeld, KeepsItsPlace, Running
<1>3. SchemaIsAPrefix
  BY MigrationAssumption DEF Init, SchemaIsAPrefix
<1> QED
  BY <1>1, <1>2, <1>3 DEF MigrationInv

(* Every step keeps the variables well formed. *)
LEMMA TypeStep ==
    ASSUME MigrationInv, [Next]_vars
    PROVE  TypeOK'
<1> USE MigrationAssumption DEF MigrationInv, TypeOK
<1>1. ASSUME NEW p \in Pods, Begin(p) \/ LockTimeout(p) PROVE TypeOK'
  BY <1>1 DEF Begin, LockTimeout
<1>2. ASSUME NEW p \in Pods, Acquire(p) PROVE TypeOK'
  <2>1. 1 \in 1 .. N + 1
    OBVIOUS
  <2> QED
    BY <1>2, <2>1 DEF Acquire
<1>3. ASSUME NEW p \in Pods, LoseLock(p) \/ Unlock(p) PROVE TypeOK'
  BY <1>3 DEF LoseLock, Unlock
<1>4. ASSUME NEW p \in Pods, Check(p) PROVE TypeOK'
  BY <1>4 DEF Check
<1>5. ASSUME NEW p \in Pods, Execute(p) PROVE TypeOK'
  <2>1. at[p] \in 1 .. N
    BY <1>5 DEF Execute, KeepsItsPlace
  <2> QED
    BY <1>5, <2>1 DEF Execute
<1>6. ASSUME NEW p \in Pods, Record(p) PROVE TypeOK'
  <2>1. at[p] \in 1 .. N /\ at[p] + 1 \in 1 .. N + 1
    BY <1>6 DEF Record, KeepsItsPlace
  <2> QED
    BY <1>6, <2>1 DEF Record
<1>7. ASSUME NEW p \in Pods, MigrationError(p) \/ Crash(p) \/ Restart(p) PROVE TypeOK'
  BY <1>7 DEF MigrationError, Crash, Restart
<1>8. CASE UNCHANGED vars
  BY <1>8 DEF vars
<1> QED
  BY <1>1, <1>2, <1>3, <1>4, <1>5, <1>6, <1>7, <1>8 DEF Next, Work, AllDone

(* Every step keeps the lock with one pod. *)
LEMMA LockStep ==
    ASSUME MigrationInv, [Next]_vars
    PROVE  LockHeld'
<1> USE DEF MigrationInv, TypeOK, LockHeld, Running
<1>1. ASSUME NEW p \in Pods, Begin(p) \/ LockTimeout(p) \/ Restart(p) PROVE LockHeld'
  BY <1>1 DEF Begin, LockTimeout, Restart
<1>2. ASSUME NEW p \in Pods, Acquire(p) PROVE LockHeld'
  BY <1>2 DEF Acquire
<1>3. ASSUME NEW p \in Pods, LoseLock(p) PROVE LockHeld'
  BY <1>3 DEF LoseLock
<1>4. ASSUME NEW p \in Pods, Unlock(p) \/ Crash(p) PROVE LockHeld'
  BY <1>4 DEF Unlock, Crash
<1>5. ASSUME NEW p \in Pods, Check(p) \/ Execute(p) \/ Record(p) \/ MigrationError(p)
      PROVE  LockHeld'
  BY <1>5 DEF Check, Execute, Record, MigrationError
<1>6. CASE UNCHANGED vars
  BY <1>6 DEF vars
<1> QED
  BY <1>1, <1>2, <1>3, <1>4, <1>5, <1>6 DEF Next, Work, AllDone

(* Every step leaves each pod where the records allow it to be. *)
LEMMA PlaceStep ==
    ASSUME MigrationInv, [Next]_vars
    PROVE  KeepsItsPlace'
<1> USE MigrationAssumption DEF MigrationInv, TypeOK, KeepsItsPlace, Running
<1>1. ASSUME NEW p \in Pods, Begin(p) \/ LockTimeout(p) \/ Restart(p) \/ LoseLock(p)
      PROVE  KeepsItsPlace'
  BY <1>1 DEF Begin, LockTimeout, Restart, LoseLock
<1>2. ASSUME NEW p \in Pods, Acquire(p) PROVE KeepsItsPlace'
  BY <1>2 DEF Acquire
<1>3. ASSUME NEW p \in Pods, Unlock(p) PROVE KeepsItsPlace'
  BY <1>3 DEF Unlock
<1>4. ASSUME NEW p \in Pods, Crash(p) \/ MigrationError(p) PROVE KeepsItsPlace'
  BY <1>4 DEF Crash, MigrationError
<1>5. ASSUME NEW p \in Pods, Check(p) PROVE KeepsItsPlace'
  BY <1>5 DEF Check
<1>6. ASSUME NEW p \in Pods, Execute(p) PROVE KeepsItsPlace'
  BY <1>6 DEF Execute
<1>7. ASSUME NEW p \in Pods, Record(p) PROVE KeepsItsPlace'
  BY <1>7 DEF Record
<1>8. CASE UNCHANGED vars
  BY <1>8 DEF vars
<1> QED
  BY <1>1, <1>2, <1>3, <1>4, <1>5, <1>6, <1>7, <1>8 DEF Next, Work, AllDone

(* Executing a migration, again or for the first time, extends the prefix by  *)
(* at most one.                                                               *)
LEMMA ExecutePrefix ==
    ASSUME MigrationInv, NEW p \in Pods, Execute(p)
    PROVE  SchemaIsAPrefix'
<1>1. PICK k \in 0 .. N : recorded = 1 .. k /\ applied \in {1 .. k, 1 .. k + 1}
  BY DEF MigrationInv, SchemaIsAPrefix
<1>2. at[p] \in 1 .. k + 1
  BY <1>1, MigrationAssumption DEF MigrationInv, TypeOK, KeepsItsPlace, Running, Execute
<1>3. applied' \in {1 .. k, 1 .. k + 1} /\ recorded' = 1 .. k
  BY <1>1, <1>2, MigrationAssumption DEF Execute
<1> QED
  BY <1>3 DEF SchemaIsAPrefix

(* Recording one brings the bookkeeping up to the schema. *)
LEMMA RecordPrefix ==
    ASSUME MigrationInv, NEW p \in Pods, Record(p)
    PROVE  SchemaIsAPrefix'
<1>1. PICK k \in 0 .. N : recorded = 1 .. k /\ applied \in {1 .. k, 1 .. k + 1}
  BY DEF MigrationInv, SchemaIsAPrefix
<1>2. at[p] \in 1 .. k + 1 /\ at[p] <= N /\ at[p] \in applied
  BY <1>1, MigrationAssumption DEF MigrationInv, TypeOK, KeepsItsPlace, Running, Record
<1>3. CASE at[p] \in recorded
  BY <1>1, <1>3 DEF Record, SchemaIsAPrefix
<1>4. CASE at[p] \notin recorded
  <2>1. at[p] = k + 1 /\ k + 1 \in 0 .. N
    BY <1>1, <1>2, <1>4, MigrationAssumption
  <2>2. applied = 1 .. k + 1
    BY <1>1, <1>2, <2>1
  <2>3. recorded' = 1 .. k + 1 /\ applied' = 1 .. k + 1
    <3>1. recorded' = (1 .. k) \cup {k + 1} /\ applied' = applied
      BY <1>1, <1>4, <2>1 DEF Record
    <3>2. (1 .. k) \cup {k + 1} = 1 .. k + 1
      BY MigrationAssumption
    <3> QED
      BY <2>2, <3>1, <3>2
  <2> QED
    BY <2>1, <2>3 DEF SchemaIsAPrefix
<1> QED
  BY <1>3, <1>4

(* Only executing and recording touch the schema. *)
LEMMA PrefixStep ==
    ASSUME MigrationInv, [Next]_vars
    PROVE  SchemaIsAPrefix'
<1>1. ASSUME UNCHANGED <<applied, recorded>> PROVE SchemaIsAPrefix'
  BY <1>1 DEF MigrationInv, SchemaIsAPrefix
<1>2. ASSUME NEW p \in Pods, Begin(p) \/ Acquire(p) \/ LockTimeout(p) \/ LoseLock(p) \/ Unlock(p)
                               \/ Check(p) \/ MigrationError(p) \/ Crash(p) \/ Restart(p)
      PROVE  UNCHANGED <<applied, recorded>>
  BY <1>2 DEF Begin, Acquire, LockTimeout, LoseLock, Unlock, Check, MigrationError, Crash, Restart
<1>3. CASE UNCHANGED vars
  BY <1>1, <1>3 DEF vars
<1> QED
  BY <1>1, <1>2, <1>3, ExecutePrefix, RecordPrefix DEF Next, Work, AllDone

(* The inductive invariant of concurrent migrations.                          *)
THEOREM MigrationInvariant == Spec => []MigrationInv
<1>1. Init => MigrationInv
  BY MigrationInit
<1>2. MigrationInv /\ [Next]_vars => MigrationInv'
  BY TypeStep, LockStep, PlaceStep, PrefixStep DEF MigrationInv
<1> QED
  BY <1>1, <1>2, PTL DEF Spec

(* Every pod is at a defined point of a run and at a migration of the list,    *)
(* or just past its end.                                                      *)
THEOREM TypeCorrect == Spec => []TypeOK
<1>1. MigrationInv => TypeOK
  BY DEF MigrationInv
<1> QED
  BY <1>1, MigrationInvariant, PTL

(* The advisory lock excludes: two pods migrate at once only if the lock's     *)
(* connection of one of them broke.                                           *)
THEOREM AlwaysOneAtATime == Spec => []OneAtATime
<1>1. MigrationInv => OneAtATime
  BY DEF MigrationInv, LockHeld, OneAtATime
<1> QED
  BY <1>1, MigrationInvariant, PTL

(* Even then, and wherever pods crash, the schema is a prefix of the list and *)
(* the migrations table at most one behind it.                                *)
THEOREM SchemaAlwaysAPrefix == Spec => []SchemaIsAPrefix
<1>1. MigrationInv => SchemaIsAPrefix
  BY DEF MigrationInv
<1> QED
  BY <1>1, MigrationInvariant, PTL

(* A pod reports success only when every migration is applied and recorded.   *)
THEOREM DoneAlwaysMeansMigrated == Spec => []DoneMeansMigrated
<1>1. MigrationInv => DoneMeansMigrated
  <2> SUFFICES ASSUME MigrationInv, NEW p \in Pods, pc[p] = "done"
               PROVE  recorded = 1 .. N
    BY DEF DoneMeansMigrated
  <2>1. at[p] = N + 1 /\ 1 .. N \subseteq recorded
    BY MigrationAssumption DEF MigrationInv, TypeOK, KeepsItsPlace
  <2> QED
    BY <2>1 DEF MigrationInv, TypeOK
<1> QED
  BY <1>1, MigrationInvariant, PTL
=============================================================================

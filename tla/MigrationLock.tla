----------------------------- MODULE MigrationLock -----------------------------
(***************************************************************************)
(* Pods of a rolling deployment running `hyperfleet-api migrate` at the    *)
(* same time: MigrateWithLock (pkg/db/migrations.go) under the advisory    *)
(* lock of pkg/db/advisory_locks.go and pkg/db/context.go.                 *)
(*                                                                         *)
(* The lock lives in a transaction of its own that keeps one connection of *)
(* the pod's pool until the end; the migrations run, statement by          *)
(* statement and outside any transaction, on another.  The server releases *)
(* the lock when that transaction ends, for whatever reason: commit, crash *)
(* of the pod, or the loss of just that connection, which the pod does not *)
(* notice before it unlocks.  An init container that fails is restarted.   *)
(***************************************************************************)
EXTENDS Integers, FiniteSets

CONSTANTS
    Pods,
    N,         \* length of MigrationList
    PoolSize   \* Pool.MaxConnections

ASSUME MigrationAssumption == N \in Nat \ {0} /\ PoolSize \in Nat \ {0}

VARIABLES
    pc,        \* pc[p]: where the pod is
    at,        \* at[p]: the migration it is working on
    holder,    \* pods holding the advisory lock
    lost,      \* pods whose lock transaction is gone while they run
    applied,   \* migrations whose statements have taken effect
    recorded   \* rows of the migrations table

vars == <<pc, at, holder, lost, applied, recorded>>

Running(p) == pc[p] \in {"checking", "executing", "recording"}

TypeOK ==
    /\ pc \in [Pods -> {"idle", "waiting", "checking", "executing", "recording",
                        "unlocking", "done", "failed"}]
    /\ at \in [Pods -> 1 .. N + 1]
    /\ holder \subseteq Pods
    /\ lost \subseteq Pods
    /\ applied \subseteq 1 .. N
    /\ recorded \subseteq 1 .. N

Init ==
    /\ pc = [p \in Pods |-> "idle"]
    /\ at = [p \in Pods |-> 1]
    /\ holder = {}
    /\ lost = {}
    /\ applied = {}
    /\ recorded = {}

-----------------------------------------------------------------------------
(* The lock. *)

\* newAdvisoryLock begins the lock's transaction: one connection of the pool.
Begin(p) ==
    /\ pc[p] = "idle"
    /\ pc' = [pc EXCEPT ![p] = "waiting"]
    /\ UNCHANGED <<at, holder, lost, applied, recorded>>

\* Mutant: the lock is taken with a key of the pod's own.
AcquireOwnKey(p) ==
    /\ pc[p] = "waiting"
    /\ holder' = holder \cup {p}
    /\ pc' = [pc EXCEPT ![p] = "checking"]
    /\ at' = [at EXCEPT ![p] = 1]
    /\ UNCHANGED <<lost, applied, recorded>>

\* pg_advisory_xact_lock returns.
Acquire(p) ==
    /\ pc[p] = "waiting"
    /\ holder = {}
    /\ holder' = {p}
    /\ pc' = [pc EXCEPT ![p] = "checking"]
    /\ at' = [at EXCEPT ![p] = 1]
    /\ UNCHANGED <<lost, applied, recorded>>

\* The statement timeout ends the wait; the transaction is rolled back.
LockTimeout(p) ==
    /\ pc[p] = "waiting"
    /\ holder # {}
    /\ pc' = [pc EXCEPT ![p] = "failed"]
    /\ UNCHANGED <<at, holder, lost, applied, recorded>>

\* The lock's connection breaks; the pod works on.
LoseLock(p) ==
    /\ Running(p) /\ p \in holder
    /\ holder' = holder \ {p}
    /\ lost' = lost \cup {p}
    /\ UNCHANGED <<pc, at, applied, recorded>>

\* Mutant: the error of Migrate is not returned.
UnlockAlwaysDone(p) ==
    /\ pc[p] = "unlocking"
    /\ holder' = holder \ {p}
    /\ lost' = lost \ {p}
    /\ pc' = [pc EXCEPT ![p] = "done"]
    /\ UNCHANGED <<at, applied, recorded>>

\* Unlock, deferred: runs after success and after failure; a commit that fails
\* is only logged.
Unlock(p) ==
    /\ pc[p] = "unlocking"
    /\ holder' = holder \ {p}
    /\ lost' = lost \ {p}
    /\ pc' = [pc EXCEPT ![p] = IF at[p] > N THEN "done" ELSE "failed"]
    /\ UNCHANGED <<at, applied, recorded>>

-----------------------------------------------------------------------------
(* gormigrate, in the order of MigrationList. *)

\* A connection besides the lock's own is free.
HasConnection == PoolSize > 1

\* Mutant: one migration too many.
CheckOneMore(p) ==
    /\ pc[p] = "checking" /\ HasConnection
    /\ \/ at[p] > N /\ at' = [at EXCEPT ![p] = @ + 1]
          /\ pc' = [pc EXCEPT ![p] = "unlocking"]
       \/ at[p] <= N /\ at[p] \in recorded
          /\ at' = [at EXCEPT ![p] = @ + 1] /\ UNCHANGED pc
       \/ at[p] <= N /\ at[p] \notin recorded
          /\ pc' = [pc EXCEPT ![p] = "executing"] /\ UNCHANGED at
    /\ UNCHANGED <<holder, lost, applied, recorded>>

Check(p) ==
    /\ pc[p] = "checking" /\ HasConnection
    /\ \/ at[p] > N /\ pc' = [pc EXCEPT ![p] = "unlocking"] /\ UNCHANGED at
       \/ at[p] <= N /\ at[p] \in recorded
          /\ at' = [at EXCEPT ![p] = @ + 1] /\ UNCHANGED pc
       \/ at[p] <= N /\ at[p] \notin recorded
          /\ pc' = [pc EXCEPT ![p] = "executing"] /\ UNCHANGED at
    /\ UNCHANGED <<holder, lost, applied, recorded>>

\* Every statement is IF NOT EXISTS, or replaces what is there.
Execute(p) ==
    /\ pc[p] = "executing"
    /\ applied' = applied \cup {at[p]}
    /\ pc' = [pc EXCEPT ![p] = "recording"]
    /\ UNCHANGED <<at, holder, lost, recorded>>

\* The insert into the migrations table; its primary key refuses a second one.
Record(p) ==
    /\ pc[p] = "recording"
    /\ IF at[p] \in recorded
       THEN pc' = [pc EXCEPT ![p] = "unlocking"] /\ UNCHANGED <<at, recorded>>
       ELSE /\ recorded' = recorded \cup {at[p]}
            /\ at' = [at EXCEPT ![p] = @ + 1]
            /\ pc' = [pc EXCEPT ![p] = "checking"]
    /\ UNCHANGED <<holder, lost, applied>>

\* Mutant: a failed migration is skipped.
MigrationSkipped(p) ==
    /\ Running(p) /\ HasConnection
    /\ at[p] <= N
    /\ at' = [at EXCEPT ![p] = @ + 1]
    /\ pc' = [pc EXCEPT ![p] = "checking"]
    /\ UNCHANGED <<holder, lost, applied, recorded>>

\* A statement fails.
MigrationError(p) ==
    /\ Running(p) /\ HasConnection
    /\ at[p] <= N
    /\ pc' = [pc EXCEPT ![p] = "unlocking"]
    /\ UNCHANGED <<at, holder, lost, applied, recorded>>

-----------------------------------------------------------------------------
\* Mutant: a session lock that outlives the transaction.
CrashKeepsLock(p) ==
    /\ pc[p] \notin {"idle", "done", "failed"}
    /\ pc' = [pc EXCEPT ![p] = "failed"]
    /\ UNCHANGED <<at, holder, lost, applied, recorded>>

Crash(p) ==
    /\ pc[p] \notin {"idle", "done", "failed"}
    /\ pc' = [pc EXCEPT ![p] = "failed"]
    /\ holder' = holder \ {p}
    /\ lost' = lost \ {p}
    /\ UNCHANGED <<at, applied, recorded>>

Restart(p) ==
    /\ pc[p] = "failed"
    /\ pc' = [pc EXCEPT ![p] = "idle"]
    /\ UNCHANGED <<at, holder, lost, applied, recorded>>

AllDone == (\A p \in Pods : pc[p] = "done") /\ UNCHANGED vars

Work(p) == Begin(p) \/ Acquire(p) \/ Check(p) \/ Execute(p) \/ Record(p) \/ Unlock(p)

Next ==
    \/ \E p \in Pods : \/ Work(p)
                       \/ LockTimeout(p)
                       \/ LoseLock(p)
                       \/ MigrationError(p)
                       \/ Crash(p)
                       \/ Restart(p)
    \/ AllDone

\* Pods run and are restarted; the server grants a free lock; crashes, broken
\* connections and failing statements come to an end.
Spec ==
    /\ Init /\ [][Next]_vars
    /\ \A p \in Pods : WF_vars(Work(p)) /\ WF_vars(Restart(p))
    /\ <>[][\A p \in Pods : ~LoseLock(p) /\ ~MigrationError(p) /\ ~Crash(p)]_vars

-----------------------------------------------------------------------------
(* Properties *)

\* The advisory lock's promise: two pods migrate at once only if one of them
\* has lost its lock connection without noticing.
OneAtATime ==
    \A p, q \in Pods : p # q /\ Running(p) /\ Running(q) => p \in lost \/ q \in lost

\* Wherever crashes, lost locks and errors stop a run, the schema is a prefix of
\* MigrationList and the bookkeeping is at most one migration behind it, so
\* that the next run resumes correctly.
SchemaIsAPrefix ==
    \E k \in 0 .. N : recorded = 1 .. k /\ applied \in {1 .. k, 1 .. k + 1}

\* A pod that reports success leaves no migration undone.
DoneMeansMigrated == \A p \in Pods : pc[p] = "done" => recorded = 1 .. N

\* The database is migrated in the end, without anyone's help.
EventuallyMigrated == <>(recorded = 1 .. N)

-----------------------------------------------------------------------------
(* The inductive invariant. *)

\* One pod has the lock; whoever works with it has it, or has lost it unnoticed.
LockHeld ==
    /\ \A p, q \in holder : p = q
    /\ \A p \in Pods : Running(p) => p \in holder \cup lost

\* Wherever another pod may have got to in the meantime: what is before a pod's
\* place is recorded, what it is about to record is applied, and it leaves the
\* end of the list only behind everybody's records.
KeepsItsPlace ==
    \A p \in Pods :
        /\ Running(p) \/ (at[p] > N /\ pc[p] \in {"unlocking", "done"}) =>
              \A i \in 1 .. N : i < at[p] => i \in recorded
        /\ pc[p] \in {"executing", "recording"} => at[p] <= N
        /\ pc[p] = "recording" => at[p] \in applied
        /\ pc[p] = "done" => at[p] > N

MigrationInv == TypeOK /\ LockHeld /\ KeepsItsPlace /\ SchemaIsAPrefix
=============================================================================

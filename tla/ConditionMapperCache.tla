------------------------- MODULE ConditionMapperCache -------------------------
(***************************************************************************)
(* The single-entry cache of ConditionMapper (pkg/services/                *)
(* condition_mapper.go) under concurrent requests of one API process.      *)
(*                                                                         *)
(* A request holds its resource's row lock from load to the end of its     *)
(* transaction; the cache is shared by all resources of the kind and is    *)
(* read, and later written, under separate holds of the mapper's mutex.    *)
(* It is filled inside the transaction, from the row as the transaction    *)
(* will leave it, and is not undone when the transaction is.               *)
(*                                                                         *)
(* body stands for what the masked resource map holds besides id and       *)
(* generation: the spec and the row's other columns, updated_time too.     *)
(***************************************************************************)
EXTENDS Integers

CONSTANTS
    Resources,
    Workers,   \* concurrent requests in this process
    Bodies,
    MaxGen     \* bound on the generations explored

ASSUME MaxGenAssumption == MaxGen \in Nat \ {0}

VARIABLES
    db,      \* db[r]: the committed row
    mapped,  \* mapped[r]: the resource map r's committed mapped conditions were evaluated on
    cache,   \* cachedResource, or NoMap
    work     \* work[w]: the request's transaction

vars == <<db, mapped, cache, work>>

NoMap == [id |-> "none", gen |-> 0, body |-> "none"]
Map   == [id : Resources, gen : Nat, body : Bodies] \cup {NoMap}
Row   == [gen : Nat, body : Bodies, deleted : BOOLEAN]
Idle  == [pc |-> "idle"]
Transactions == [pc : {"loaded", "missed", "evaluated"}, id : Resources, row : Row, map : Map]

TypeOK ==
    /\ db \in [Resources -> Row]
    /\ mapped \in [Resources -> Map]
    /\ cache \in Map
    /\ work \in [Workers -> {Idle} \cup Transactions]

\* resourceToMap and MaskSensitiveFields of the row in hand.
ResourceMap(r, row) == [id |-> r, gen |-> row.gen, body |-> row.body]

RowLocked(r) == \E w \in Workers : work[w] # Idle /\ work[w].id = r

Init ==
    /\ db \in [Resources -> [gen : {1}, body : Bodies, deleted : {FALSE}]]
    /\ mapped = [r \in Resources |-> ResourceMap(r, db[r])]
    /\ cache = NoMap
    /\ work = [w \in Workers |-> Idle]

-----------------------------------------------------------------------------
(* What a transaction does to the row before it maps conditions. *)

\* PATCH: a new spec at a new generation.
Patched(row) == {[row EXCEPT !.gen = @ + 1, !.body = b] : b \in Bodies}

\* DELETE of an active resource.
Marked(row) == {[row EXCEPT !.gen = @ + 1, !.body = b, !.deleted = TRUE] : b \in Bodies}

\* DELETE again: saved with a new updated_time, the generation stays.
MarkedAgain(row) == {[row EXCEPT !.body = b] : b \in Bodies}

\* An adapter report leaves the row alone.
Writes(row) ==
    {row} \cup (IF row.deleted THEN MarkedAgain(row)
                ELSE IF row.gen < MaxGen THEN Patched(row) \cup Marked(row) ELSE {})

Load(w, r) ==
    /\ work[w] = Idle
    /\ ~RowLocked(r)
    /\ \E row \in Writes(db[r]) :
          work' = [work EXCEPT ![w] = [pc |-> "loaded", id |-> r, row |-> row, map |-> NoMap]]
    /\ UNCHANGED <<db, mapped, cache>>

-----------------------------------------------------------------------------
(* getCachedOrBuildResource *)

\* Mutant: the key lacks the generation.
HitById(w) == cache.id = work[w].id

Hit(w) == cache.id = work[w].id /\ cache.gen = work[w].row.gen

\* Under the read lock.
ReadCache(w) ==
    /\ work[w].pc = "loaded"
    /\ work' = IF Hit(w) THEN [work EXCEPT ![w].pc = "evaluated", ![w].map = cache]
                         ELSE [work EXCEPT ![w].pc = "missed"]
    /\ UNCHANGED <<db, mapped, cache>>

\* Build outside any lock, then store under the write lock.
WriteCache(w) ==
    /\ work[w].pc = "missed"
    /\ LET m == ResourceMap(work[w].id, work[w].row)
       IN  /\ cache' = m
           /\ work' = [work EXCEPT ![w].pc = "evaluated", ![w].map = m]
    /\ UNCHANGED <<db, mapped>>

-----------------------------------------------------------------------------
\* Mutant: the row is stored where the map belongs.
CommitRowAsMap(w) ==
    /\ work[w].pc = "evaluated"
    /\ db' = [db EXCEPT ![work[w].id] = work[w].row]
    /\ mapped' = [mapped EXCEPT ![work[w].id] = work[w].row]
    /\ work' = [work EXCEPT ![w] = Idle]
    /\ UNCHANGED cache

Commit(w) ==
    /\ work[w].pc = "evaluated"
    /\ db' = [db EXCEPT ![work[w].id] = work[w].row]
    /\ mapped' = [mapped EXCEPT ![work[w].id] = work[w].map]
    /\ work' = [work EXCEPT ![w] = Idle]
    /\ UNCHANGED cache

\* A rule that fails to evaluate, a failed write, a lost connection, the
\* request timeout.
Rollback(w) ==
    /\ work[w] # Idle
    /\ work' = [work EXCEPT ![w] = Idle]
    /\ UNCHANGED <<db, mapped, cache>>

\* Another replica, with a cache of its own.
CommitElsewhere(r) ==
    /\ ~RowLocked(r)
    /\ \E row \in Writes(db[r]) :
          /\ db' = [db EXCEPT ![r] = row]
          /\ mapped' = [mapped EXCEPT ![r] = ResourceMap(r, row)]
    /\ UNCHANGED <<cache, work>>

Next ==
    \/ \E w \in Workers : \/ \E r \in Resources : Load(w, r)
                          \/ ReadCache(w)
                          \/ WriteCache(w)
                          \/ Commit(w)
                          \/ Rollback(w)
    \/ \E r \in Resources : CommitElsewhere(r)

Spec == Init /\ [][Next]_vars

-----------------------------------------------------------------------------
(* Properties *)

\* The mapped conditions in the table were evaluated on a map of their own
\* resource at its current generation (and so carry that observed_generation),
\* however requests for different resources take turns on the one cache entry.
MappedAtCurrentGeneration ==
    \A r \in Resources : mapped[r].id = r /\ mapped[r].gen = db[r].gen

\* What the comment on cachedResourceContext claims: id and generation
\* determine the map, so conditions are evaluated on the resource as committed.
MappedFromCommittedResource ==
    \A r \in Resources : mapped[r] = ResourceMap(r, db[r])

-----------------------------------------------------------------------------
(* The inductive invariant. *)

\* A request that has its map, from the cache or built, has one of its own
\* resource at the generation it will commit, whatever the cache holds by now.
EvaluatedOnOwnMap ==
    \A w \in Workers : work[w].pc = "evaluated" =>
        work[w].map.id = work[w].id /\ work[w].map.gen = work[w].row.gen

CacheInv == TypeOK /\ EvaluatedOnOwnMap /\ MappedAtCurrentGeneration
=============================================================================

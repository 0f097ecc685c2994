---------------------- MODULE ConditionMapperCacheProofs ----------------------
(***************************************************************************)
(* Proofs about ConditionMapperCache for any number of resources, requests *)
(* and generations.                                                        *)
(***************************************************************************)
EXTENDS ConditionMapperCache, TLAPS

(* The map of a row is a map, at the row's generation. *)
LEMMA ResourceMapType ==
    ASSUME NEW r \in Resources, NEW row \in Row
    PROVE  /\ ResourceMap(r, row) \in Map
           /\ ResourceMap(r, row).id = r /\ ResourceMap(r, row).gen = row.gen
BY DEF ResourceMap, Map, Row

(* What a transaction makes of a row is a row. *)
LEMMA WritesType ==
    ASSUME NEW row \in Row
    PROVE  Writes(row) \subseteq Row
<1>n. row.gen + 1 \in Nat /\ TRUE \in BOOLEAN
  BY DEF Row
<1>1. Patched(row) \subseteq Row
  <2>1. \A n \in Nat, b \in Bodies : [row EXCEPT !.gen = n, !.body = b] \in Row
    BY DEF Row
  <2> QED
    BY <1>n, <2>1 DEF Patched
<1>2. Marked(row) \subseteq Row
  <2>1. \A n \in Nat, b \in Bodies, d \in BOOLEAN :
           [row EXCEPT !.gen = n, !.body = b, !.deleted = d] \in Row
    BY DEF Row
  <2> QED
    BY <1>n, <2>1 DEF Marked
<1>3. MarkedAgain(row) \subseteq Row
  BY DEF MarkedAgain, Row
<1> QED
  BY <1>1, <1>2, <1>3 DEF Writes

(* A request with a transaction under way. *)
LEMMA WorkType ==
    ASSUME TypeOK, NEW w \in Workers, work[w] # Idle
    PROVE  work[w] \in Transactions /\ work[w].id \in Resources
           /\ work[w].row \in Row /\ work[w].map \in Map
BY DEF TypeOK, Transactions

(* Every step keeps the invariant. *)
LEMMA CacheStep ==
    ASSUME CacheInv, [Next]_vars
    PROVE  CacheInv'
<1> USE DEF CacheInv
<1>1. ASSUME NEW w \in Workers, NEW r \in Resources, Load(w, r) PROVE CacheInv'
  <2>1. PICK row \in Writes(db[r]) :
           work' = [work EXCEPT ![w] = [pc |-> "loaded", id |-> r, row |-> row, map |-> NoMap]]
    BY <1>1 DEF Load
  <2>2. row \in Row /\ NoMap \in Map
    BY <2>1, WritesType DEF TypeOK, Map
  <2>3. TypeOK'
    BY <1>1, <2>1, <2>2 DEF Load, TypeOK, Transactions
  <2>4. EvaluatedOnOwnMap'
    BY <2>1 DEF EvaluatedOnOwnMap, TypeOK
  <2>5. MappedAtCurrentGeneration'
    BY <1>1 DEF Load, MappedAtCurrentGeneration
  <2> QED
    BY <2>3, <2>4, <2>5
<1>2. ASSUME NEW w \in Workers, ReadCache(w) PROVE CacheInv'
  <2>1. work[w] \in Transactions /\ cache \in Map
    BY <1>2, WorkType DEF ReadCache, Idle, TypeOK
  <2>2. TypeOK'
    BY <1>2, <2>1 DEF ReadCache, TypeOK, Transactions
  <2>3. EvaluatedOnOwnMap'
    BY <1>2, <2>1 DEF ReadCache, Hit, EvaluatedOnOwnMap, TypeOK, Transactions
  <2>4. MappedAtCurrentGeneration'
    BY <1>2 DEF ReadCache, MappedAtCurrentGeneration
  <2> QED
    BY <2>2, <2>3, <2>4
<1>3. ASSUME NEW w \in Workers, WriteCache(w) PROVE CacheInv'
  <2> DEFINE m == ResourceMap(work[w].id, work[w].row)
  <2>1. work[w] \in Transactions
    BY <1>3, WorkType DEF WriteCache, Idle
  <2>2. m \in Map /\ m.id = work[w].id /\ m.gen = work[w].row.gen
    BY <2>1, ResourceMapType DEF Transactions
  <2>3. /\ cache' = m /\ UNCHANGED <<db, mapped>>
        /\ work' = [work EXCEPT ![w].pc = "evaluated", ![w].map = m]
    BY <1>3 DEF WriteCache
  <2> HIDE DEF m
  <2>4. TypeOK'
    BY <2>1, <2>2, <2>3 DEF TypeOK, Transactions
  <2>5. EvaluatedOnOwnMap'
    BY <2>1, <2>2, <2>3 DEF EvaluatedOnOwnMap, TypeOK, Transactions
  <2>6. MappedAtCurrentGeneration'
    BY <2>3 DEF MappedAtCurrentGeneration
  <2> QED
    BY <2>4, <2>5, <2>6
<1>4. ASSUME NEW w \in Workers, Commit(w) PROVE CacheInv'
  <2>1. work[w] \in Transactions /\ work[w].id \in Resources
        /\ work[w].row \in Row /\ work[w].map \in Map
    BY <1>4, WorkType DEF Commit, Idle
  <2>2. TypeOK'
    BY <1>4, <2>1 DEF Commit, TypeOK
  <2>3. EvaluatedOnOwnMap'
    BY <1>4 DEF Commit, EvaluatedOnOwnMap, TypeOK, Idle
  <2>4. MappedAtCurrentGeneration'
    BY <1>4, <2>1 DEF Commit, MappedAtCurrentGeneration, EvaluatedOnOwnMap, TypeOK
  <2> QED
    BY <2>2, <2>3, <2>4
<1>5. ASSUME NEW w \in Workers, Rollback(w) PROVE CacheInv'
  BY <1>5 DEF Rollback, TypeOK, EvaluatedOnOwnMap, MappedAtCurrentGeneration, Idle
<1>6. ASSUME NEW r \in Resources, CommitElsewhere(r) PROVE CacheInv'
  <2>1. PICK row \in Writes(db[r]) : /\ db' = [db EXCEPT ![r] = row]
                                     /\ mapped' = [mapped EXCEPT ![r] = ResourceMap(r, row)]
    BY <1>6 DEF CommitElsewhere
  <2>2. row \in Row
    BY <2>1, WritesType DEF TypeOK
  <2>3. ResourceMap(r, row) \in Map /\ ResourceMap(r, row).id = r
        /\ ResourceMap(r, row).gen = row.gen
    BY <2>2, ResourceMapType
  <2>4. TypeOK' /\ EvaluatedOnOwnMap'
    BY <1>6, <2>1, <2>2, <2>3 DEF CommitElsewhere, TypeOK, EvaluatedOnOwnMap
  <2>5. MappedAtCurrentGeneration'
    BY <2>1, <2>3 DEF MappedAtCurrentGeneration, TypeOK
  <2> QED
    BY <2>4, <2>5
<1>7. CASE UNCHANGED vars
  BY <1>7 DEF vars, TypeOK, EvaluatedOnOwnMap, MappedAtCurrentGeneration
<1> QED
  BY <1>1, <1>2, <1>3, <1>4, <1>5, <1>6, <1>7 DEF Next

(* At first every resource is mapped from its row. *)
LEMMA CacheInit ==
    ASSUME Init PROVE CacheInv
<1>1. db \in [Resources -> Row]
  <2>1. {1} \subseteq Nat /\ {FALSE} \subseteq BOOLEAN
    OBVIOUS
  <2>2. [gen : {1}, body : Bodies, deleted : {FALSE}] \subseteq Row
    BY <2>1, Zenon DEF Row
  <2> QED
    BY <2>2 DEF Init
<1>2. \A r \in Resources : /\ ResourceMap(r, db[r]) \in Map
                           /\ ResourceMap(r, db[r]).id = r
                           /\ ResourceMap(r, db[r]).gen = db[r].gen
  BY <1>1, ResourceMapType
<1>3. TypeOK
  BY <1>1, <1>2 DEF Init, TypeOK, Map
<1>4. EvaluatedOnOwnMap /\ MappedAtCurrentGeneration
  BY <1>2 DEF Init, EvaluatedOnOwnMap, MappedAtCurrentGeneration, Idle
<1> QED
  BY <1>3, <1>4 DEF CacheInv

(* The inductive invariant of the shared cache.                               *)
THEOREM CacheInvariant == Spec => []CacheInv
<1>1. Init => CacheInv
  BY CacheInit
<1>2. CacheInv /\ [Next]_vars => CacheInv'
  BY CacheStep
<1> QED
  BY <1>1, <1>2, PTL DEF Spec

(* Rows, maps, the cache entry and the requests under way are well formed.    *)
THEOREM TypeCorrect == Spec => []TypeOK
<1>1. CacheInv => TypeOK
  BY DEF CacheInv
<1> QED
  BY <1>1, CacheInvariant, PTL

(* However many requests read and replace the one cache entry between each     *)
(* other's two critical sections, conditions are mapped at the current        *)
(* generation of their own resource.                                          *)
THEOREM AlwaysMappedAtCurrentGeneration == Spec => []MappedAtCurrentGeneration
<1>1. CacheInv => MappedAtCurrentGeneration
  BY DEF CacheInv
<1> QED
  BY <1>1, CacheInvariant, PTL
=============================================================================

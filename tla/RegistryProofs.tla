--------------------------- MODULE RegistryProofs ---------------------------
(***************************************************************************)
(* Proofs about Registry: start-up ends in serving exactly for the sound   *)
(* lists, for lists of any length and every order of the loops.            *)
(***************************************************************************)
EXTENDS Registry, FiniteSetTheorems, WellFoundedInduction, SequenceTheorems, TLAPS

(* A set of numbers has a least one.                                       *)
LEMMA Least ==
    ASSUME NEW S, S \subseteq Nat, S # {}
    PROVE  \E i \in S : \A j \in S : i <= j
  <1>1. PICK i \in S : \A j \in S : ~ (<<j, i>> \in OpToRel(<, Nat))
    BY NatLessThanWellFounded, WFMin, Zenon
  <1>2. ASSUME NEW j \in S PROVE i <= j
    <2>1. i \in Nat /\ j \in Nat
      OBVIOUS
    <2>2. j < i => <<j, i>> \in OpToRel(<, Nat)
      <3>1. <<j, i>> \in Nat \X Nat /\ <<j, i>>[1] = j /\ <<j, i>>[2] = i
        BY <2>1
      <3> QED
        BY <3>1, Zenon DEF OpToRel
    <2>3. ~ (j < i)
      BY <1>1, <2>2
    <2> QED
      BY <2>1, <2>3
  <1> QED
    BY <1>2

(* Heights of any size that fall along the edges can be pressed into as    *)
(* many as there are kinds: a kind is ranked by how many are no higher.    *)
LEMMA Compress ==
    ASSUME NEW K, IsFiniteSet(K), NEW h \in [K -> Nat], NEW edges,
           \A e \in edges : e[1] \in K /\ e[2] \in K /\ h[e[1]] > h[e[2]]
    PROVE  Ranked(edges, K)
  <1> DEFINE low(k) == {j \in K : h[j] <= h[k]}
             rank == [k \in K |-> Cardinality(low(k))]
  <1>1. \A k \in K : low(k) \in SUBSET K /\ k \in low(k)
    OBVIOUS
  <1>2. \A k \in K : IsFiniteSet(low(k)) /\ Cardinality(low(k)) \in Nat
    BY <1>1, FS_Subset, FS_CardinalityType
  <1>3. \A k \in K : Cardinality(low(k)) # 0
    BY <1>1, <1>2, FS_EmptySet
  <1>4. \A k \in K : Cardinality(low(k)) <= Cardinality(K) /\ Cardinality(K) \in Nat
    BY <1>1, FS_Subset, FS_CardinalityType
  <1>5. rank \in [K -> 1 .. Cardinality(K)]
    <2> HIDE DEF low
    <2>1. \A k \in K : Cardinality(low(k)) \in 1 .. Cardinality(K)
      BY <1>2, <1>3, <1>4
    <2> QED
      BY <2>1
  <1>6. ASSUME NEW e \in edges PROVE rank[e[1]] > rank[e[2]]
    <2> DEFINE a == e[1]
               b == e[2]
    <2>1. a \in K /\ b \in K /\ h[a] > h[b] /\ h[a] \in Nat /\ h[b] \in Nat
      OBVIOUS
    <2>2. low(b) \in SUBSET low(a)
      BY <2>1
    <2>3. low(b) # low(a)
      BY <2>1
    <2>4. /\ Cardinality(low(b)) <= Cardinality(low(a))
          /\ Cardinality(low(a)) = Cardinality(low(b)) => low(a) = low(b)
      <3> HIDE DEF low
      <3> QED
        BY <1>2, <2>1, <2>2, FS_Subset
    <2>5. Cardinality(low(b)) < Cardinality(low(a))
      <3> HIDE DEF low
      <3> QED
        BY <1>2, <2>1, <2>3, <2>4
    <2>6. rank[a] = Cardinality(low(a)) /\ rank[b] = Cardinality(low(b))
      BY <2>1
    <2> HIDE DEF low, rank
    <2> QED
      BY <2>5, <2>6, <1>2, <2>1
  <1> HIDE DEF rank
  <1> QED
    BY <1>5, <1>6 DEF Ranked, Rankings

-----------------------------------------------------------------------------
(* The walk along the owners of a kind (Validate, first loop).             *)
Parent(k) == IF k \in Kinds THEN descriptors[k].parent ELSE Unset
Walks(N, k, f) == f = [n \in 0 .. N |-> Parent(IF n = 0 THEN k ELSE f[n - 1])]

(* There is such a walk of every length.                                   *)
LEMMA WalkExists ==
    ASSUME NEW N \in Nat, NEW k
    PROVE  \E f : Walks(N, k, f)
  <1> DEFINE Bad == {n \in Nat : ~ \E f : Walks(n, k, f)}
  <1> SUFFICES ASSUME Bad # {} PROVE FALSE
    OBVIOUS
  <1>1. PICK m \in Bad : \A j \in Bad : m <= j
    BY Least
  <1>2. m # 0
    <2> DEFINE f == [n \in 0 .. 0 |-> Parent(k)]
    <2>1. f = [n \in 0 .. 0 |-> Parent(IF n = 0 THEN k ELSE f[n - 1])]
      OBVIOUS
    <2>2. Walks(0, k, f)
      BY <2>1 DEF Walks
    <2> QED
      BY <2>2, <1>1
  <1>3. m - 1 \in Nat /\ m - 1 \notin Bad
    BY <1>1, <1>2
  <1>4. PICK f : Walks(m - 1, k, f)
    BY <1>3
  <1> DEFINE g == [n \in 0 .. m |-> IF n < m THEN f[n] ELSE Parent(f[m - 1])]
             h == [n \in 0 .. m |-> Parent(IF n = 0 THEN k ELSE g[n - 1])]
  <1>5. ASSUME NEW n \in 0 .. m PROVE g[n] = Parent(IF n = 0 THEN k ELSE g[n - 1])
    <2>1. CASE n < m
      <3>1. n \in 0 .. m - 1
        BY <1>3, <2>1
      <3>2. f[n] = Parent(IF n = 0 THEN k ELSE f[n - 1])
        BY <1>4, <3>1, Zenon DEF Walks
      <3>3. n # 0 => n - 1 \in 0 .. m /\ n - 1 < m
        BY <1>3, <2>1
      <3>4. g[n] = f[n] /\ (n # 0 => g[n - 1] = f[n - 1])
        BY <2>1, <3>3
      <3> QED
        BY <3>2, <3>4, Zenon
    <2>2. CASE ~ (n < m)
      <3>1. n = m /\ n # 0 /\ n - 1 \in 0 .. m /\ n - 1 < m /\ n - 1 = m - 1
        BY <1>2, <1>3, <2>2
      <3>2. g[n] = Parent(f[m - 1]) /\ g[n - 1] = f[m - 1]
        BY <3>1
      <3> QED
        BY <3>1, <3>2, Zenon
    <2> QED
      BY <2>1, <2>2
  <1>6. g = h
    <2> HIDE DEF Bad
    <2>1. DOMAIN g = 0 .. m /\ DOMAIN h = 0 .. m
      OBVIOUS
    <2>2. \A n \in 0 .. m : g[n] = h[n]
      BY <1>5, Zenon
    <2> QED
      BY <2>2, Zenon
  <1>7. Walks(m, k, g)
    BY <1>6, Zenon DEF Walks
  <1> QED
    BY <1>1, <1>7, Zenon

(* What the walk of OwnersEnd meets, step by step.                         *)
Walk(k) == CHOOSE f : Walks(Cardinality(Kinds), k, f)

(* OwnersEnd, step by step.                                                *)
LEMMA WalkSteps ==
    ASSUME NEW k, Cardinality(Kinds) \in Nat
    PROVE  /\ DOMAIN Walk(k) = 0 .. Cardinality(Kinds)
           /\ Walk(k)[0] = Parent(k)
           /\ \A n \in 0 .. Cardinality(Kinds) : n # 0 => Walk(k)[n] = Parent(Walk(k)[n - 1])
           /\ OwnersEnd(k) <=> \E n \in 0 .. Cardinality(Kinds) : Walk(k)[n] = Unset
  <1> DEFINE f == Walk(k)
             N == Cardinality(Kinds)
  <1>1. Walks(N, k, f)
    BY WalkExists, Zenon DEF Walk
  <1>2. DOMAIN f = 0 .. N /\ \A n \in 0 .. N : f[n] = Parent(IF n = 0 THEN k ELSE f[n - 1])
    BY <1>1, Zenon DEF Walks
  <1>3. 0 \in 0 .. N
    OBVIOUS
  <1>4. OwnersEnd(k) <=> \E n \in DOMAIN f : f[n] = Unset
    BY Zenon DEF OwnersEnd, Walk, Walks, Parent
  <1> HIDE DEF f, N
  <1> QED
    BY <1>2, <1>3, <1>4, Zenon DEF f, N

(* The map is keyed by kind, and owners are registered or there is none.   *)
Keyed == Unset \notin Kinds /\ \A k \in Kinds : descriptors[k].kind = k
OwnersKnown == \A k \in Kinds : descriptors[k].parent \in Kinds \cup {Unset}

(* An edge of ownership leads from a kind to its parent.                   *)
LEMMA OwnershipEdges ==
    ASSUME Keyed, OwnersKnown
    PROVE  OwnershipOf(Descriptors(Kinds))
             = {<<k, descriptors[k].parent>> : k \in {x \in Kinds : descriptors[x].parent # Unset}}
  <1> DEFINE E == {<<k, descriptors[k].parent>> : k \in {x \in Kinds : descriptors[x].parent # Unset}}
  <1>1. ASSUME NEW e \in OwnershipOf(Descriptors(Kinds)) PROVE e \in E
    <2>1. PICK d \in Descriptors(Kinds) : d.parent # Unset /\ e = <<d.kind, d.parent>>
      BY DEF OwnershipOf
    <2>2. PICK k \in Kinds : d = descriptors[k]
      BY DEF Descriptors
    <2>3. e = <<k, descriptors[k].parent>> /\ descriptors[k].parent # Unset
      BY <2>1, <2>2 DEF Keyed
    <2> QED
      BY <2>3
  <1>2. ASSUME NEW e \in E PROVE e \in OwnershipOf(Descriptors(Kinds))
    <2>1. PICK k \in Kinds : descriptors[k].parent # Unset /\ e = <<k, descriptors[k].parent>>
      OBVIOUS
    <2>2. descriptors[k] \in {x \in Descriptors(Kinds) : x.parent # Unset}
      BY <2>1 DEF Descriptors
    <2>3. e = <<descriptors[k].kind, descriptors[k].parent>>
      BY <2>1 DEF Keyed
    <2> QED
      BY <2>2, <2>3 DEF OwnershipOf
  <1> QED
    BY <1>1, <1>2, Zenon

(* If every walk along owners ends, kinds are ranked by how far they are   *)
(* from its end.                                                           *)
LEMMA OwnersRanked ==
    ASSUME IsFiniteSet(Kinds), Keyed, OwnersKnown,
           \A k \in Kinds : descriptors[k].parent # Unset => OwnersEnd(k)
    PROVE  Ranked(OwnershipOf(Descriptors(Kinds)), Kinds)
  <1> DEFINE N == Cardinality(Kinds)
             ends(k) == {n \in 0 .. N : Walk(k)[n] = Unset}
             least(S) == CHOOSE i \in S : \A j \in S : i <= j
             h == [k \in Kinds |-> least(ends(k))]
  <1>1. N \in Nat
    BY FS_CardinalityType
  <1>2. ASSUME NEW k \in Kinds PROVE ends(k) # {}
    <2>1. CASE descriptors[k].parent = Unset
      <3>1. Walk(k)[0] = Unset /\ 0 \in 0 .. N
        BY <1>1, <2>1, WalkSteps DEF Parent
      <3> QED
        BY <3>1
    <2>2. CASE descriptors[k].parent # Unset
      <3>1. OwnersEnd(k)
        BY <2>2
      <3> QED
        BY <1>1, <3>1, WalkSteps
    <2> QED
      BY <2>1, <2>2
  <1>3. ASSUME NEW k \in Kinds
        PROVE  least(ends(k)) \in ends(k) /\ \A j \in ends(k) : least(ends(k)) <= j
    <2>1. ends(k) \subseteq Nat
      BY <1>1
    <2>2. \E i \in ends(k) : \A j \in ends(k) : i <= j
      <3> HIDE DEF ends
      <3> QED
        BY <1>2, <2>1, Least
    <2> HIDE DEF ends
    <2> QED
      BY <2>2
  <1>4. h \in [Kinds -> Nat]
    <2>1. \A k \in Kinds : least(ends(k)) \in Nat
      BY <1>1, <1>3
    <2> HIDE DEF least, ends
    <2> QED
      BY <2>1
  <1>5. ASSUME NEW k \in Kinds, descriptors[k].parent # Unset
        PROVE  descriptors[k].parent \in Kinds /\ h[k] > h[descriptors[k].parent]
    <2> DEFINE p == descriptors[k].parent
               Bad == {n \in Nat : n + 1 \in 0 .. N /\ Walk(p)[n] # Walk(k)[n + 1]}
    <2>1. p \in Kinds
      BY <1>5 DEF OwnersKnown
    <2>2. Bad = {}
      <3> SUFFICES ASSUME Bad # {} PROVE FALSE
        OBVIOUS
      <3>1. PICK m \in Bad : \A j \in Bad : m <= j
        BY Least
      <3>2. m \in Nat /\ m \in 0 .. N /\ m + 1 \in 0 .. N /\ m + 1 # 0 /\ (m + 1) - 1 = m
        BY <1>1, <3>1
      <3>3. Walk(k)[m + 1] = Parent(Walk(k)[m])
        BY <1>1, <3>2, WalkSteps
      <3>4. CASE m = 0
        <4>1. Walk(k)[0] = p /\ Walk(p)[0] = Parent(p)
          BY <1>1, WalkSteps, Zenon DEF Parent
        <4> QED
          BY <3>1, <3>3, <3>4, <4>1
      <3>5. CASE m # 0
        <4>1. m - 1 \in Nat /\ (m - 1) + 1 = m /\ ~ (m <= m - 1)
          BY <3>2, <3>5
        <4>2. Walk(p)[m - 1] = Walk(k)[m]
          BY <3>1, <3>2, <4>1
        <4>3. Walk(p)[m] = Parent(Walk(p)[m - 1])
          BY <1>1, <3>2, <3>5, WalkSteps, Zenon
        <4> QED
          BY <3>1, <3>3, <4>2, <4>3
      <3> QED
        BY <3>4, <3>5
    <2>3. h[k] \in 0 .. N /\ Walk(k)[h[k]] = Unset /\ h[k] # 0
      <3>1. least(ends(k)) \in ends(k)
        BY <1>3
      <3>2. Walk(k)[0] = p
        BY <1>1, WalkSteps, Zenon DEF Parent
      <3> QED
        BY <1>5, <3>1, <3>2
    <2>4. h[k] - 1 \in Nat /\ (h[k] - 1) + 1 = h[k] /\ h[k] - 1 \in 0 .. N
      BY <1>1, <2>3
    <2>5. Walk(p)[h[k] - 1] = Unset
      BY <2>2, <2>3, <2>4
    <2>6. h[k] - 1 \in ends(p)
      BY <2>4, <2>5
    <2>7. h[p] <= h[k] - 1
      <3>1. h[p] = least(ends(p))
        BY <2>1
      <3> HIDE DEF ends, least, h
      <3> QED
        BY <1>3, <2>1, <2>6, <3>1
    <2>8. h[p] \in Nat /\ h[k] \in Nat
      BY <1>4, <2>1
    <2> HIDE DEF h
    <2> QED
      BY <2>1, <2>7, <2>8
  <1> DEFINE edges == OwnershipOf(Descriptors(Kinds))
  <1>6. \A e \in edges : e[1] \in Kinds /\ e[2] \in Kinds /\ h[e[1]] > h[e[2]]
    <2> HIDE DEF h
    <2>1. SUFFICES ASSUME NEW e \in edges PROVE e[1] \in Kinds /\ e[2] \in Kinds /\ h[e[1]] > h[e[2]]
      OBVIOUS
    <2>2. PICK k \in Kinds : descriptors[k].parent # Unset /\ e = <<k, descriptors[k].parent>>
      BY OwnershipEdges
    <2> QED
      BY <1>5, <2>2
  <1> HIDE DEF h, edges
  <1> QED
    BY <1>4, <1>6, Compress DEF edges

(* And the other way: along a ranking no walk is longer than the list.     *)
LEMMA RankedOwnersEnd ==
    ASSUME IsFiniteSet(Kinds), Keyed, OwnersKnown,
           Ranked(OwnershipOf(Descriptors(Kinds)), Kinds), NEW k \in Kinds
    PROVE  OwnersEnd(k)
  <1> DEFINE N == Cardinality(Kinds)
             w == Walk(k)
  <1>1. N \in Nat /\ N # 0
    BY FS_CardinalityType, FS_EmptySet
  <1>2. PICK rank \in [Kinds -> 1 .. N] :
          \A e \in OwnershipOf(Descriptors(Kinds)) : rank[e[1]] > rank[e[2]]
    BY DEF Ranked, Rankings
  <1>3. ASSUME NEW x \in Kinds, descriptors[x].parent # Unset
        PROVE  descriptors[x].parent \in Kinds /\ rank[x] > rank[descriptors[x].parent]
    <2>1. <<x, descriptors[x].parent>> \in OwnershipOf(Descriptors(Kinds))
      BY <1>3, OwnershipEdges
    <2>2. rank[<<x, descriptors[x].parent>>[1]] > rank[<<x, descriptors[x].parent>>[2]]
      BY <1>2, <2>1
    <2> QED
      BY <1>3, <2>2 DEF OwnersKnown
  <1>4. ASSUME NEW x, Parent(x) # Unset PROVE x \in Kinds /\ Parent(x) \in Kinds /\ rank[x] > rank[Parent(x)]
    BY <1>3, <1>4, Zenon DEF Parent
  <1> DEFINE Bad == {n \in 0 .. N : w[n] # Unset /\ ~ (w[n] \in Kinds /\ rank[w[n]] + n < N)}
  <1>5. Bad = {}
    <2> SUFFICES ASSUME Bad # {} PROVE FALSE
      OBVIOUS
    <2>1. Bad \subseteq Nat
      BY <1>1
    <2>2. PICK m \in Bad : \A j \in Bad : m <= j
      <3> HIDE DEF Bad
      <3> QED
        BY <2>1, Least
    <2>3. m \in Nat /\ m \in 0 .. N /\ w[m] # Unset
      BY <1>1, <2>2
    <2>4. CASE m = 0
      <3>1. w[0] = Parent(k)
        BY <1>1, WalkSteps
      <3>2. w[0] \in Kinds /\ rank[k] > rank[w[0]]
        BY <1>4, <2>3, <2>4, <3>1
      <3>3. rank[k] \in 1 .. N /\ rank[w[0]] \in 1 .. N
        BY <1>2, <3>2
      <3> QED
        BY <1>1, <2>2, <2>4, <3>2, <3>3
    <2>5. CASE m # 0
      <3>1. m - 1 \in 0 .. N /\ ~ (m <= m - 1)
        BY <2>3, <2>5, <1>1
      <3>2. w[m] = Parent(w[m - 1])
        BY <1>1, <2>3, <2>5, WalkSteps, Zenon
      <3>3. w[m - 1] \in Kinds /\ w[m] \in Kinds /\ rank[w[m - 1]] > rank[w[m]]
        BY <1>4, <2>3, <3>2, Zenon
      <3>4. w[m - 1] # Unset
        <4>1. CASE w[m - 1] = Unset
          BY <3>3, <4>1 DEF Keyed
        <4> QED
          BY <4>1
      <3>5. rank[w[m - 1]] + (m - 1) < N
        BY <2>2, <3>1, <3>4
      <3>6. rank[w[m]] + m < N
        <4>1. rank[w[m]] \in 1 .. N /\ rank[w[m - 1]] \in 1 .. N
          BY <1>2, <3>3
        <4> QED
          BY <1>1, <2>3, <3>3, <3>5, <4>1
      <3> QED
        BY <2>2, <3>3, <3>6
    <2> QED
      BY <2>4, <2>5
  <1>6. N \in 0 .. N /\ w[N] = Unset
    <2>1. N \in 0 .. N
      BY <1>1
    <2>2. ASSUME w[N] # Unset PROVE FALSE
      <3>1. w[N] \in Kinds /\ rank[w[N]] + N < N
        BY <1>5, <2>1, <2>2
      <3>2. rank[w[N]] \in 1 .. N
        BY <1>2, <3>1
      <3> QED
        BY <1>1, <3>1, <3>2
    <2> QED
      BY <2>1, <2>2
  <1> QED
    BY <1>1, <1>6, WalkSteps

-----------------------------------------------------------------------------
(* The whole list is registered: its parts are those of the map.           *)
Complete == Loaded /\ Cardinality(Kinds) = Len(config)

WellTyped(d) ==
    /\ d.plural # "*"
    /\ d.minLen \in Int /\ d.maxLen \in Int
    /\ Len(d.refs) \in Nat /\ DOMAIN d.refs = 1 .. Len(d.refs)
    /\ \A j \in DOMAIN d.refs : d.refs[j].min \in Int /\ d.refs[j].max \in Int

PluralsDiffer ==
    \A j, k \in Kinds : descriptors[j].plural = descriptors[k].plural => j = k

(* Of a list registered to its end: the map holds exactly its entries.     *)
LEMMA CompleteList ==
    ASSUME Complete
    PROVE  /\ Keyed
           /\ DOMAIN config = 1 .. Len(config)
           /\ \A i \in DOMAIN config : config[i].kind \in Kinds
                                       /\ descriptors[config[i].kind] = config[i]
           /\ \A k \in Kinds : \E i \in DOMAIN config : config[i].kind = k /\ descriptors[k] = config[i]
           /\ \A i, j \in DOMAIN config : config[i].kind = config[j].kind => i = j
           /\ \A k \in Kinds : WellTyped(descriptors[k]) /\ descriptors[k].plural # Unset
  <1>1. /\ Len(config) \in Nat /\ DOMAIN config = 1 .. Len(config)
        /\ \A i \in DOMAIN config : WellTyped(config[i])
    BY ConfigsAssumption, Zenon DEF Complete, Loaded, WellTyped
  <1>2. /\ Kinds = {config[i].kind : i \in DOMAIN config}
        /\ \A i \in DOMAIN config : /\ config[i].kind # Unset /\ config[i].plural # Unset
                                    /\ descriptors[config[i].kind] = config[i]
        /\ \A i, j \in DOMAIN config : config[i].kind = config[j].kind => i = j
    BY <1>1, Zenon DEF Complete, Loaded
  <1>3. \A k \in Kinds : \E i \in DOMAIN config : config[i].kind = k /\ descriptors[k] = config[i]
    BY <1>2, ZenonT(60)
  <1>4. Keyed
    BY <1>2, <1>3, Zenon DEF Keyed
  <1>5. \A i \in DOMAIN config : config[i].kind \in Kinds
    BY <1>2, Zenon
  <1>6. \A k \in Kinds : WellTyped(descriptors[k]) /\ descriptors[k].plural # Unset
    <2> TAKE k \in Kinds
    <2>1. PICK i \in DOMAIN config : config[i].kind = k /\ descriptors[k] = config[i]
      BY <1>3
    <2> QED
      BY <1>1, <1>2, <2>1
  <1> QED
    BY <1>1, <1>2, <1>3, <1>4, <1>5, <1>6, Zenon

(* So what Sound says of the list can be said of the map.                  *)
LEMMA CompleteElements ==
    ASSUME Complete
    PROVE  /\ Elements(config) = Descriptors(Kinds)
           /\ {d.kind : d \in Elements(config)} = Kinds
           /\ Distinct([i \in DOMAIN config |-> config[i].kind])
           /\ Distinct([i \in DOMAIN config |-> config[i].plural]) <=> PluralsDiffer
  <1>1. Elements(config) = Descriptors(Kinds)
    <2>1. ASSUME NEW i \in DOMAIN config PROVE config[i] \in Descriptors(Kinds)
      <3>1. config[i].kind \in Kinds /\ descriptors[config[i].kind] = config[i]
        BY CompleteList
      <3> QED
        BY <3>1, Zenon DEF Descriptors
    <2>2. ASSUME NEW k \in Kinds PROVE descriptors[k] \in Elements(config)
      <3>1. PICK i \in DOMAIN config : descriptors[k] = config[i]
        BY CompleteList
      <3> QED
        BY <3>1, Zenon DEF Elements
    <2> QED
      BY <2>1, <2>2, Zenon DEF Elements, Descriptors
  <1>2. {d.kind : d \in Elements(config)} = Kinds
    <2>1. \A d \in Elements(config) : d.kind \in Kinds
      BY CompleteList, ZenonT(60) DEF Elements
    <2>2. \A k \in Kinds : descriptors[k] \in Elements(config) /\ descriptors[k].kind = k
      BY <1>1, CompleteList, Zenon DEF Descriptors, Keyed
    <2> QED
      BY <2>1, <2>2, Zenon
  <1>3. Distinct([i \in DOMAIN config |-> config[i].kind])
    BY CompleteList DEF Distinct
  <1>4. Distinct([i \in DOMAIN config |-> config[i].plural])
          <=> \A i, j \in DOMAIN config : config[i].plural = config[j].plural => i = j
    BY DEF Distinct
  <1>5. (\A i, j \in DOMAIN config : config[i].plural = config[j].plural => i = j) <=> PluralsDiffer
    <2>1. ASSUME PluralsDiffer, NEW i \in DOMAIN config, NEW j \in DOMAIN config,
                 config[i].plural = config[j].plural
          PROVE  i = j
      <3>1. config[i].kind = config[j].kind
        BY <2>1, CompleteList DEF PluralsDiffer
      <3> QED
        BY <3>1, CompleteList
    <2>2. ASSUME \A i, j \in DOMAIN config : config[i].plural = config[j].plural => i = j,
                 NEW j \in Kinds, NEW k \in Kinds, descriptors[j].plural = descriptors[k].plural
          PROVE  j = k
      <3>1. PICK a \in DOMAIN config : config[a].kind = j /\ descriptors[j] = config[a]
        BY CompleteList
      <3>2. PICK b \in DOMAIN config : config[b].kind = k /\ descriptors[k] = config[b]
        BY CompleteList
      <3> QED
        BY <2>2, <3>1, <3>2
    <2> QED
      BY <2>1, <2>2 DEF PluralsDiffer
  <1> QED
    BY <1>1, <1>2, <1>3, <1>4, <1>5, Zenon

(* Soundness of the list, kind by kind.                                    *)
DescriptorSound(k) ==
    LET d == descriptors[k] IN
    /\ d.parent \in Kinds \cup {Unset}
    /\ \A r \in Elements(d.refs) : r.target \in Kinds /\ (r.max <= 0 \/ r.min <= r.max)
    /\ Distinct([i \in DOMAIN d.refs |-> d.refs[i].type])
    /\ d.maxLen <= 0 \/ d.minLen <= d.maxLen

RouteSound(k) ==
    LET d == descriptors[k] IN
    /\ d.plural \notin {"resources", "openapi", "openapi.html"}
    /\ d.parent # Unset => d.plural \notin {"statuses", "force-delete"}

SoundParts ==
    /\ PluralsDiffer
    /\ \A k \in Kinds : DescriptorSound(k)
    /\ Ranked(OwnershipOf(Descriptors(Kinds)), Kinds)
    /\ \A k \in Kinds : ConditionsOK(k)
    /\ Ranked(RequirementsOf(Descriptors(Kinds)), Kinds)
    /\ SchemasOK
    /\ \A k \in Kinds : RouteSound(k)

(* Sound, as the loops of Validate divide it up.                           *)
LEMMA SoundByKind ==
    ASSUME Complete
    PROVE  Sound(config) <=> SoundParts
  <1> DEFINE D == Descriptors(Kinds)
             reserved(E) == {Unset, "Reconciled", "LastKnownReconciled"} \cup TooLong
                              \cup {ConditionType(a) : a \in UNION {d.adapters : d \in E}}
             part(d, E, K) ==
               /\ d.parent \in K \cup {Unset}
               /\ \A r \in Elements(d.refs) : r.target \in K /\ (r.max <= 0 \/ r.min <= r.max)
               /\ Distinct([i \in DOMAIN d.refs |-> d.refs[i].type])
               /\ d.maxLen <= 0 \/ d.minLen <= d.maxLen
               /\ Distinct([i \in DOMAIN d.conds |-> d.conds[i].type])
               /\ \A c \in Elements(d.conds) : c.compiles /\ c.type \notin reserved(E)
               /\ d.needSchema => d.schema \in Schemas \cup {Unset}
               /\ d.plural \notin {"resources", "openapi", "openapi.html"}
               /\ d.parent # Unset => d.plural \notin {"statuses", "force-delete"}
             parts(E, K) ==
               /\ Unset \notin K \cup {d.plural : d \in E}
               /\ \A d \in E : part(d, E, K)
               /\ Ranked(OwnershipOf(E), K)
               /\ Ranked(RequirementsOf(E), K)
  <1>1. Sound(config) <=>
          PluralsDiffer /\ parts(D, Kinds)
    <2>1. Sound(config) <=>
            /\ Distinct([i \in DOMAIN config |-> config[i].kind])
            /\ Distinct([i \in DOMAIN config |-> config[i].plural])
            /\ parts(Elements(config), {d.kind : d \in Elements(config)})
      BY Zenon DEF Sound
    <2> HIDE DEF parts, D
    <2> QED
      BY <2>1, CompleteElements, Zenon DEF D
  <1>2. Unset \notin Kinds \cup {d.plural : d \in D}
    <2>1. \A k \in Kinds : descriptors[k].plural # Unset
      BY CompleteList
    <2>2. Unset \notin Kinds
      BY CompleteList DEF Keyed
    <2> QED
      BY <2>1, <2>2, Zenon DEF Descriptors
  <1>3. reserved(D) = {Unset} \cup ReservedConditionTypes \cup TooLong
    <2>1. UNION {d.adapters : d \in D} = UNION {descriptors[k].adapters : k \in Kinds}
      BY Zenon DEF Descriptors
    <2> QED
      BY <2>1, Zenon DEF ReservedConditionTypes
  <1>4. ASSUME NEW k \in Kinds
        PROVE  part(descriptors[k], D, Kinds) <=>
                 /\ DescriptorSound(k) /\ ConditionsOK(k) /\ RouteSound(k)
                 /\ descriptors[k].schema # Unset /\ descriptors[k].needSchema =>
                      descriptors[k].schema \in Schemas
    <2>1. ConditionsOK(k) <=>
            /\ Distinct([i \in DOMAIN descriptors[k].conds |-> descriptors[k].conds[i].type])
            /\ \A c \in Elements(descriptors[k].conds) : c.compiles /\ c.type \notin reserved(D)
      BY <1>3, Zenon DEF ConditionsOK
    <2> HIDE DEF reserved
    <2> QED
      BY <2>1, Zenon DEF DescriptorSound, RouteSound
  <1>5. (\A d \in D : part(d, D, Kinds)) <=> \A k \in Kinds : part(descriptors[k], D, Kinds)
    <2> HIDE DEF part
    <2> QED
      BY Zenon DEF Descriptors
  <1> HIDE DEF part
  <1> QED
    BY <1>1, <1>2, <1>4, <1>5, Zenon DEF SoundParts, SchemasOK

-----------------------------------------------------------------------------
(* The first loop finds what it is for, whatever it has visited before.    *)
LEMMA DescriptorMeans ==
    ASSUME Complete, NEW k \in Kinds, NEW S \in SUBSET Kinds
    PROVE  DescriptorOK(k, {descriptors[j].plural : j \in S \ {k}}) <=>
             /\ DescriptorSound(k)
             /\ descriptors[k].parent # Unset => OwnersEnd(k)
             /\ \A j \in S : descriptors[j].plural = descriptors[k].plural => j = k
  <1> DEFINE d == descriptors[k]
  <1>1. WellTyped(d)
    BY CompleteList
  <1>2. (\A i \in DOMAIN d.refs : ReferenceOK(d.refs[i])) <=>
          \A r \in Elements(d.refs) : r.target \in Kinds /\ (r.max <= 0 \/ r.min <= r.max)
    <2>1. ASSUME NEW i \in DOMAIN d.refs
          PROVE  ReferenceOK(d.refs[i]) <=>
                   d.refs[i].target \in Kinds /\ (d.refs[i].max <= 0 \/ d.refs[i].min <= d.refs[i].max)
      <3>1. d.refs[i].max \in Int /\ d.refs[i].min \in Int
        BY <1>1 DEF WellTyped
      <3> QED
        BY <3>1 DEF ReferenceOK
    <2> QED
      BY <2>1, Zenon DEF Elements
  <1>3. (d.maxLen > 0 => d.minLen <= d.maxLen) <=> (d.maxLen <= 0 \/ d.minLen <= d.maxLen)
    BY <1>1 DEF WellTyped
  <1>4. d.plural \notin {descriptors[j].plural : j \in S \ {k}}
          <=> \A j \in S : descriptors[j].plural = d.plural => j = k
    OBVIOUS
  <1>5. (d.parent # Unset => d.parent \in Kinds /\ OwnersEnd(k))
          <=> d.parent \in Kinds \cup {Unset} /\ (d.parent # Unset => OwnersEnd(k))
    BY CompleteList, Zenon DEF Keyed
  <1> QED
    BY <1>2, <1>3, <1>4, <1>5, Zenon DEF DescriptorOK, DescriptorSound

(* All kinds visited: plurals differ and ownership has no cycle.           *)
LEMMA DescriptorsMean ==
    ASSUME Complete
    PROVE  (\A k \in Kinds : DescriptorOK(k, {descriptors[j].plural : j \in Kinds \ {k}}))
             <=> /\ PluralsDiffer
                 /\ \A k \in Kinds : DescriptorSound(k)
                 /\ Ranked(OwnershipOf(Descriptors(Kinds)), Kinds)
  <1>1. Kinds \in SUBSET Kinds /\ IsFiniteSet(Kinds) /\ Keyed
    BY CompleteList DEF Complete, Loaded
  <1>2. (\A k \in Kinds : DescriptorOK(k, {descriptors[j].plural : j \in Kinds \ {k}}))
          <=> \A k \in Kinds :
                /\ DescriptorSound(k)
                /\ descriptors[k].parent # Unset => OwnersEnd(k)
                /\ \A j \in Kinds : descriptors[j].plural = descriptors[k].plural => j = k
    BY <1>1, DescriptorMeans, Zenon
  <1>3. (\A k \in Kinds : DescriptorSound(k)) => OwnersKnown
    BY Zenon DEF DescriptorSound, OwnersKnown
  <1>4. (\A k \in Kinds : \A j \in Kinds : descriptors[j].plural = descriptors[k].plural => j = k)
          <=> PluralsDiffer
    BY Zenon DEF PluralsDiffer
  <1>5. ASSUME OwnersKnown
        PROVE  (\A k \in Kinds : descriptors[k].parent # Unset => OwnersEnd(k))
                 <=> Ranked(OwnershipOf(Descriptors(Kinds)), Kinds)
    BY <1>1, <1>5, OwnersRanked, RankedOwnersEnd, Zenon
  <1> QED
    BY <1>2, <1>3, <1>4, <1>5, Zenon

-----------------------------------------------------------------------------
(* Routes.  The patterns of a resource, by their segments.                 *)
LEMMA RouteShape ==
    ASSUME NEW S, {"*", "force-delete", "statuses"} \subseteq S, NEW p \in Seq(S),
           NEW r \in ResourceRoutes(p)
    PROVE  \E m, q :
             /\ r = <<m, q>> /\ q \in Seq(S)
             /\ Len(q) \in {Len(p), Len(p) + 1, Len(p) + 2}
             /\ \A i \in 1 .. Len(p) : q[i] = p[i]
             /\ Len(q) > Len(p) => q[Len(p) + 1] = "*"
             /\ Len(q) = Len(p) + 2 =>
                  q[Len(p) + 2] = IF m = "POST" THEN "force-delete" ELSE "statuses"
  <1>1. Len(p) \in Nat
    BY LenProperties
  <1>2. <<"*">> \in Seq(S) /\ <<"*", "force-delete">> \in Seq(S) /\ <<"*", "statuses">> \in Seq(S)
    OBVIOUS
  <1>3. \/ \E m : r = <<m, p>>
        \/ \E m : r = <<m, p \o <<"*">> >>
        \/ r = <<"POST", p \o <<"*", "force-delete">> >>
        \/ \E m \in {"GET", "PUT"} : r = <<m, p \o <<"*", "statuses">> >>
    BY DEF ResourceRoutes
  <1>4. CASE \E m : r = <<m, p>>
    <2>1. PICK m : r = <<m, p>>
      BY <1>4
    <2> QED
      BY <1>1, <2>1
  <1>5. CASE \E m : r = <<m, p \o <<"*">> >>
    <2>1. PICK m : r = <<m, p \o <<"*">> >>
      BY <1>5
    <2> DEFINE q == p \o <<"*">>
    <2>2. /\ q \in Seq(S) /\ Len(q) = Len(p) + 1
          /\ \A i \in 1 .. Len(p) : q[i] = p[i]
          /\ q[Len(p) + 1] = "*"
      <3> DEFINE t == <<"*">>
      <3>1. t \in Seq(S) /\ Len(t) = 1 /\ t[1] = "*"
        BY <1>2
      <3> HIDE DEF t
      <3>2. /\ q \in Seq(S) /\ Len(q) = Len(p) + Len(t)
            /\ \A i \in 1 .. Len(p) + Len(t) : q[i] = IF i <= Len(p) THEN p[i] ELSE t[i - Len(p)]
        BY <3>1, ConcatProperties DEF t
      <3>3. Len(p) + 1 \in 1 .. Len(p) + Len(t) /\ ~ (Len(p) + 1 <= Len(p)) /\ (Len(p) + 1) - Len(p) = 1
        BY <1>1, <3>1
      <3>4. q[Len(p) + 1] = "*"
        BY <3>1, <3>2, <3>3
      <3> HIDE DEF q
      <3> QED
        BY <1>1, <3>1, <3>2, <3>4
    <2>3. r = <<m, q>>
      BY <2>1
    <2> HIDE DEF q
    <2>4. Len(q) \in {Len(p), Len(p) + 1, Len(p) + 2} /\ ~ (Len(q) = Len(p) + 2)
      BY <1>1, <2>2
    <2> QED
      BY <2>2, <2>3, <2>4, Zenon
  <1>6. ASSUME NEW m, NEW last, <<"*", last>> \in Seq(S), r = <<m, p \o <<"*", last>> >>,
               last = IF m = "POST" THEN "force-delete" ELSE "statuses"
        PROVE  \E q : /\ r = <<m, q>> /\ q \in Seq(S)
                      /\ Len(q) = Len(p) + 2
                      /\ \A i \in 1 .. Len(p) : q[i] = p[i]
                      /\ q[Len(p) + 1] = "*"
                      /\ q[Len(p) + 2] = last
    <2> DEFINE q == p \o <<"*", last>>
    <2>2. /\ q \in Seq(S) /\ Len(q) = Len(p) + 2
          /\ \A i \in 1 .. Len(p) : q[i] = p[i]
          /\ q[Len(p) + 1] = "*"
          /\ q[Len(p) + 2] = last
      <3> DEFINE t == <<"*", last>>
      <3>1. t \in Seq(S) /\ Len(t) = 2 /\ t[1] = "*" /\ t[2] = last
        BY <1>6
      <3> HIDE DEF t
      <3>2. /\ q \in Seq(S) /\ Len(q) = Len(p) + Len(t)
            /\ \A i \in 1 .. Len(p) + Len(t) : q[i] = IF i <= Len(p) THEN p[i] ELSE t[i - Len(p)]
        BY <3>1, ConcatProperties DEF t
      <3>3. /\ Len(p) + 1 \in 1 .. Len(p) + Len(t) /\ ~ (Len(p) + 1 <= Len(p)) /\ (Len(p) + 1) - Len(p) = 1
            /\ Len(p) + 2 \in 1 .. Len(p) + Len(t) /\ ~ (Len(p) + 2 <= Len(p)) /\ (Len(p) + 2) - Len(p) = 2
        BY <1>1, <3>1
      <3>4. q[Len(p) + 1] = "*" /\ q[Len(p) + 2] = last
        BY <3>1, <3>2, <3>3
      <3> HIDE DEF q
      <3> QED
        BY <1>1, <3>1, <3>2, <3>4
    <2>3. r = <<m, q>>
      BY <1>6
    <2> HIDE DEF q
    <2> QED
      BY <2>2, <2>3, Zenon
  <1>7. CASE r = <<"POST", p \o <<"*", "force-delete">> >>
    BY <1>1, <1>2, <1>6, <1>7
  <1>8. CASE \E m \in {"GET", "PUT"} : r = <<m, p \o <<"*", "statuses">> >>
    <2>1. PICK m \in {"GET", "PUT"} : r = <<m, p \o <<"*", "statuses">> >>
      BY <1>8
    <2>2. m # "POST"
      OBVIOUS
    <2>3. PICK q : /\ r = <<m, q>> /\ q \in Seq(S)
                   /\ Len(q) = Len(p) + 2
                   /\ \A i \in 1 .. Len(p) : q[i] = p[i]
                   /\ q[Len(p) + 1] = "*"
                   /\ q[Len(p) + 2] = "statuses"
      BY <1>2, <1>6, <2>1, <2>2, Zenon
    <2>4. Len(q) \in {Len(p), Len(p) + 1, Len(p) + 2}
      BY <2>3
    <2> QED
      BY <2>2, <2>3, <2>4, Zenon
  <1> QED
    BY <1>3, <1>4, <1>5, <1>7, <1>8

(* A served route: the prefix it is under, and how it continues.           *)
RouteNames == {descriptors[k].plural : k \in Kinds}
                \cup {"*", "force-delete", "statuses", "resources", "openapi", "openapi.html"}
FixedRoots == {"resources", "openapi", "openapi.html"}

Prefix(p) ==
    /\ p \in Seq(RouteNames)
    /\ Len(p) \in {1, 3}
    /\ p[1] # "*"
    /\ Len(p) = 3 => p[2] = "*" /\ p[3] \notin {"*", "statuses", "force-delete"}

Continues(p, m, q) ==
    /\ q \in Seq(RouteNames)
    /\ Len(q) \in {Len(p), Len(p) + 1, Len(p) + 2}
    /\ \A i \in 1 .. Len(p) : q[i] = p[i]
    /\ Len(q) > Len(p) => q[Len(p) + 1] = "*"
    /\ Len(q) = Len(p) + 2 =>
         q[Len(p) + 2] = IF m = "POST" THEN "force-delete" ELSE "statuses"

RouteUnder(r, p, m, q) ==
    /\ r = <<IF p[1] \in FixedRoots THEN <<>> ELSE p, <<m, q>> >>
    /\ Prefix(p) /\ Continues(p, m, q)

(* The same, for the names in use.                                         *)
LEMMA RouteContinues ==
    ASSUME NEW p \in Seq(RouteNames), NEW r \in ResourceRoutes(p)
    PROVE  \E m, q : r = <<m, q>> /\ Continues(p, m, q)
  <1>1. {"*", "force-delete", "statuses"} \subseteq RouteNames
    BY DEF RouteNames
  <1>2. PICK m, q :
             /\ r = <<m, q>> /\ q \in Seq(RouteNames)
             /\ Len(q) \in {Len(p), Len(p) + 1, Len(p) + 2}
             /\ \A i \in 1 .. Len(p) : q[i] = p[i]
             /\ Len(q) > Len(p) => q[Len(p) + 1] = "*"
             /\ Len(q) = Len(p) + 2 =>
                  q[Len(p) + 2] = IF m = "POST" THEN "force-delete" ELSE "statuses"
    BY <1>1, RouteShape, Zenon
  <1> QED
    BY <1>2, Zenon DEF Continues

(* The roots that no entity owns are prefixes.                             *)
LEMMA FixedPrefix ==
    ASSUME NEW a \in FixedRoots
    PROVE  Prefix(<<a>>) /\ <<a>>[1] \in FixedRoots /\ <<a>> \in Seq(RouteNames)
  BY DEF FixedRoots, Prefix, RouteNames

(* So are an entity's, of its own root and of its owner's.                 *)
LEMMA KindPrefix ==
    ASSUME Complete, OwnersKnown, \A j \in Kinds : RouteSound(j),
           NEW k \in Kinds, NEW p \in RoutePrefixes(k)
    PROVE  Prefix(p) /\ p[1] \notin FixedRoots
  <1>1. \A j \in Kinds : /\ descriptors[j].plural # "*" /\ descriptors[j].plural \in RouteNames
                         /\ descriptors[j].plural \notin FixedRoots
    BY CompleteList DEF WellTyped, RouteNames, RouteSound, FixedRoots
  <1>2. CASE p = <<descriptors[k].plural>>
    BY <1>1, <1>2 DEF Prefix
  <1>3. CASE p # <<descriptors[k].plural>>
    <2>1. descriptors[k].parent # Unset /\ p = <<descriptors[descriptors[k].parent].plural, "*", descriptors[k].plural>>
      BY <1>3, Zenon DEF RoutePrefixes
    <2>2. descriptors[k].parent \in Kinds
      BY <2>1 DEF OwnersKnown
    <2>3. descriptors[k].plural \notin {"*", "statuses", "force-delete"}
      BY <1>1, <2>1 DEF RouteSound
    <2> DEFINE a == descriptors[descriptors[k].parent].plural
               b == descriptors[k].plural
    <2>4. p = <<a, "*", b>> /\ a \in RouteNames /\ b \in RouteNames /\ "*" \in RouteNames /\ a # "*"
          /\ a \notin FixedRoots /\ b \notin {"*", "statuses", "force-delete"}
      BY <1>1, <2>1, <2>2, <2>3 DEF RouteNames
    <2> HIDE DEF a, b
    <2> QED
      BY <2>4 DEF Prefix
  <1> QED
    BY <1>2, <1>3

(* What is served: the fixed routes and every entity's.                    *)
LEMMA ServedSplit ==
    /\ \A r \in Served :
         \/ \E x \in ResourceRoutes(<<"resources">>) : r = <<<<>>, x>>
         \/ r = <<<<>>, <<"GET", <<"openapi">> >> >>
         \/ r = <<<<>>, <<"GET", <<"openapi.html">> >> >>
         \/ \E k \in Kinds : \E p \in RoutePrefixes(k) : \E x \in ResourceRoutes(p) : r = <<p, x>>
    /\ \A k \in Kinds : \A p \in RoutePrefixes(k) : \A x \in ResourceRoutes(p) : <<p, x>> \in Served
  <1> DEFINE fixed == {<<<<>>, r>> : r \in ResourceRoutes(<<"resources">>)
                     \cup {<<"GET", <<"openapi">> >>, <<"GET", <<"openapi.html">> >>}}
             under(k) == UNION {{<<p, r>> : r \in ResourceRoutes(p)} : p \in RoutePrefixes(k)}
  <1>1. Served = fixed \cup UNION {under(k) : k \in Kinds}
    BY Zenon DEF Served
  <1>2. \A r \in fixed :
         \/ \E x \in ResourceRoutes(<<"resources">>) : r = <<<<>>, x>>
         \/ r = <<<<>>, <<"GET", <<"openapi">> >> >>
         \/ r = <<<<>>, <<"GET", <<"openapi.html">> >> >>
    BY Zenon
  <1>3. \A k \in Kinds : \A r :
          r \in under(k) <=> \E p \in RoutePrefixes(k) : \E x \in ResourceRoutes(p) : r = <<p, x>>
    <2> HIDE DEF fixed
    <2> QED
      OBVIOUS
  <1> HIDE DEF fixed, under
  <1>4. \A r : r \in Served <=> r \in fixed \/ \E k \in Kinds : r \in under(k)
    BY <1>1
  <1> QED
    BY <1>2, <1>3, <1>4

(* Every served route continues a prefix, which it is registered under.    *)
LEMMA ServedUnder ==
    ASSUME Complete, OwnersKnown, \A k \in Kinds : RouteSound(k), NEW r \in Served
    PROVE  \E p, m, q : RouteUnder(r, p, m, q)
  <1>1. CASE \E x \in ResourceRoutes(<<"resources">>) : r = <<<<>>, x>>
    <2>1. PICK x \in ResourceRoutes(<<"resources">>) : r = <<<<>>, x>>
      BY <1>1
    <2> DEFINE p == <<"resources">>
    <2>2. Prefix(p) /\ p[1] \in FixedRoots /\ p \in Seq(RouteNames)
      BY FixedPrefix DEF FixedRoots
    <2>3. PICK m, q : x = <<m, q>> /\ Continues(p, m, q)
      BY <2>2, RouteContinues, Zenon
    <2>4. r = <<<<>>, <<m, q>> >>
      BY <2>1, <2>3, Zenon
    <2> HIDE DEF p
    <2> QED
      BY <2>2, <2>3, <2>4, Zenon DEF RouteUnder
  <1>2. ASSUME NEW a \in FixedRoots, r = <<<<>>, <<"GET", <<a>> >> >>
        PROVE  \E p, m, q : RouteUnder(r, p, m, q)
    <2> DEFINE p == <<a>>
    <2>1. Prefix(p) /\ p[1] \in FixedRoots /\ p \in Seq(RouteNames) /\ Len(p) = 1
      BY FixedPrefix
    <2>2. r = <<<<>>, <<"GET", p>> >>
      BY <1>2
    <2> HIDE DEF p
    <2>3. Continues(p, "GET", p)
      BY <2>1 DEF Continues
    <2> QED
      BY <2>1, <2>2, <2>3, Zenon DEF RouteUnder
  <1>3. CASE r = <<<<>>, <<"GET", <<"openapi">> >> >> \/ r = <<<<>>, <<"GET", <<"openapi.html">> >> >>
    BY <1>2, <1>3, Zenon DEF FixedRoots
  <1>4. CASE \E k \in Kinds : \E p \in RoutePrefixes(k) : \E x \in ResourceRoutes(p) : r = <<p, x>>
    <2>1. PICK k \in Kinds : \E p \in RoutePrefixes(k) : \E x \in ResourceRoutes(p) : r = <<p, x>>
      BY <1>4
    <2>9. PICK p \in RoutePrefixes(k) : \E x \in ResourceRoutes(p) : r = <<p, x>>
      BY <2>1
    <2>10. PICK x \in ResourceRoutes(p) : r = <<p, x>>
      BY <2>9
    <2>2. Prefix(p) /\ p[1] \notin FixedRoots
      BY KindPrefix, Zenon
    <2>3. p \in Seq(RouteNames)
      BY <2>2 DEF Prefix
    <2>4. PICK m, q : x = <<m, q>> /\ Continues(p, m, q)
      BY <2>3, RouteContinues, Zenon
    <2> QED
      BY <2>10, <2>2, <2>4, Zenon DEF RouteUnder
  <1> QED
    BY <1>1, <1>3, <1>4, ServedSplit, Zenon

(* Of routes under sound prefixes, no two are in conflict.                 *)
LEMMA NoClash ==
    ASSUME NEW r, NEW p, NEW m, NEW q, RouteUnder(r, p, m, q),
           NEW s, NEW u, NEW n, NEW v, RouteUnder(s, u, n, v),
           Conflict(r, s)
    PROVE  r = s
  <1>1. m = n /\ Len(q) = Len(v) /\ \A i \in DOMAIN q : q[i] = v[i] \/ q[i] = "*" \/ v[i] = "*"
    <2>1. r[2][1] = m /\ r[2][2] = q /\ s[2][1] = n /\ s[2][2] = v
      BY DEF RouteUnder
    <2> QED
      BY <2>1, Zenon DEF Conflict
  <1>2. Prefix(p) /\ Prefix(u) /\ Continues(p, m, q) /\ Continues(u, m, v)
    BY <1>1 DEF RouteUnder
  <1>3. DOMAIN q = 1 .. Len(q) /\ Len(q) \in Nat
    BY <1>2 DEF Continues
  <1>10. Len(p) \in {1, 3} /\ Len(u) \in {1, 3} /\ Len(p) <= Len(q) /\ Len(u) <= Len(q)
    <2>1. Len(p) \in {1, 3} /\ Len(u) \in {1, 3}
      BY <1>2 DEF Prefix
    <2>2. Len(q) \in {Len(p), Len(p) + 1, Len(p) + 2} /\ Len(q) \in {Len(u), Len(u) + 1, Len(u) + 2}
      BY <1>1, <1>2, Zenon DEF Continues
    <2> QED
      BY <2>1, <2>2
  <1>11. 1 .. Len(p) \subseteq DOMAIN q /\ 1 .. Len(u) \subseteq DOMAIN q
    BY <1>3, <1>10
  <1>4. \A i \in 1 .. Len(p) : i \in DOMAIN q /\ q[i] = p[i]
    BY <1>2, <1>11, Zenon DEF Continues
  <1>5. \A i \in 1 .. Len(u) : i \in DOMAIN q /\ v[i] = u[i]
    BY <1>2, <1>11, Zenon DEF Continues
  <1>6. p[1] = u[1]
    <2>1. 1 \in 1 .. Len(p) /\ 1 \in 1 .. Len(u)
      BY <1>2 DEF Prefix
    <2> QED
      BY <1>1, <1>2, <1>4, <1>5, <2>1 DEF Prefix
  <1>7. Len(p) = Len(u)
    <2>1. ~ (Len(p) = 1 /\ Len(u) = 3)
      <3> SUFFICES ASSUME Len(p) = 1, Len(u) = 3 PROVE FALSE
        OBVIOUS
      <3>1. Len(q) = 3 /\ 3 \in DOMAIN q
        BY <1>1, <1>2, <1>3 DEF Continues
      <3>2. q[3] \in {"statuses", "force-delete"}
        BY <1>2, <3>1 DEF Continues
      <3>3. v[3] = u[3] /\ u[3] \notin {"*", "statuses", "force-delete"}
        BY <1>2, <1>5 DEF Prefix
      <3> QED
        BY <1>1, <3>1, <3>2, <3>3
    <2>2. ~ (Len(p) = 3 /\ Len(u) = 1)
      <3> SUFFICES ASSUME Len(p) = 3, Len(u) = 1 PROVE FALSE
        OBVIOUS
      <3>1. Len(v) = 3 /\ 3 \in DOMAIN q
        BY <1>1, <1>2, <1>3 DEF Continues
      <3>2. v[3] \in {"statuses", "force-delete"}
        BY <1>2, <3>1 DEF Continues
      <3>3. q[3] = p[3] /\ p[3] \notin {"*", "statuses", "force-delete"}
        BY <1>2, <1>4 DEF Prefix
      <3> QED
        BY <1>1, <3>1, <3>2, <3>3
    <2> QED
      BY <1>2, <2>1, <2>2 DEF Prefix
  <1>8. p = u
    <2>1. p \in Seq(RouteNames) /\ u \in Seq(RouteNames)
      BY <1>2 DEF Prefix
    <2>2. Len(p) = 3 => p[2] = u[2] /\ p[3] = u[3]
      <3>1. ASSUME Len(p) = 3 PROVE p[2] = u[2] /\ p[3] = u[3]
        <4>1. 3 \in 1 .. Len(p) /\ 3 \in 1 .. Len(u) /\ p[2] = u[2] /\ p[3] # "*" /\ u[3] # "*"
          BY <1>2, <1>7, <3>1 DEF Prefix
        <4> QED
          BY <1>1, <1>4, <1>5, <4>1
      <3> QED
        BY <3>1
    <2>3. \A i \in 1 .. Len(p) : p[i] = u[i]
      BY <1>2, <1>6, <2>2 DEF Prefix
    <2> QED
      BY <1>7, <2>1, <2>3, SeqEqual
  <1>9. q = v
    <2>1. q \in Seq(RouteNames) /\ v \in Seq(RouteNames)
      BY <1>2 DEF Continues
    <2>2. ASSUME NEW i \in 1 .. Len(q) PROVE q[i] = v[i]
      <3>1. i \in 1 .. Len(p) \/ i = Len(p) + 1 \/ i = Len(p) + 2
        BY <1>2 DEF Continues, Prefix
      <3>2. CASE i \in 1 .. Len(p)
        BY <1>2, <1>8, <3>2 DEF Continues
      <3>3. CASE i = Len(p) + 1
        <4>1. Len(q) > Len(p) /\ Len(v) > Len(u)
          BY <1>1, <1>2, <1>8, <3>3 DEF Prefix, Continues
        <4> QED
          BY <1>2, <1>8, <3>3, <4>1 DEF Continues
      <3>4. CASE i = Len(p) + 2
        <4>1. Len(q) = Len(p) + 2 /\ Len(v) = Len(u) + 2
          BY <1>1, <1>2, <1>8, <3>4 DEF Prefix, Continues
        <4> QED
          BY <1>2, <1>8, <3>4, <4>1 DEF Continues
      <3> QED
        BY <3>1, <3>2, <3>3, <3>4
    <2> QED
      BY <1>1, <2>1, <2>2, SeqEqual
  <1> QED
    BY <1>1, <1>8, <1>9, Zenon DEF RouteUnder

(* The same pattern twice is a conflict.                                   *)
LEMMA SameClash ==
    ASSUME NEW t, NEW u, NEW m, NEW q
    PROVE  Conflict(<<t, <<m, q>> >>, <<u, <<m, q>> >>)
  <1>1. <<t, <<m, q>> >>[2][1] = m /\ <<t, <<m, q>> >>[2][2] = q
    OBVIOUS
  <1>2. <<u, <<m, q>> >>[2][1] = m /\ <<u, <<m, q>> >>[2][2] = q
    OBVIOUS
  <1> QED
    BY <1>1, <1>2, Zenon DEF Conflict

(* A prefix of one segment and two more.                                   *)
LEMMA JoinThree ==
    ASSUME NEW x, NEW y, NEW z
    PROVE  <<x>> \o <<y, z>> = <<x, y, z>>
  <1> DEFINE S == {x, y, z}
             s == <<x>>
             t == <<y, z>>
             u == <<x, y, z>>
  <1>1. s \in Seq(S) /\ Len(s) = 1 /\ s[1] = x
    OBVIOUS
  <1>2. t \in Seq(S) /\ Len(t) = 2 /\ t[1] = y /\ t[2] = z
    OBVIOUS
  <1>3. u \in Seq(S) /\ Len(u) = 3 /\ u[1] = x /\ u[2] = y /\ u[3] = z
    OBVIOUS
  <1> HIDE DEF S, s, t, u
  <1>4. /\ s \o t \in Seq(S) /\ Len(s \o t) = Len(s) + Len(t)
        /\ \A i \in 1 .. Len(s) + Len(t) : (s \o t)[i] = IF i <= Len(s) THEN s[i] ELSE t[i - Len(s)]
    BY <1>1, <1>2, ConcatProperties
  <1>5. Len(s \o t) = 3 /\ \A i \in 1 .. 3 : (s \o t)[i] = u[i]
    BY <1>1, <1>2, <1>3, <1>4
  <1>6. s \o t = u
    BY <1>3, <1>4, <1>5, SeqEqual
  <1> QED
    BY <1>6 DEF s, t, u

(* RegisterEntityRoutes: the mux accepts the routes of sound plurals only. *)
LEMMA RoutesMean ==
    ASSUME Complete, OwnersKnown
    PROVE  RoutesOK <=> \A k \in Kinds : RouteSound(k)
  <1>1. ASSUME \A k \in Kinds : RouteSound(k) PROVE RoutesOK
    <2>1. \A k \in Kinds : descriptors[k].plural # "resources"
      BY <1>1 DEF RouteSound
    <2>2. ASSUME NEW r \in Served, NEW s \in Served, r # s PROVE ~ Conflict(r, s)
      <3>1. PICK p, m, q : RouteUnder(r, p, m, q)
        BY <1>1, ServedUnder, Zenon
      <3>2. PICK u, n, v : RouteUnder(s, u, n, v)
        BY <1>1, ServedUnder, Zenon
      <3> QED
        BY <2>2, <3>1, <3>2, NoClash, Zenon
    <2> QED
      BY <2>1, <2>2, Zenon DEF RoutesOK
  <1>2. ASSUME NEW t, NEW u, NEW m, NEW q, RoutesOK, t # u,
               <<t, <<m, q>> >> \in Served, <<u, <<m, q>> >> \in Served
        PROVE  FALSE
    <2>1. <<t, <<m, q>> >> # <<u, <<m, q>> >>
      BY <1>2
    <2> QED
      BY <1>2, <2>1, SameClash, Zenon DEF RoutesOK
  <1>3. ASSUME NEW k \in Kinds, NEW p \in RoutePrefixes(k), NEW x \in ResourceRoutes(p)
        PROVE  <<p, x>> \in Served
    BY ServedSplit
  <1>4. ASSUME RoutesOK, NEW k \in Kinds PROVE RouteSound(k)
    <2> DEFINE b == descriptors[k].plural
    <2>1. b # "resources"
      BY <1>4 DEF RoutesOK
    <2>2. <<b>> \in RoutePrefixes(k)
      BY Zenon DEF RoutePrefixes
    <2>3. b \notin {"openapi", "openapi.html"}
      <3> SUFFICES ASSUME b \in {"openapi", "openapi.html"} PROVE FALSE
        OBVIOUS
      <3>1. <<<<>>, <<"GET", <<b>> >> >> \in Served
        BY Zenon DEF Served
      <3>2. <<"GET", <<b>> >> \in ResourceRoutes(<<b>>)
        BY Zenon DEF ResourceRoutes
      <3>3. <<<<b>>, <<"GET", <<b>> >> >> \in Served
        BY <1>3, <2>2, <3>2, Zenon
      <3>4. <<>> # <<b>>
        OBVIOUS
      <3> QED
        BY <1>2, <1>4, <3>1, <3>3, <3>4, Zenon
    <2>4. ASSUME descriptors[k].parent # Unset, NEW m, NEW last,
                 <<m, last>> \in {<<"POST", "force-delete">>, <<"GET", "statuses">>},
                 b = last
          PROVE  FALSE
      <3> DEFINE P == descriptors[descriptors[k].parent].plural
      <3>1. descriptors[k].parent \in Kinds
        BY <2>4 DEF OwnersKnown
      <3>2. <<P>> \in RoutePrefixes(descriptors[k].parent)
        BY Zenon DEF RoutePrefixes
      <3>3. <<P, "*", b>> \in RoutePrefixes(k)
        BY <2>4, Zenon DEF RoutePrefixes
      <3>4. <<P>> \o <<"*", last>> = <<P, "*", b>>
        BY <2>4, JoinThree, Zenon
      <3>5. <<m, <<P>> \o <<"*", last>> >> \in ResourceRoutes(<<P>>)
        <4>1. (m = "POST" /\ last = "force-delete") \/ (m = "GET" /\ last = "statuses")
          BY <2>4
        <4> QED
          BY <4>1, Zenon DEF ResourceRoutes
      <3>6. <<m, <<P, "*", b>> >> \in ResourceRoutes(<<P, "*", b>>)
        <4>1. m \in {"GET", "POST"}
          BY <2>4
        <4> QED
          BY <4>1, Zenon DEF ResourceRoutes
      <3>7. <<<<P>>, <<m, <<P, "*", b>> >> >> \in Served
        BY <1>3, <3>1, <3>2, <3>4, <3>5, Zenon
      <3>8. <<<<P, "*", b>>, <<m, <<P, "*", b>> >> >> \in Served
        BY <1>3, <3>3, <3>6, Zenon
      <3>9. <<P>> # <<P, "*", b>>
        <4> HIDE DEF P, b
        <4> QED
          OBVIOUS
      <3> HIDE DEF P, b
      <3> QED
        BY <1>2, <1>4, <3>7, <3>8, <3>9, Zenon
    <2>5. descriptors[k].parent # Unset => b \notin {"statuses", "force-delete"}
      BY <2>4
    <2> QED
      BY <2>1, <2>3, <2>5 DEF RouteSound
  <1> QED
    BY <1>1, <1>4, Zenon

-----------------------------------------------------------------------------
(* What the descriptors alone decide.                                      *)
LEMMA SameDescriptors ==
    ASSUME descriptors' = descriptors
    PROVE  /\ Kinds' = Kinds
           /\ \A k : OwnersEnd(k)' <=> OwnersEnd(k)
           /\ \A k, P : DescriptorOK(k, P)' <=> DescriptorOK(k, P)
           /\ \A k : ConditionsOK(k)' <=> ConditionsOK(k)
           /\ SchemasOK' <=> SchemasOK
           /\ RoutesOK' <=> RoutesOK
           /\ \A S : Descriptors(S)' = Descriptors(S)
  <1>1. Kinds' = Kinds
    BY DEF Kinds
  <1>2. \A k : OwnersEnd(k)' <=> OwnersEnd(k)
    BY <1>1, ZenonT(60) DEF OwnersEnd
  <1>3. \A k, P : DescriptorOK(k, P)' <=> DescriptorOK(k, P)
    BY <1>1, <1>2, Zenon DEF DescriptorOK, ReferenceOK
  <1>4. \A k : ConditionsOK(k)' <=> ConditionsOK(k)
    <2>1. ReservedConditionTypes' = ReservedConditionTypes
      BY <1>1, Zenon DEF ReservedConditionTypes
    <2> QED
      BY <2>1, Zenon DEF ConditionsOK
  <1>5. SchemasOK' <=> SchemasOK
    BY <1>1, Zenon DEF SchemasOK
  <1>6. RoutesOK' <=> RoutesOK
    <2>1. \A k : RoutePrefixes(k)' = RoutePrefixes(k)
      BY Zenon DEF RoutePrefixes
    <2>2. Served' = Served
      BY <1>1, <2>1, Zenon DEF Served
    <2> QED
      BY <1>1, <2>2, Zenon DEF RoutesOK
  <1>7. \A S : Descriptors(S)' = Descriptors(S)
    BY Zenon DEF Descriptors
  <1> QED
    BY <1>1, <1>2, <1>3, <1>4, <1>5, <1>6, <1>7, Zenon

(* A step that leaves list and map alone keeps the map loaded.             *)
LEMMA LoadedStays ==
    ASSUME Loaded, config' = config, descriptors' = descriptors,
           stage' \notin {"load", "panic"} => Cardinality(Kinds) = Len(config)
    PROVE  Loaded'
  <1>1. Kinds' = Kinds
    BY SameDescriptors
  <1> QED
    BY <1>1 DEF Loaded

(* After loading the whole list is in the map.                             *)
LEMMA PastLoading ==
    ASSUME Loaded, stage \notin {"load", "panic"}
    PROVE  Complete
  BY Zenon DEF Loaded, Complete

(* A panic is right when the list is not sound.                            *)
LEMMA PanicStep ==
    ASSUME RegistryInv, Panic, ~ Sound(config)
    PROVE  RegistryInv'
  <1>1. stage' = "panic" /\ config' = config /\ descriptors' = descriptors
    BY DEF Panic
  <1>2. Loaded'
    BY <1>1, LoadedStays DEF RegistryInv
  <1>3. DescriptorsVetted'
    <2>1. Vetted("descriptors", {"conditions", "references", "schemas", "routes", "serving"})' = {}
      BY <1>1 DEF Vetted
    <2> QED
      BY <2>1, Zenon DEF DescriptorsVetted
  <1>4. ConditionsVetted'
    <2>1. Vetted("conditions", {"references", "schemas", "routes", "serving"})' = {}
      BY <1>1 DEF Vetted
    <2> QED
      BY <2>1, Zenon DEF ConditionsVetted
  <1>5. Searched'
    BY <1>1 DEF Searched
  <1>6. StartsIffSound'
    <2>1. Sound(config)' <=> Sound(config)
      BY <1>1, Zenon
    <2> QED
      BY <1>1, <2>1 DEF StartsIffSound
  <1> QED
    BY <1>1, <1>2, <1>3, <1>4, <1>5, <1>6 DEF RegistryInv

(* Loading.                                                                *)
LEMMA RegisterStep ==
    ASSUME RegistryInv, Register
    PROVE  RegistryInv'
  <1> DEFINE n == Cardinality(Kinds)
             d == config[n + 1]
  <1>1. /\ stage = "load" /\ n < Len(config)
        /\ IF d.kind = Unset \/ d.plural = Unset \/ d.kind \in Kinds
             THEN Panic
             ELSE /\ descriptors' = Put(descriptors, d.kind, d)
                  /\ UNCHANGED <<config, stage, checked, colour, path>>
    BY Zenon DEF Register
  <1>2. Loaded /\ Searched /\ checked = {}
    BY <1>1 DEF RegistryInv
  <1>3. Len(config) \in Nat /\ DOMAIN config = 1 .. Len(config) /\ n \in Nat
    BY <1>2, ConfigsAssumption, FS_CardinalityType DEF Loaded
  <1>4. n + 1 \in DOMAIN config /\ 1 .. n \subseteq DOMAIN config /\ n + 1 \notin 1 .. n
        /\ 1 .. n + 1 = 1 .. n \cup {n + 1}
    <2> HIDE DEF n
    <2> QED
      BY <1>1, <1>3
  <1>5. /\ Kinds = {config[i].kind : i \in 1 .. n}
        /\ \A i \in 1 .. n : /\ config[i].kind # Unset /\ config[i].plural # Unset
                             /\ descriptors[config[i].kind] = config[i]
        /\ \A i, j \in 1 .. n : config[i].kind = config[j].kind => i = j
    BY <1>2, Zenon DEF Loaded
  <1>6. CASE d.kind = Unset \/ d.plural = Unset \/ d.kind \in Kinds
    <2>1. ~ Sound(config)
      <3> SUFFICES ASSUME Sound(config) PROVE FALSE
        OBVIOUS
      <3>1. d \in Elements(config)
        BY <1>4, Zenon DEF Elements
      <3>2. CASE d.kind = Unset \/ d.plural = Unset
        <4>1. Unset \in {x.kind : x \in Elements(config)} \cup {x.plural : x \in Elements(config)}
          BY <3>1, <3>2, Zenon
        <4> QED
          BY <4>1, Zenon DEF Sound
      <3>3. CASE d.kind \in Kinds
        <4>1. PICK i \in 1 .. n : config[i].kind = d.kind
          BY <1>5, <3>3, ZenonT(60)
        <4>2. Distinct([j \in DOMAIN config |-> config[j].kind])
          BY Zenon DEF Sound
        <4>3. i \in DOMAIN config /\ i # n + 1
          BY <1>4, <4>1, Zenon
        <4> HIDE DEF n
        <4> QED
          BY <1>4, <4>1, <4>2, <4>3 DEF Distinct
      <3> QED
        BY <1>6, <3>2, <3>3
    <2>2. Panic
      BY <1>1, <1>6
    <2> QED
      BY <2>1, <2>2, PanicStep
  <1>7. CASE ~ (d.kind = Unset \/ d.plural = Unset \/ d.kind \in Kinds)
    <2>1. /\ descriptors' = Put(descriptors, d.kind, d)
          /\ config' = config /\ stage' = "load" /\ checked' = {} /\ colour' = colour /\ path' = path
      BY <1>1, <1>2, <1>7
    <2>2. /\ Kinds' = Kinds \cup {d.kind}
          /\ \A x \in Kinds : descriptors'[x] = descriptors[x]
          /\ descriptors'[d.kind] = d
      <3> HIDE DEF d
      <3> QED
        BY <1>7, <2>1 DEF Put, Kinds
    <2>3. IsFiniteSet(Kinds') /\ Cardinality(Kinds') = n + 1
      <3>1. IsFiniteSet(Kinds)
        BY <1>2 DEF Loaded
      <3> HIDE DEF d
      <3> QED
        BY <1>7, <2>2, <3>1, FS_AddElement
    <2>4. Kinds' = {config[i].kind : i \in 1 .. n + 1}
      <3>1. {config[i].kind : i \in 1 .. n + 1} = {config[i].kind : i \in 1 .. n} \cup {d.kind}
        BY <1>4, Zenon
      <3> QED
        BY <1>5, <2>2, <3>1, Zenon
    <2>5. \A i \in 1 .. n + 1 : /\ config[i].kind # Unset /\ config[i].plural # Unset
                                /\ descriptors'[config[i].kind] = config[i]
      <3> TAKE i \in 1 .. n + 1
      <3>1. CASE i \in 1 .. n
        <4>1. config[i].kind \in Kinds
          BY <1>5, <3>1, Zenon
        <4> QED
          BY <1>5, <2>2, <3>1, <4>1, Zenon
      <3>2. CASE i = n + 1
        BY <1>7, <2>2, <3>2, Zenon
      <3> QED
        BY <1>4, <3>1, <3>2, Zenon
    <2>6. \A i, j \in 1 .. n + 1 : config[i].kind = config[j].kind => i = j
      <3>1. \A i \in 1 .. n : config[i].kind # d.kind
        BY <1>5, <1>7, Zenon
      <3> QED
        BY <1>4, <1>5, <3>1, Zenon
    <2>7. Loaded'
      <3>1. n + 1 <= Len(config)
        <4> HIDE DEF n
        <4> QED
          BY <1>1, <1>3
      <3>2. config' \in Configs
        BY <1>2, <2>1, Zenon DEF Loaded
      <3> HIDE DEF n, d
      <3>3. stage' \notin {"load", "panic"} => Cardinality(Kinds') = Len(config)
        BY <2>1
      <3> QED
        BY <2>1, <2>3, <2>4, <2>5, <2>6, <3>1, <3>2, <3>3, Zenon DEF Loaded
    <2>8. DescriptorsVetted' /\ ConditionsVetted'
      <3>1. /\ Vetted("descriptors", {"conditions", "references", "schemas", "routes", "serving"})' = {}
            /\ Vetted("conditions", {"references", "schemas", "routes", "serving"})' = {}
        BY <2>1 DEF Vetted
      <3> QED
        BY <3>1, Zenon DEF DescriptorsVetted, ConditionsVetted
    <2>9. Searched'
      BY <1>1, <1>2, <2>1 DEF Searched
    <2> QED
      BY <2>1, <2>7, <2>8, <2>9 DEF RegistryInv, StartsIffSound
  <1> QED
    BY <1>6, <1>7

-----------------------------------------------------------------------------
(* The two loops.                                                          *)
LEMMA DescriptorsVettedIs ==
    ASSUME descriptors' = descriptors, NEW T \in SUBSET Kinds,
           Vetted("descriptors", {"conditions", "references", "schemas", "routes", "serving"})' = T,
           \A k \in T : DescriptorOK(k, {descriptors[j].plural : j \in T \ {k}})
    PROVE  DescriptorsVetted'
  <1>1. Kinds' = Kinds /\ \A k, P : DescriptorOK(k, P)' <=> DescriptorOK(k, P)
    BY SameDescriptors
  <1> QED
    BY <1>1, Zenon DEF DescriptorsVetted

(* The same for the second loop.                                           *)
LEMMA ConditionsVettedIs ==
    ASSUME descriptors' = descriptors, NEW T \in SUBSET Kinds,
           Vetted("conditions", {"references", "schemas", "routes", "serving"})' = T,
           \A k \in T : ConditionsOK(k)
    PROVE  ConditionsVetted'
  <1>1. Kinds' = Kinds /\ \A k : ConditionsOK(k)' <=> ConditionsOK(k)
    BY SameDescriptors
  <1> QED
    BY <1>1, Zenon DEF ConditionsVetted

(* LoadDescriptors has returned: nothing is visited yet.                   *)
LEMMA RegisteredStep ==
    ASSUME RegistryInv, Registered
    PROVE  RegistryInv'
  <1>1. /\ stage = "load" /\ stage' = "descriptors" /\ checked' = {} /\ config' = config
        /\ descriptors' = descriptors /\ colour' = colour /\ path' = path
        /\ Cardinality(Kinds) = Len(config)
    BY DEF Registered, Advance
  <1>2. Loaded'
    BY <1>1, LoadedStays DEF RegistryInv
  <1>3. DescriptorsVetted' /\ ConditionsVetted'
    <2>1. /\ Vetted("descriptors", {"conditions", "references", "schemas", "routes", "serving"})' = {}
          /\ Vetted("conditions", {"references", "schemas", "routes", "serving"})' = {}
      BY <1>1 DEF Vetted
    <2> QED
      BY <2>1, Zenon DEF DescriptorsVetted, ConditionsVetted
  <1>4. Searched'
    BY <1>1 DEF RegistryInv, Searched
  <1> QED
    BY <1>1, <1>2, <1>3, <1>4 DEF RegistryInv, StartsIffSound

(* Validate, first loop, visits a kind: visited or not, all stay in order. *)
LEMMA CheckDescriptorStep ==
    ASSUME RegistryInv, NEW k \in Kinds, CheckDescriptor(k)
    PROVE  RegistryInv'
  <1> DEFINE T == checked \cup {k}
  <1>1. stage = "descriptors" /\ k \notin checked
    BY DEF CheckDescriptor
  <1>2. Loaded /\ Complete
    BY <1>1, PastLoading DEF RegistryInv
  <1>3. checked \subseteq Kinds
        /\ \A j \in checked : DescriptorOK(j, {descriptors[i].plural : i \in checked \ {j}})
    <2>1. Vetted("descriptors", {"conditions", "references", "schemas", "routes", "serving"}) = checked
      BY <1>1 DEF Vetted
    <2>2. DescriptorsVetted
      BY DEF RegistryInv
    <2> QED
      BY <2>1, <2>2, Zenon DEF DescriptorsVetted
  <1>4. checked \ {k} = checked /\ T \ {k} = checked
    BY <1>1
  <1>5. CASE DescriptorOK(k, {descriptors[j].plural : j \in checked})
    <2>1. /\ checked' = T /\ stage' = "descriptors" /\ config' = config
          /\ descriptors' = descriptors /\ colour' = colour /\ path' = path
      BY <1>1, <1>5 DEF CheckDescriptor
    <2>2. \A j \in checked : descriptors[j].plural = descriptors[k].plural => j = k
      BY <1>2, <1>3, <1>4, <1>5, DescriptorMeans
    <2>3. ASSUME NEW j \in T PROVE DescriptorOK(j, {descriptors[i].plural : i \in T \ {j}})
      <3>1. CASE j = k
        BY <1>4, <1>5, <3>1
      <3>2. CASE j # k
        <4>1. j \in checked /\ j \in Kinds /\ T \in SUBSET Kinds /\ checked \in SUBSET Kinds
          BY <1>3, <3>2
        <4>2. DescriptorOK(j, {descriptors[i].plural : i \in checked \ {j}})
          BY <1>3, <4>1
        <4>3. /\ DescriptorSound(j) /\ (descriptors[j].parent # Unset => OwnersEnd(j))
              /\ \A i \in checked : descriptors[i].plural = descriptors[j].plural => i = j
          BY <1>2, <4>1, <4>2, DescriptorMeans
        <4>4. \A i \in T : descriptors[i].plural = descriptors[j].plural => i = j
          BY <2>2, <3>2, <4>1, <4>3
        <4> HIDE DEF T
        <4> QED
          BY <1>2, <4>1, <4>3, <4>4, DescriptorMeans
      <3> QED
        BY <3>1, <3>2
    <2>4. DescriptorsVetted'
      <3>1. T \in SUBSET Kinds
        BY <1>3
      <3>2. Vetted("descriptors", {"conditions", "references", "schemas", "routes", "serving"})' = T
        BY <2>1 DEF Vetted
      <3> HIDE DEF T
      <3> QED
        BY <2>1, <2>3, <3>1, <3>2, DescriptorsVettedIs
    <2>5. ConditionsVetted'
      <3>1. Vetted("conditions", {"references", "schemas", "routes", "serving"})' = {}
        BY <2>1 DEF Vetted
      <3> QED
        BY <3>1, Zenon DEF ConditionsVetted
    <2>6. Loaded'
      BY <1>2, <2>1, LoadedStays DEF Complete
    <2>7. Searched'
      BY <1>1, <2>1 DEF RegistryInv, Searched
    <2> QED
      BY <2>1, <2>4, <2>5, <2>6, <2>7 DEF RegistryInv, StartsIffSound
  <1>6. CASE ~ DescriptorOK(k, {descriptors[j].plural : j \in checked})
    <2>1. ~ SoundParts
      <3> SUFFICES ASSUME SoundParts PROVE FALSE
        OBVIOUS
      <3>1. /\ DescriptorSound(k)
            /\ \A j \in checked : descriptors[j].plural = descriptors[k].plural => j = k
        BY <1>3 DEF SoundParts, PluralsDiffer
      <3>2. OwnersEnd(k)
        <4>1. IsFiniteSet(Kinds) /\ Keyed
          BY <1>2, CompleteList DEF Loaded
        <4>2. OwnersKnown
          BY Zenon DEF SoundParts, DescriptorSound, OwnersKnown
        <4> QED
          BY <4>1, <4>2, RankedOwnersEnd DEF SoundParts
      <3> QED
        BY <1>2, <1>3, <1>4, <1>6, <3>1, <3>2, DescriptorMeans
    <2>2. ~ Sound(config)
      BY <1>2, <2>1, SoundByKind
    <2>3. Panic
      BY <1>6 DEF CheckDescriptor
    <2> QED
      BY <2>2, <2>3, PanicStep
  <1> QED
    BY <1>5, <1>6

(* The first loop is over.                                                 *)
LEMMA ToConditionsStep ==
    ASSUME RegistryInv, checked = Kinds, Advance("descriptors", "conditions")
    PROVE  RegistryInv'
  <1>1. /\ stage = "descriptors" /\ stage' = "conditions" /\ checked' = {} /\ config' = config
        /\ descriptors' = descriptors /\ colour' = colour /\ path' = path
    BY DEF Advance
  <1>2. Loaded /\ Complete
    BY <1>1, PastLoading DEF RegistryInv
  <1>3. Loaded'
    BY <1>1, <1>2, LoadedStays DEF Complete
  <1>4. DescriptorsVetted'
    <2>1. Vetted("descriptors", {"conditions", "references", "schemas", "routes", "serving"}) = Kinds
      BY <1>1 DEF Vetted
    <2>2. Vetted("descriptors", {"conditions", "references", "schemas", "routes", "serving"})' = Kinds
      BY <1>1, SameDescriptors DEF Vetted
    <2>3. DescriptorsVetted
      BY DEF RegistryInv
    <2>4. \A k \in Kinds : DescriptorOK(k, {descriptors[j].plural : j \in Kinds \ {k}})
      BY <2>1, <2>3, Zenon DEF DescriptorsVetted
    <2> QED
      BY <1>1, <2>2, <2>4, DescriptorsVettedIs
  <1>5. ConditionsVetted'
    <2>1. Vetted("conditions", {"references", "schemas", "routes", "serving"})' = {}
      BY <1>1 DEF Vetted
    <2> QED
      BY <2>1, Zenon DEF ConditionsVetted
  <1>6. Searched'
    BY <1>1 DEF RegistryInv, Searched
  <1> QED
    BY <1>1, <1>3, <1>4, <1>5, <1>6 DEF RegistryInv, StartsIffSound

(* From here on the first loop has found every descriptor in order.        *)
Later == {"conditions", "references", "schemas", "routes", "serving"}

(* Hence ownership has no cycle and plurals differ.                        *)
LEMMA AllVetted ==
    ASSUME RegistryInv, stage \in Later
    PROVE  /\ Complete /\ OwnersKnown
           /\ \A k \in Kinds : DescriptorOK(k, {descriptors[j].plural : j \in Kinds \ {k}})
           /\ PluralsDiffer
           /\ \A k \in Kinds : DescriptorSound(k)
           /\ Ranked(OwnershipOf(Descriptors(Kinds)), Kinds)
  <1>1. Complete
    BY PastLoading DEF RegistryInv, Later
  <1>2. \A k \in Kinds : DescriptorOK(k, {descriptors[j].plural : j \in Kinds \ {k}})
    <2>1. Vetted("descriptors", {"conditions", "references", "schemas", "routes", "serving"}) = Kinds
      BY DEF Vetted, Later
    <2>2. DescriptorsVetted
      BY DEF RegistryInv
    <2> QED
      BY <2>1, <2>2, Zenon DEF DescriptorsVetted
  <1>3. /\ PluralsDiffer
        /\ \A k \in Kinds : DescriptorSound(k)
        /\ Ranked(OwnershipOf(Descriptors(Kinds)), Kinds)
    BY <1>1, <1>2, DescriptorsMean, Zenon
  <1>4. OwnersKnown
    BY <1>3, Zenon DEF DescriptorSound, OwnersKnown
  <1> QED
    BY <1>1, <1>2, <1>3, <1>4, Zenon

(* And this stays so.                                                      *)
LEMMA VettedStays ==
    ASSUME RegistryInv, stage \in Later, stage' \in Later,
           config' = config, descriptors' = descriptors
    PROVE  Loaded' /\ DescriptorsVetted'
  <1>1. Complete /\ \A k \in Kinds : DescriptorOK(k, {descriptors[j].plural : j \in Kinds \ {k}})
    BY AllVetted, Zenon
  <1>2. Vetted("descriptors", {"conditions", "references", "schemas", "routes", "serving"})' = Kinds
    BY SameDescriptors DEF Vetted, Later
  <1> QED
    BY <1>1, <1>2, LoadedStays, DescriptorsVettedIs DEF Complete

(* ValidateEntityConditions visits a kind.                                 *)
LEMMA CheckConditionsStep ==
    ASSUME RegistryInv, NEW k \in Kinds, CheckConditions(k)
    PROVE  RegistryInv'
  <1>1. stage = "conditions" /\ k \notin checked
    BY DEF CheckConditions
  <1>2. checked \subseteq Kinds /\ \A j \in checked : ConditionsOK(j)
    <2>1. Vetted("conditions", {"references", "schemas", "routes", "serving"}) = checked
      BY <1>1 DEF Vetted
    <2>2. ConditionsVetted
      BY DEF RegistryInv
    <2> QED
      BY <2>1, <2>2, Zenon DEF ConditionsVetted
  <1>3. CASE ConditionsOK(k)
    <2>1. /\ checked' = checked \cup {k} /\ stage' = "conditions" /\ config' = config
          /\ descriptors' = descriptors /\ colour' = colour /\ path' = path
      BY <1>1, <1>3 DEF CheckConditions
    <2>2. Loaded' /\ DescriptorsVetted'
      BY <1>1, <2>1, VettedStays DEF Later
    <2>3. ConditionsVetted'
      <3> DEFINE T == checked \cup {k}
      <3>1. Vetted("conditions", {"references", "schemas", "routes", "serving"})' = T
        BY <2>1 DEF Vetted
      <3>2. T \in SUBSET Kinds /\ \A j \in T : ConditionsOK(j)
        BY <1>2, <1>3
      <3> HIDE DEF T
      <3> QED
        BY <2>1, <3>1, <3>2, ConditionsVettedIs
    <2>4. Searched'
      BY <1>1, <2>1 DEF RegistryInv, Searched
    <2> QED
      BY <2>1, <2>2, <2>3, <2>4 DEF RegistryInv, StartsIffSound
  <1>4. CASE ~ ConditionsOK(k)
    <2>1. ~ Sound(config)
      BY <1>1, <1>4, AllVetted, SoundByKind DEF SoundParts, Later
    <2>2. Panic
      BY <1>4 DEF CheckConditions
    <2> QED
      BY <2>1, <2>2, PanicStep
  <1> QED
    BY <1>3, <1>4

-----------------------------------------------------------------------------
(* The search.  Requirements are edges between kinds.                      *)
LEMMA RequirementEdges ==
    ASSUME Keyed, NEW S \in SUBSET Kinds
    PROVE  /\ \A e \in RequirementsOf(Descriptors(S)) :
                \E k \in S : \E r \in DOMAIN descriptors[k].refs :
                  descriptors[k].refs[r].min > 0 /\ e = <<k, descriptors[k].refs[r].target>>
           /\ \A k \in S : \A r \in DOMAIN descriptors[k].refs :
                descriptors[k].refs[r].min > 0 =>
                  <<k, descriptors[k].refs[r].target>> \in RequirementsOf(Descriptors(S))
  <1> DEFINE edgesOf(d) == {<<d.kind, r.target>> : r \in {x \in Elements(d.refs) : x.min > 0}}
  <1>1. RequirementsOf(Descriptors(S)) = UNION {edgesOf(d) : d \in Descriptors(S)}
    BY Zenon DEF RequirementsOf
  <1>2. ASSUME NEW k \in S
        PROVE  \A e : e \in edgesOf(descriptors[k]) <=>
                 \E r \in DOMAIN descriptors[k].refs :
                   descriptors[k].refs[r].min > 0 /\ e = <<k, descriptors[k].refs[r].target>>
    <2>1. descriptors[k].kind = k
      BY DEF Keyed
    <2> QED
      BY <2>1, Zenon DEF Elements
  <1>3. \A e : e \in RequirementsOf(Descriptors(S)) <=> \E k \in S : e \in edgesOf(descriptors[k])
    <2> HIDE DEF edgesOf
    <2> QED
      BY <1>1, Zenon DEF Descriptors
  <1> HIDE DEF edgesOf
  <1>4. ASSUME NEW e \in RequirementsOf(Descriptors(S))
        PROVE  \E k \in S : \E r \in DOMAIN descriptors[k].refs :
                 descriptors[k].refs[r].min > 0 /\ e = <<k, descriptors[k].refs[r].target>>
    <2>1. PICK k \in S : e \in edgesOf(descriptors[k])
      BY <1>3
    <2> QED
      BY <1>2, <2>1, Zenon
  <1>5. ASSUME NEW k \in S, NEW r \in DOMAIN descriptors[k].refs, descriptors[k].refs[r].min > 0
        PROVE  <<k, descriptors[k].refs[r].target>> \in RequirementsOf(Descriptors(S))
    <2>1. <<k, descriptors[k].refs[r].target>> \in edgesOf(descriptors[k])
      BY <1>2, <1>5
    <2> QED
      BY <1>3, <2>1, Zenon
  <1> QED
    BY <1>4, <1>5, Zenon

(* One kind changes its colour.                                            *)
LEMMA ColourPut ==
    ASSUME NEW k, NEW v, colour' = Put(colour, k, v)
    PROVE  \A j : Colour(j)' = IF j = k THEN v ELSE Colour(j)
  BY DEF Colour, Put

Search == Stacked /\ StackFalls /\ StackLookedAt /\ ClosedRanked

(* The part of the invariant that the search leaves alone.                 *)
LEMMA SearchStep ==
    ASSUME RegistryInv, stage = "references", stage' = "references",
           config' = config, descriptors' = descriptors, Search'
    PROVE  RegistryInv'
  <1>1. Loaded' /\ DescriptorsVetted'
    BY VettedStays DEF Later
  <1>2. ConditionsVetted'
    <2>1. /\ Vetted("conditions", {"references", "schemas", "routes", "serving"}) = Kinds
          /\ Vetted("conditions", {"references", "schemas", "routes", "serving"})' = Kinds
      BY SameDescriptors DEF Vetted
    <2>2. \A k \in Kinds : ConditionsOK(k)
      BY <2>1, Zenon DEF RegistryInv, ConditionsVetted
    <2> QED
      BY <2>1, <2>2, ConditionsVettedIs
  <1>3. Searched'
    BY DEF Searched, Search
  <1> QED
    BY <1>1, <1>2, <1>3 DEF RegistryInv, StartsIffSound

(* What holds while the search runs.                                       *)
LEMMA Searching ==
    ASSUME RegistryInv, stage = "references"
    PROVE  /\ Complete /\ Keyed /\ IsFiniteSet(Kinds) /\ Search
           /\ \A k \in Kinds : WellTyped(descriptors[k]) /\ DescriptorSound(k)
  BY AllVetted, CompleteList DEF RegistryInv, Searched, Search, Later, Complete, Loaded

(* The search begins with an empty stack and nothing closed.               *)
LEMMA ToReferencesStep ==
    ASSUME RegistryInv, checked = Kinds, Advance("conditions", "references")
    PROVE  RegistryInv'
  <1>1. /\ stage = "conditions" /\ stage' = "references" /\ checked' = {} /\ config' = config
        /\ descriptors' = descriptors /\ colour' = colour /\ path' = path
    BY DEF Advance
  <1>2. Loaded' /\ DescriptorsVetted'
    BY <1>1, VettedStays DEF Later
  <1>3. ConditionsVetted'
    <2>1. /\ Vetted("conditions", {"references", "schemas", "routes", "serving"}) = Kinds
          /\ Vetted("conditions", {"references", "schemas", "routes", "serving"})' = Kinds
      BY <1>1, SameDescriptors DEF Vetted
    <2>2. \A k \in Kinds : ConditionsOK(k)
      BY <2>1, Zenon DEF RegistryInv, ConditionsVetted
    <2> QED
      BY <1>1, <2>1, <2>2, ConditionsVettedIs
  <1>4. path' = <<>> /\ \A k : Colour(k)' = 0
    <2>1. path = <<>> /\ colour = <<>>
      BY <1>1 DEF RegistryInv, Searched
    <2>2. DOMAIN colour' = {}
      BY <1>1, <2>1
    <2> QED
      BY <1>1, <2>1, <2>2 DEF Colour
  <1>5. ClosedKinds' = {}
    BY <1>4 DEF ClosedKinds
  <1>6. Search'
    <2>1. DOMAIN path' = {}
      BY <1>4
    <2>2. Stacked'
      BY <1>4, <2>1 DEF Stacked
    <2>3. StackFalls' /\ StackLookedAt'
      BY <2>1, Zenon DEF StackFalls, StackLookedAt
    <2>4. RequirementsOf(Descriptors({})) = {}
      BY DEF RequirementsOf, Descriptors
    <2>5. Ranked({}, {})
      <3> DEFINE h == [k \in {} |-> 0]
      <3>1. h \in [{} -> Nat] /\ IsFiniteSet({})
        BY FS_EmptySet
      <3> HIDE DEF h
      <3> QED
        BY <3>1, Compress
    <2>6. ClosedRanked'
      <3>1. Descriptors(ClosedKinds)' = Descriptors({})
        BY <1>5 DEF Descriptors
      <3>2. RequirementsOf(Descriptors(ClosedKinds))' = {}
        BY <2>4, <3>1, Zenon
      <3> QED
        BY <1>5, <2>5, <3>2, Zenon DEF ClosedRanked
    <2> QED
      BY <2>2, <2>3, <2>6 DEF Search
  <1> QED
    BY <1>1, <1>2, <1>3, <1>6 DEF RegistryInv, StartsIffSound, Searched, Search

(* A kind is opened on top of the stack: what waits for it is on the stack *)
(* below it, and every ranking puts it lower.                              *)
Frames == [kind : Kinds, next : Nat \ {0}]
Falling == Rankings(RequirementsOf(Descriptors(Kinds)), Kinds)

(* Stacks and rankings are of the descriptors alone.                       *)
LEMMA SameFrames ==
    ASSUME descriptors' = descriptors
    PROVE  Kinds' = Kinds /\ Frames' = Frames /\ Falling' = Falling
  <1>1. Kinds' = Kinds /\ Descriptors(Kinds)' = Descriptors(Kinds)
    BY SameDescriptors, Zenon DEF Descriptors
  <1> QED
    BY <1>1, Zenon DEF Frames, Falling

(* Closed kinds stay ranked while nothing is closed.                       *)
LEMMA SameClosed ==
    ASSUME descriptors' = descriptors, ClosedKinds' = ClosedKinds, ClosedRanked
    PROVE  ClosedRanked'
  <1>1. Descriptors(ClosedKinds)' = Descriptors(ClosedKinds)
    BY Zenon DEF Descriptors
  <1> QED
    BY <1>1, Zenon DEF ClosedRanked

(* Open, on any stack that waits for the kind it opens.                    *)
LEMMA OpenKeeps ==
    ASSUME descriptors' = descriptors, ClosedRanked,
           \A j \in Kinds : Colour(j) \in {0, 1, 2},
           NEW k \in Kinds, Colour(k) = 0,
           NEW stack \in Seq(Frames),
           \A j \in Kinds : Colour(j) = 1 <=> \E i \in DOMAIN stack : stack[i].kind = j,
           \A i, j \in DOMAIN stack : stack[i].kind = stack[j].kind => i = j,
           \A rank \in Falling : \A i, j \in DOMAIN stack :
             i < j => rank[stack[i].kind] > rank[stack[j].kind],
           \A rank \in Falling : \A i \in DOMAIN stack : rank[stack[i].kind] > rank[k],
           \A i \in DOMAIN stack : \A r \in DOMAIN descriptors[stack[i].kind].refs :
             r < stack[i].next /\ descriptors[stack[i].kind].refs[r].min > 0 =>
               \/ descriptors[stack[i].kind].refs[r].target \in ClosedKinds
               \/ i < Len(stack) /\ descriptors[stack[i].kind].refs[r].target = stack[i + 1].kind
               \/ i = Len(stack) /\ descriptors[stack[i].kind].refs[r].target = k,
           colour' = Put(colour, k, 1),
           path' = Append(stack, [kind |-> k, next |-> 1]),
           \A r \in DOMAIN descriptors[k].refs : r \in Nat \ {0}
    PROVE  Search'
  <1> DEFINE n == Len(stack)
             frame == [kind |-> k, next |-> 1]
  <1>1. n \in Nat /\ DOMAIN stack = 1 .. n
    BY LenProperties
  <1>2. frame \in Frames /\ frame.kind = k /\ frame.next = 1
    BY DEF Frames
  <1>3. /\ path' \in Seq(Frames) /\ Len(path') = n + 1
        /\ \A i \in 1 .. n : path'[i] = stack[i]
        /\ path'[n + 1] = frame
    <2> HIDE DEF frame
    <2> QED
      BY <1>2, AppendProperties DEF frame
  <1>4. DOMAIN path' = 1 .. n + 1
    BY <1>3, LenProperties
  <1>5. \A j : Colour(j)' = IF j = k THEN 1 ELSE Colour(j)
    BY ColourPut
  <1>6. Kinds' = Kinds /\ Frames' = Frames /\ Falling' = Falling
    BY SameFrames
  <1> HIDE DEF n, frame
  <1>7. \A i \in 1 .. n + 1 : i \in 1 .. n \/ i = n + 1
    BY <1>1
  <1>8. 1 .. n \subseteq 1 .. n + 1 /\ n + 1 \in 1 .. n + 1 /\ n + 1 \notin 1 .. n
    BY <1>1
  <1>9. ClosedKinds' = ClosedKinds
    BY <1>5, <1>6 DEF ClosedKinds
  <1>10. \A i \in 1 .. n : stack[i].kind # k
    BY <1>1
  <1>11. Stacked'
    <2>1. \A j \in Kinds : Colour(j)' \in {0, 1, 2}
      BY <1>5
    <2>2. ASSUME NEW j \in Kinds
          PROVE  Colour(j)' = 1 <=> \E i \in 1 .. n + 1 : path'[i].kind = j
      <3>1. CASE j = k
        BY <1>2, <1>3, <1>5, <1>8, <3>1
      <3>2. CASE j # k
        <4>1. Colour(j)' = Colour(j)
          BY <1>5, <3>2
        <4>2. Colour(j) = 1 <=> \E i \in 1 .. n : stack[i].kind = j
          BY <1>1
        <4>3. (\E i \in 1 .. n : stack[i].kind = j) <=> \E i \in 1 .. n + 1 : path'[i].kind = j
          BY <1>2, <1>3, <1>7, <1>8, <3>2
        <4> QED
          BY <4>1, <4>2, <4>3
      <3> QED
        BY <3>1, <3>2
    <2>3. \A i, j \in 1 .. n + 1 : path'[i].kind = path'[j].kind => i = j
      BY <1>1, <1>2, <1>3, <1>7, <1>10
    <2>4. path' \in Seq([kind : Kinds, next : Nat \ {0}])'
      BY <1>3, <1>6, Zenon DEF Frames
    <2>5. \A j \in Kinds' : Colour(j)' \in {0, 1, 2}
      BY <1>6, <2>1, Zenon
    <2>6. \A j \in Kinds' : Colour(j)' = 1 <=> \E i \in DOMAIN path' : path'[i].kind = j
      BY <1>4, <1>6, <2>2, Zenon
    <2>7. \A i, j \in DOMAIN path' : path'[i].kind = path'[j].kind => i = j
      BY <1>4, <2>3, Zenon
    <2> QED
      BY <2>4, <2>5, <2>6, <2>7, Zenon DEF Stacked
  <1>12. StackFalls'
    <2>1. ASSUME NEW rank \in Falling, NEW i \in 1 .. n + 1, NEW j \in 1 .. n + 1, i < j
          PROVE  rank[path'[i].kind] > rank[path'[j].kind]
      <3>1. i \in 1 .. n
        BY <1>1, <2>1
      <3>2. path'[i].kind = stack[i].kind
        BY <1>3, <3>1
      <3>3. CASE j \in 1 .. n
        BY <1>1, <1>3, <2>1, <3>1, <3>2, <3>3
      <3>4. CASE j = n + 1
        BY <1>1, <1>2, <1>3, <3>1, <3>2, <3>4
      <3> QED
        BY <1>7, <3>3, <3>4
    <2> QED
      BY <1>4, <1>6, <2>1, ZenonT(60) DEF StackFalls, Falling
  <1>13. StackLookedAt'
    <2>1. ASSUME NEW i \in 1 .. n + 1, NEW r \in DOMAIN descriptors[path'[i].kind].refs,
                 r < path'[i].next, descriptors[path'[i].kind].refs[r].min > 0
          PROVE  \/ descriptors[path'[i].kind].refs[r].target \in ClosedKinds
                 \/ i < n + 1 /\ descriptors[path'[i].kind].refs[r].target = path'[i + 1].kind
      <3>1. CASE i = n + 1
        <4>1. path'[i].kind = k /\ path'[i].next = 1
          BY <1>2, <1>3, <3>1
        <4>2. r \in Nat \ {0} /\ r < 1
          BY <2>1, <4>1
        <4> QED
          BY <4>2
      <3>2. CASE i \in 1 .. n
        <4>1. path'[i] = stack[i] /\ i \in DOMAIN stack /\ i < n + 1
          BY <1>1, <1>3, <3>2
        <4>2. \/ descriptors[stack[i].kind].refs[r].target \in ClosedKinds
              \/ i < Len(stack) /\ descriptors[stack[i].kind].refs[r].target = stack[i + 1].kind
              \/ i = Len(stack) /\ descriptors[stack[i].kind].refs[r].target = k
          BY <2>1, <4>1
        <4>3. i < n => path'[i + 1] = stack[i + 1]
          BY <1>1, <1>3, <3>2
        <4>4. i = n => path'[i + 1].kind = k
          BY <1>2, <1>3
        <4> QED
          BY <4>1, <4>2, <4>3, <4>4, Zenon DEF n
      <3> QED
        BY <1>7, <3>1, <3>2
    <2>2. descriptors' = descriptors /\ Len(path') = n + 1
      BY <1>3
    <2> QED
      BY <1>4, <1>9, <2>1, <2>2 DEF StackLookedAt
  <1>14. ClosedRanked'
    BY <1>9, SameClosed
  <1> QED
    BY <1>11, <1>12, <1>13, <1>14 DEF Search

(* The search starts again at a kind not met yet.                          *)
LEMMA DfsRootStep ==
    ASSUME RegistryInv, NEW k \in Kinds, DfsRoot(k)
    PROVE  RegistryInv'
  <1>1. /\ stage = "references" /\ stage' = "references" /\ path = <<>> /\ Colour(k) = 0
        /\ colour' = Put(colour, k, 1) /\ path' = Append(<<>>, [kind |-> k, next |-> 1])
        /\ config' = config /\ descriptors' = descriptors
    BY DEF DfsRoot, Open
  <1>2. Search /\ WellTyped(descriptors[k])
    BY <1>1, Searching
  <1>3. DOMAIN path = {} /\ <<>> \in Seq(Frames) /\ DOMAIN <<>> = {}
    BY <1>1
  <1>4. /\ \A j \in Kinds : Colour(j) \in {0, 1, 2}
        /\ \A j \in Kinds : Colour(j) = 1 <=> \E i \in DOMAIN path : path[i].kind = j
    BY <1>2, Zenon DEF Search, Stacked
  <1>5. \A r \in DOMAIN descriptors[k].refs : r \in Nat \ {0}
    BY <1>2 DEF WellTyped
  <1>6. ClosedRanked
    BY <1>2 DEF Search
  <1> DEFINE stack == <<>>
  <1>7. /\ stack \in Seq(Frames) /\ DOMAIN stack = {} /\ DOMAIN path = DOMAIN stack
        /\ path' = Append(stack, [kind |-> k, next |-> 1]) /\ stack = path
    BY <1>1, <1>3
  <1> HIDE DEF stack
  <1>8. Search'
    BY <1>1, <1>4, <1>5, <1>6, <1>7, OpenKeeps, Zenon
  <1> QED
    BY <1>1, <1>8, SearchStep

(* The stack as the search finds it, and its top.                          *)
LEMMA StackFacts ==
    ASSUME RegistryInv, stage = "references", path # <<>>
    PROVE  /\ Len(path) \in Nat /\ Len(path) # 0 /\ DOMAIN path = 1 .. Len(path)
           /\ path \in Seq(Frames)
           /\ \A i \in DOMAIN path : path[i].kind \in Kinds /\ path[i].next \in Nat \ {0}
           /\ Len(path) \in DOMAIN path
           /\ Keyed /\ IsFiniteSet(Kinds) /\ Search
           /\ \A k \in Kinds : WellTyped(descriptors[k]) /\ DescriptorSound(k)
  <1>1. Keyed /\ IsFiniteSet(Kinds) /\ Search
        /\ \A k \in Kinds : WellTyped(descriptors[k]) /\ DescriptorSound(k)
    BY Searching, Zenon
  <1>2. path \in Seq(Frames)
    BY <1>1, Zenon DEF Search, Stacked, Frames
  <1>3. Len(path) \in Nat /\ DOMAIN path = 1 .. Len(path) /\ Len(path) # 0
    BY <1>2, LenProperties, EmptySeq
  <1>4. \A i \in DOMAIN path : path[i] \in Frames
    BY <1>2, <1>3, ElementOfSeq
  <1>5. \A f \in Frames : f.kind \in Kinds /\ f.next \in Nat \ {0}
    BY DEF Frames
  <1>6. Len(path) \in DOMAIN path
    BY <1>3
  <1> QED
    BY <1>1, <1>2, <1>3, <1>4, <1>5, <1>6, Zenon

(* A kind is closed when all its references have been looked at: it comes  *)
(* above everything closed before it.                                      *)
LEMMA DfsCloseStep ==
    ASSUME RegistryInv, stage = "references", path # <<>>,
           path[Len(path)].next > Len(descriptors[path[Len(path)].kind].refs),
           colour' = Put(colour, path[Len(path)].kind, 2),
           path' = SubSeq(path, 1, Len(path) - 1),
           stage' = stage, config' = config, descriptors' = descriptors
    PROVE  RegistryInv'
  <1> DEFINE n == Len(path)
             t == path[n].kind
             C == ClosedKinds
  <1>1. /\ n \in Nat /\ n # 0 /\ DOMAIN path = 1 .. n /\ path \in Seq(Frames)
        /\ \A i \in DOMAIN path : path[i].kind \in Kinds /\ path[i].next \in Nat \ {0}
        /\ n \in DOMAIN path
        /\ Keyed /\ IsFiniteSet(Kinds) /\ Search
        /\ \A k \in Kinds : WellTyped(descriptors[k]) /\ DescriptorSound(k)
    BY StackFacts, Zenon
  <1>2. /\ path' \in Seq(Frames) /\ Len(path') = n - 1
        /\ \A i \in 1 .. n - 1 : path'[i] = path[i]
    <2>1. 1 \in Int /\ n - 1 \in Int /\ (\A i \in 1 .. n - 1 : i \in 1 .. n /\ 1 + i - 1 = i)
      BY <1>1
    <2>2. 1 .. n - 1 \subseteq 1 .. n /\ (n - 1) - 1 + 1 = n - 1
      BY <1>1
    <2> HIDE DEF n
    <2> QED
      BY <1>1, <2>1, <2>2, SubSeqProperties DEF n
  <1>3. DOMAIN path' = 1 .. n - 1
    BY <1>2, LenProperties
  <1>4. \A j : Colour(j)' = IF j = t THEN 2 ELSE Colour(j)
    BY ColourPut
  <1>5. t \in Kinds /\ Colour(t) = 1
    BY <1>1 DEF Search, Stacked
  <1>6. C' = C \cup {t} /\ t \notin C /\ C \subseteq Kinds
    <2>1. Kinds' = Kinds
      BY SameDescriptors
    <2> HIDE DEF t, n
    <2> QED
      BY <1>4, <1>5, <2>1 DEF ClosedKinds
  <1>7. Kinds' = Kinds /\ Frames' = Frames /\ Falling' = Falling
    BY SameFrames
  <1>8. /\ \A j \in Kinds : Colour(j) \in {0, 1, 2}
        /\ \A j \in Kinds : Colour(j) = 1 <=> \E i \in DOMAIN path : path[i].kind = j
        /\ \A i, j \in DOMAIN path : path[i].kind = path[j].kind => i = j
    BY <1>1, Zenon DEF Search, Stacked
  <1>18. n \in Nat /\ n # 0
    BY <1>1
  <1> HIDE DEF n, t
  <1>9. \A i \in 1 .. n - 1 : i \in 1 .. n /\ i # n
    BY <1>18
  <1>10. \A i \in 1 .. n : i \in 1 .. n - 1 \/ i = n
    BY <1>18
  <1>19. \A i \in DOMAIN path' : i \in DOMAIN path /\ path'[i] = path[i]
    BY <1>1, <1>2, <1>3, <1>9, Zenon
  <1>11. Stacked'
    <2>1. \A j \in Kinds' : Colour(j)' \in {0, 1, 2}
      BY <1>4, <1>7, <1>8
    <2>2. ASSUME NEW j \in Kinds
          PROVE  Colour(j)' = 1 <=> \E i \in 1 .. n - 1 : path'[i].kind = j
      <3>1. CASE j = t
        <4>1. Colour(j)' # 1
          BY <1>4, <3>1
        <4>2. \A i \in 1 .. n - 1 : path[i].kind # t
          BY <1>1, <1>8, <1>9 DEF t
        <4> QED
          BY <1>2, <3>1, <4>1, <4>2, Zenon
      <3>2. CASE j # t
        <4>1. Colour(j)' = Colour(j)
          BY <1>4, <3>2
        <4>2. Colour(j) = 1 <=> \E i \in 1 .. n : path[i].kind = j
          BY <1>1, <1>8, Zenon
        <4>3. path[n].kind # j
          BY <3>2 DEF t
        <4>4. (\E i \in 1 .. n : path[i].kind = j) <=> \E i \in 1 .. n - 1 : path'[i].kind = j
          BY <1>2, <1>9, <1>10, <4>3, Zenon
        <4> QED
          BY <4>1, <4>2, <4>4, Zenon
      <3> QED
        BY <3>1, <3>2
    <2>3. \A j \in Kinds' : Colour(j)' = 1 <=> \E i \in DOMAIN path' : path'[i].kind = j
      BY <1>3, <1>7, <2>2, Zenon
    <2>4. \A i, j \in DOMAIN path' : path'[i].kind = path'[j].kind => i = j
      BY <1>8, <1>19, Zenon
    <2>5. path' \in Seq([kind : Kinds, next : Nat \ {0}])'
      BY <1>2, <1>7, Zenon DEF Frames
    <2> QED
      BY <2>1, <2>3, <2>4, <2>5, Zenon DEF Stacked
  <1>12. StackFalls'
    <2>1. \A rank \in Falling : \A i, j \in DOMAIN path : i < j => rank[path[i].kind] > rank[path[j].kind]
      BY <1>1, Zenon DEF Search, StackFalls, Falling
    <2>2. \A rank \in Falling' : \A i, j \in DOMAIN path' : i < j => rank[path'[i].kind] > rank[path'[j].kind]
      BY <1>7, <1>19, <2>1, Zenon
    <2> QED
      BY <2>2, Zenon DEF StackFalls, Falling
  <1>13. ASSUME NEW i \in DOMAIN path, NEW r \in DOMAIN descriptors[path[i].kind].refs,
                r < path[i].next, descriptors[path[i].kind].refs[r].min > 0
         PROVE  \/ descriptors[path[i].kind].refs[r].target \in C
                \/ i < n /\ descriptors[path[i].kind].refs[r].target = path[i + 1].kind
    <2>1. StackLookedAt
      BY <1>1 DEF Search
    <2> QED
      BY <1>13, <2>1, Zenon DEF StackLookedAt, n
  <1>14. StackLookedAt'
    <2>1. ASSUME NEW i \in 1 .. n - 1, NEW r \in DOMAIN descriptors[path[i].kind].refs,
                 r < path[i].next, descriptors[path[i].kind].refs[r].min > 0
          PROVE  \/ descriptors[path[i].kind].refs[r].target \in C'
                 \/ i < n - 1 /\ descriptors[path[i].kind].refs[r].target = path'[i + 1].kind
      <3> DEFINE x == descriptors[path[i].kind].refs[r].target
      <3>1. x \in C \/ x = path[i + 1].kind
        BY <1>1, <1>9, <1>13, <2>1
      <3>2. i + 1 = n \/ (i < n - 1 /\ i + 1 \in 1 .. n - 1)
        BY <1>1
      <3>3. i + 1 = n => path[i + 1].kind = t
        BY DEF t
      <3> HIDE DEF x
      <3> QED
        BY <1>2, <1>6, <3>1, <3>2, <3>3, Zenon DEF x
    <2>2. \A i \in DOMAIN path' : \A r \in DOMAIN descriptors'[path'[i].kind].refs :
            r < path'[i].next /\ descriptors'[path'[i].kind].refs[r].min > 0 =>
              \/ descriptors'[path'[i].kind].refs[r].target \in C'
              \/ i < Len(path') /\ descriptors'[path'[i].kind].refs[r].target = path'[i + 1].kind
      <3> TAKE i \in DOMAIN path'
      <3>1. i \in 1 .. n - 1 /\ path'[i] = path[i] /\ descriptors' = descriptors /\ Len(path') = n - 1
        BY <1>2, <1>3
      <3> QED
        BY <2>1, <3>1, Zenon
    <2> QED
      BY <2>2, Zenon DEF StackLookedAt
  <1>15. ClosedRanked
    BY <1>1 DEF Search
  <1>16. ClosedRanked'
    <2> DEFINE E == RequirementsOf(Descriptors(C))
               D == RequirementsOf(Descriptors(C \cup {t}))
               N == Cardinality(C)
    <2>1. IsFiniteSet(C) /\ N \in Nat /\ IsFiniteSet(C \cup {t})
      BY <1>1, <1>6, FS_Subset, FS_CardinalityType, FS_AddElement
    <2>2. PICK rank \in [C -> 1 .. N] : \A e \in E : rank[e[1]] > rank[e[2]]
      BY <1>15 DEF ClosedRanked, Ranked, Rankings
    <2>3. \A e \in E : e[2] \in C
      BY <1>15 DEF ClosedRanked
    <2>4. ASSUME NEW r \in DOMAIN descriptors[t].refs, descriptors[t].refs[r].min > 0
          PROVE  descriptors[t].refs[r].target \in C
      <3>1. path[n].kind = t /\ path[n].next > Len(descriptors[t].refs) /\ ~ (n < n)
        BY <1>1 DEF t, n
      <3>2. r < path[n].next
        <4>1. r \in 1 .. Len(descriptors[t].refs) /\ Len(descriptors[t].refs) \in Nat /\ path[n].next \in Nat
          BY <1>1, <1>5 DEF WellTyped
        <4> QED
          BY <3>1, <4>1
      <3> QED
        BY <1>1, <1>13, <2>4, <3>1, <3>2, Zenon
    <2>5. ASSUME NEW e \in D
          PROVE  \/ e \in E /\ e[1] \in C /\ e[2] \in C
                 \/ e[1] = t /\ e[2] \in C
      <3>1. PICK k \in C \cup {t} : \E r \in DOMAIN descriptors[k].refs :
                   descriptors[k].refs[r].min > 0 /\ e = <<k, descriptors[k].refs[r].target>>
        <4>1. C \cup {t} \in SUBSET Kinds
          BY <1>5, <1>6
        <4> HIDE DEF C
        <4> QED
          BY <1>1, <4>1, RequirementEdges, Zenon
      <3>2. PICK r \in DOMAIN descriptors[k].refs :
                   descriptors[k].refs[r].min > 0 /\ e = <<k, descriptors[k].refs[r].target>>
        BY <3>1
      <3>3. e[1] = k /\ e[2] = descriptors[k].refs[r].target
        BY <3>2
      <3>4. CASE k = t
        BY <2>4, <3>2, <3>3, <3>4, Zenon
      <3>5. CASE k \in C
        <4>1. e \in E
          BY <1>1, <1>6, <3>2, <3>5, RequirementEdges, Zenon
        <4> QED
          BY <2>3, <3>3, <3>5, <4>1, Zenon
      <3> QED
        BY <3>4, <3>5
    <2> DEFINE h == [k \in C \cup {t} |-> IF k = t THEN N + 1 ELSE rank[k]]
    <2>6. h \in [C \cup {t} -> Nat] /\ h[t] = N + 1 /\ \A k \in C : h[k] = rank[k] /\ rank[k] \in 1 .. N
      <3> HIDE DEF C, N, E
      <3> QED
        BY <1>6, <2>1, <2>2
    <2> HIDE DEF C, N, E, D, h
    <2>7. ASSUME NEW e \in D
          PROVE  e[1] \in C \cup {t} /\ e[2] \in C \cup {t} /\ h[e[1]] > h[e[2]]
      <3>1. CASE e \in E /\ e[1] \in C /\ e[2] \in C
        BY <2>2, <2>6, <3>1
      <3>2. CASE e[1] = t /\ e[2] \in C
        <4>1. h[e[1]] = N + 1 /\ h[e[2]] \in 1 .. N
          BY <2>6, <3>2
        <4> QED
          BY <2>1, <3>2, <4>1
      <3> QED
        BY <2>5, <3>1, <3>2
    <2>8. Ranked(D, C \cup {t})
      BY <2>1, <2>6, <2>7, Compress
    <2>9. Descriptors(C \cup {t}) = Descriptors(ClosedKinds)'
      BY <1>6, Zenon DEF Descriptors, C
    <2>10. D = RequirementsOf(Descriptors(ClosedKinds))' /\ C \cup {t} = ClosedKinds'
      BY <1>6, <2>9, Zenon DEF D, C
    <2>11. \A e \in D : e[2] \in C \cup {t}
      BY <2>7
    <2> QED
      BY <2>8, <2>10, <2>11, Zenon DEF ClosedRanked
  <1>17. Search'
    BY <1>11, <1>12, <1>14, <1>16 DEF Search
  <1> QED
    BY <1>17, SearchStep

(* The reference the top of the stack looks at.                            *)
Top == path[Len(path)]
Looked == descriptors[Top.kind].refs[Top.next]
Rest == [path EXCEPT ![Len(path)].next = @ + 1]

(* It is a reference of the descriptor, to a registered kind.              *)
LEMMA LookedFacts ==
    ASSUME RegistryInv, stage = "references", path # <<>>,
           ~ (Top.next > Len(descriptors[Top.kind].refs))
    PROVE  /\ Top.kind \in Kinds /\ Top.next \in DOMAIN descriptors[Top.kind].refs
           /\ Looked.target \in Kinds /\ Looked.min \in Int
           /\ Looked.min > 0 =>
                <<Top.kind, Looked.target>> \in RequirementsOf(Descriptors(Kinds))
  <1>1. Top.kind \in Kinds /\ Top.next \in Nat \ {0}
    BY StackFacts DEF Top
  <1>2. /\ Len(descriptors[Top.kind].refs) \in Nat
        /\ DOMAIN descriptors[Top.kind].refs = 1 .. Len(descriptors[Top.kind].refs)
        /\ \A j \in DOMAIN descriptors[Top.kind].refs : descriptors[Top.kind].refs[j].min \in Int
    BY <1>1, StackFacts, Zenon DEF WellTyped
  <1>3. Top.next \in DOMAIN descriptors[Top.kind].refs
    BY <1>1, <1>2
  <1>4. Looked.target \in Kinds
    <2>1. DescriptorSound(Top.kind)
      BY <1>1, StackFacts, Zenon
    <2> QED
      BY <1>3, <2>1, Zenon DEF DescriptorSound, Elements, Looked
  <1>5. Looked.min > 0 => <<Top.kind, Looked.target>> \in RequirementsOf(Descriptors(Kinds))
    <2>1. Keyed /\ Kinds \in SUBSET Kinds
      BY StackFacts
    <2> QED
      BY <1>1, <1>3, <2>1, RequirementEdges, Zenon DEF Looked
  <1> QED
    BY <1>1, <1>2, <1>3, <1>4, <1>5, Zenon DEF Looked

(* An open kind is met again: no ranking survives the circle.              *)
LEMMA CircleUnsound ==
    ASSUME RegistryInv, stage = "references", path # <<>>,
           ~ (Top.next > Len(descriptors[Top.kind].refs)),
           Looked.min > 0, Colour(Looked.target) = 1
    PROVE  ~ Sound(config)
  <1>1. ASSUME NEW rank \in Falling PROVE FALSE
    <2>1. rank \in [Kinds -> 1 .. Cardinality(Kinds)] /\ Cardinality(Kinds) \in Nat
      BY StackFacts, FS_CardinalityType DEF Falling, Rankings
    <2>2. rank[Top.kind] > rank[Looked.target]
      <3> DEFINE e == <<Top.kind, Looked.target>>
      <3>1. e \in RequirementsOf(Descriptors(Kinds)) /\ e[1] = Top.kind /\ e[2] = Looked.target
        BY LookedFacts
      <3> HIDE DEF e
      <3>2. rank[e[1]] > rank[e[2]]
        BY <3>1 DEF Falling, Rankings
      <3> QED
        BY <3>1, <3>2
    <2>3. PICK i \in DOMAIN path : path[i].kind = Looked.target
      BY LookedFacts, StackFacts, Zenon DEF Search, Stacked
    <2>4. i = Len(path) \/ i < Len(path)
      <3>1. i \in 1 .. Len(path) /\ Len(path) \in Nat
        BY StackFacts, Zenon
      <3> QED
        BY <3>1
    <2>5. i < Len(path) => rank[Looked.target] > rank[Top.kind]
      <3>1. StackFalls /\ Len(path) \in DOMAIN path
        BY StackFacts, Zenon DEF Search
      <3> QED
        BY <2>3, <3>1, Zenon DEF StackFalls, Falling, Top
    <2>6. i = Len(path) => Looked.target = Top.kind
      BY <2>3, Zenon DEF Top
    <2>7. rank[Top.kind] \in Int /\ rank[Looked.target] \in Int
      BY <2>1, LookedFacts
    <2> QED
      BY <2>2, <2>4, <2>5, <2>6, <2>7
  <1>2. ~ Ranked(RequirementsOf(Descriptors(Kinds)), Kinds)
    BY <1>1, Zenon DEF Ranked, Falling
  <1>3. Complete
    BY Searching, Zenon
  <1> QED
    BY <1>2, <1>3, SoundByKind, Zenon DEF SoundParts

(* The top of the stack goes on to its next reference.                     *)
LEMMA RestFacts ==
    ASSUME RegistryInv, stage = "references", path # <<>>
    PROVE  /\ Rest \in Seq(Frames) /\ Len(Rest) = Len(path) /\ DOMAIN Rest = DOMAIN path
           /\ \A i \in DOMAIN path : Rest[i].kind = path[i].kind
           /\ \A i \in DOMAIN path : i # Len(path) => Rest[i].next = path[i].next
           /\ Rest[Len(path)].next = Top.next + 1
  <1> DEFINE n == Len(path)
             f == [path[n] EXCEPT !.next = @ + 1]
  <1>1. /\ n \in Nat /\ n # 0 /\ DOMAIN path = 1 .. n /\ path \in Seq(Frames) /\ n \in DOMAIN path
    BY StackFacts, Zenon
  <1>2. path[n] \in Frames
    BY <1>1, ElementOfSeq
  <1>3. f \in Frames /\ f.kind = path[n].kind /\ f.next = path[n].next + 1
    <2> HIDE DEF n
    <2> QED
      BY <1>2 DEF Frames
  <1>4. Rest = [path EXCEPT ![n] = f]
    BY <1>1, <1>2 DEF Rest, Frames
  <1> HIDE DEF n, f
  <1>5. Rest \in Seq(Frames) /\ Len(Rest) = n
    BY <1>1, <1>3, <1>4, ExceptSeq DEF n
  <1>6. DOMAIN Rest = DOMAIN path /\ Rest[n] = f /\ \A i \in DOMAIN path : i # n => Rest[i] = path[i]
    BY <1>1, <1>4
  <1> QED
    BY <1>3, <1>5, <1>6, Zenon DEF n, Top

(* What the top has looked at by then.                                     *)
LEMMA NextLookedAt ==
    ASSUME RegistryInv, stage = "references", path # <<>>,
           ~ (Top.next > Len(descriptors[Top.kind].refs)),
           NEW i \in DOMAIN path, NEW r \in DOMAIN descriptors[path[i].kind].refs,
           r < Rest[i].next, descriptors[path[i].kind].refs[r].min > 0
    PROVE  \/ descriptors[path[i].kind].refs[r].target \in ClosedKinds
           \/ i < Len(path) /\ descriptors[path[i].kind].refs[r].target = path[i + 1].kind
           \/ /\ i = Len(path) /\ Looked.min > 0
              /\ descriptors[path[i].kind].refs[r].target = Looked.target
  <1>1. StackLookedAt
    BY StackFacts DEF Search
  <1>2. CASE r < path[i].next
    BY <1>1, <1>2, Zenon DEF StackLookedAt
  <1>3. CASE ~ (r < path[i].next)
    <2>1. i = Len(path)
      BY <1>3, RestFacts
    <2>2. Rest[i].next = path[i].next + 1 /\ path[i] = Top
      BY <2>1, RestFacts DEF Top
    <2>3. r \in Nat /\ path[i].next \in Nat
      BY StackFacts DEF WellTyped
    <2>4. r = Top.next
      BY <1>3, <2>2, <2>3
    <2> QED
      BY <2>1, <2>2, <2>4, Zenon DEF Looked
  <1> QED
    BY <1>2, <1>3

(* A reference that is optional, or whose target is closed.                *)
LEMMA DfsSkipStep ==
    ASSUME RegistryInv, stage = "references", path # <<>>,
           ~ (Top.next > Len(descriptors[Top.kind].refs)),
           ~ (Looked.min > 0 /\ Colour(Looked.target) = 1),
           ~ (Looked.min > 0 /\ Colour(Looked.target) = 0),
           path' = Rest, colour' = colour,
           stage' = stage, config' = config, descriptors' = descriptors
    PROVE  RegistryInv'
  <1>1. Kinds' = Kinds /\ Frames' = Frames /\ Falling' = Falling
    BY SameFrames
  <1>2. \A j : Colour(j)' = Colour(j)
    BY Zenon DEF Colour
  <1>3. ClosedKinds' = ClosedKinds
    BY <1>1, <1>2, Zenon DEF ClosedKinds
  <1>4. Search
    BY StackFacts, Zenon
  <1>5. /\ path' \in Seq(Frames) /\ Len(path') = Len(path) /\ DOMAIN path' = DOMAIN path
        /\ \A i \in DOMAIN path : path'[i].kind = path[i].kind
        /\ \A i \in DOMAIN path : i # Len(path) => path'[i].next = path[i].next
        /\ path'[Len(path)].next = Top.next + 1
    BY RestFacts, Zenon
  <1>6. Stacked'
    <2>1. Stacked
      BY <1>4 DEF Search
    <2>2. path' \in Seq([kind : Kinds, next : Nat \ {0}])'
      BY <1>1, <1>5, Zenon DEF Frames
    <2>3. \A j \in Kinds' : Colour(j)' \in {0, 1, 2}
      BY <1>1, <1>2, <2>1, Zenon DEF Stacked
    <2>4. \A j \in Kinds' : Colour(j)' = 1 <=> \E i \in DOMAIN path' : path'[i].kind = j
      <3>1. \A j \in Kinds : Colour(j) = 1 <=> \E i \in DOMAIN path : path[i].kind = j
        BY <2>1, Zenon DEF Stacked
      <3>2. \A j : (\E i \in DOMAIN path : path[i].kind = j) <=> \E i \in DOMAIN path' : path'[i].kind = j
        BY <1>5, Zenon
      <3> QED
        BY <1>1, <1>2, <3>1, <3>2, Zenon
    <2>5. \A i, j \in DOMAIN path' : path'[i].kind = path'[j].kind => i = j
      BY <1>5, <2>1, Zenon DEF Stacked
    <2> QED
      BY <2>2, <2>3, <2>4, <2>5, Zenon DEF Stacked
  <1>7. StackFalls'
    <2>1. \A rank \in Falling' : \A i, j \in DOMAIN path' : i < j => rank[path'[i].kind] > rank[path'[j].kind]
      <3>1. \A rank \in Falling : \A i, j \in DOMAIN path : i < j => rank[path[i].kind] > rank[path[j].kind]
        BY <1>4, Zenon DEF Search, StackFalls, Falling
      <3>2. \A i \in DOMAIN path' : i \in DOMAIN path /\ path'[i].kind = path[i].kind
        BY <1>5, Zenon
      <3> QED
        BY <1>1, <3>1, <3>2, Zenon
    <2> QED
      BY <2>1, Zenon DEF StackFalls, Falling
  <1>8. StackLookedAt'
    <2>1. Looked.min > 0 => Looked.target \in ClosedKinds
      <3>1. Looked.target \in Kinds /\ Colour(Looked.target) \in {0, 1, 2}
        BY <1>4, LookedFacts, Zenon DEF Search, Stacked
      <3> QED
        BY <3>1 DEF ClosedKinds
    <2>2. ASSUME NEW i \in DOMAIN path', NEW r \in DOMAIN descriptors'[path'[i].kind].refs,
                 r < path'[i].next, descriptors'[path'[i].kind].refs[r].min > 0
          PROVE  \/ descriptors'[path'[i].kind].refs[r].target \in ClosedKinds'
                 \/ i < Len(path') /\ descriptors'[path'[i].kind].refs[r].target = path'[i + 1].kind
      <3>1. i \in DOMAIN path /\ path'[i].kind = path[i].kind /\ path'[i] = Rest[i]
        BY <1>5, Zenon
      <3>2. r \in DOMAIN descriptors[path[i].kind].refs /\ r < Rest[i].next
            /\ descriptors[path[i].kind].refs[r].min > 0
        BY <2>2, <3>1, Zenon
      <3>3. \/ descriptors[path[i].kind].refs[r].target \in ClosedKinds
            \/ i < Len(path) /\ descriptors[path[i].kind].refs[r].target = path[i + 1].kind
        BY <2>1, <3>1, <3>2, NextLookedAt, Zenon
      <3>4. i < Len(path) => path'[i + 1].kind = path[i + 1].kind
        <4>1. DOMAIN path = 1 .. Len(path) /\ Len(path) \in Nat
          BY StackFacts, Zenon
        <4>2. i < Len(path) => i + 1 \in DOMAIN path
          BY <3>1, <4>1
        <4> QED
          BY <1>5, <4>2, Zenon
      <3> QED
        BY <1>3, <1>5, <3>1, <3>3, <3>4, Zenon
    <2> QED
      BY <2>2, Zenon DEF StackLookedAt
  <1>9. ClosedRanked'
    BY <1>3, <1>4, SameClosed DEF Search
  <1> QED
    BY <1>6, <1>7, <1>8, <1>9, SearchStep DEF Search

(* A required reference to a kind not met yet.                             *)
LEMMA DfsOpenStep ==
    ASSUME RegistryInv, stage = "references", path # <<>>,
           ~ (Top.next > Len(descriptors[Top.kind].refs)),
           Looked.min > 0, Colour(Looked.target) = 0,
           colour' = Put(colour, Looked.target, 1),
           path' = Append(Rest, [kind |-> Looked.target, next |-> 1]),
           stage' = stage, config' = config, descriptors' = descriptors
    PROVE  RegistryInv'
  <1> DEFINE k == Looked.target
             stack == Rest
  <1>1. Search /\ k \in Kinds /\ WellTyped(descriptors[k])
    BY StackFacts, LookedFacts, Zenon
  <1>2. /\ stack \in Seq(Frames) /\ Len(stack) = Len(path) /\ DOMAIN stack = DOMAIN path
        /\ \A i \in DOMAIN stack : stack[i].kind = path[i].kind
    BY RestFacts, Zenon
  <1>3. \A j \in Kinds : Colour(j) \in {0, 1, 2}
    BY <1>1, Zenon DEF Search, Stacked
  <1>4. \A j \in Kinds : Colour(j) = 1 <=> \E i \in DOMAIN stack : stack[i].kind = j
    <2>1. \A j \in Kinds : Colour(j) = 1 <=> \E i \in DOMAIN path : path[i].kind = j
      BY <1>1, Zenon DEF Search, Stacked
    <2>2. \A j : (\E i \in DOMAIN path : path[i].kind = j) <=> \E i \in DOMAIN stack : stack[i].kind = j
      BY <1>2, Zenon
    <2> QED
      BY <2>1, <2>2, Zenon
  <1>5. \A i, j \in DOMAIN stack : stack[i].kind = stack[j].kind => i = j
    BY <1>1, <1>2, Zenon DEF Search, Stacked
  <1>6. \A rank \in Falling : \A i, j \in DOMAIN stack :
          i < j => rank[stack[i].kind] > rank[stack[j].kind]
    BY <1>1, <1>2, Zenon DEF Search, StackFalls, Falling
  <1>7. \A rank \in Falling : \A i \in DOMAIN stack : rank[stack[i].kind] > rank[k]
    <2> SUFFICES ASSUME NEW rank \in Falling, NEW i \in DOMAIN path PROVE rank[path[i].kind] > rank[k]
      BY <1>2, Zenon
    <2>1. rank \in [Kinds -> 1 .. Cardinality(Kinds)] /\ Cardinality(Kinds) \in Nat
      BY StackFacts, FS_CardinalityType DEF Falling, Rankings
    <2>2. rank[Top.kind] > rank[k]
      <3> DEFINE e == <<Top.kind, Looked.target>>
      <3>1. e \in RequirementsOf(Descriptors(Kinds)) /\ e[1] = Top.kind /\ e[2] = k
        BY LookedFacts
      <3> HIDE DEF e
      <3>2. rank[e[1]] > rank[e[2]]
        BY <3>1 DEF Falling, Rankings
      <3> QED
        BY <3>1, <3>2, Zenon
    <2>3. i = Len(path) \/ (i < Len(path) /\ Len(path) \in DOMAIN path)
      <3>1. i \in 1 .. Len(path) /\ Len(path) \in Nat /\ Len(path) \in DOMAIN path
        BY StackFacts, Zenon
      <3> QED
        BY <3>1
    <2>4. i < Len(path) => rank[path[i].kind] > rank[Top.kind]
      BY <1>1, <2>3, Zenon DEF Search, StackFalls, Falling, Top
    <2>5. rank[path[i].kind] \in Int /\ rank[Top.kind] \in Int /\ rank[k] \in Int
      <3>1. path[i].kind \in Kinds /\ Top.kind \in Kinds
        BY StackFacts, LookedFacts, Zenon
      <3> HIDE DEF k
      <3> QED
        BY <1>1, <2>1, <3>1
    <2>6. i = Len(path) => path[i].kind = Top.kind
      BY Zenon DEF Top
    <2> HIDE DEF k
    <2> QED
      BY <2>2, <2>3, <2>4, <2>5, <2>6
  <1>8. ASSUME NEW i \in DOMAIN stack, NEW r \in DOMAIN descriptors[stack[i].kind].refs,
               r < stack[i].next, descriptors[stack[i].kind].refs[r].min > 0
        PROVE  \/ descriptors[stack[i].kind].refs[r].target \in ClosedKinds
               \/ i < Len(stack) /\ descriptors[stack[i].kind].refs[r].target = stack[i + 1].kind
               \/ i = Len(stack) /\ descriptors[stack[i].kind].refs[r].target = k
    <2>1. i \in DOMAIN path /\ stack[i].kind = path[i].kind
      BY <1>2, Zenon
    <2>2. \/ descriptors[path[i].kind].refs[r].target \in ClosedKinds
          \/ i < Len(path) /\ descriptors[path[i].kind].refs[r].target = path[i + 1].kind
          \/ i = Len(path) /\ descriptors[path[i].kind].refs[r].target = k
      BY <1>8, <2>1, NextLookedAt, Zenon
    <2>3. i < Len(path) => stack[i + 1].kind = path[i + 1].kind
      <3>1. DOMAIN path = 1 .. Len(path) /\ Len(path) \in Nat
        BY StackFacts, Zenon
      <3>2. i < Len(path) => i + 1 \in DOMAIN path
        BY <2>1, <3>1
      <3> QED
        BY <1>2, <3>2, Zenon
    <2> QED
      BY <1>2, <2>1, <2>2, <2>3, Zenon
  <1>9. \A r \in DOMAIN descriptors[k].refs : r \in Nat \ {0}
    BY <1>1 DEF WellTyped
  <1>10. /\ Colour(k) = 0 /\ colour' = Put(colour, k, 1)
         /\ path' = Append(stack, [kind |-> k, next |-> 1]) /\ ClosedRanked
    BY <1>1 DEF Search
  <1>12. \A i \in DOMAIN stack : \A r \in DOMAIN descriptors[stack[i].kind].refs :
           r < stack[i].next /\ descriptors[stack[i].kind].refs[r].min > 0 =>
             \/ descriptors[stack[i].kind].refs[r].target \in ClosedKinds
             \/ i < Len(stack) /\ descriptors[stack[i].kind].refs[r].target = stack[i + 1].kind
             \/ i = Len(stack) /\ descriptors[stack[i].kind].refs[r].target = k
    BY <1>8, Zenon
  <1> HIDE DEF k, stack
  <1>11. Search'
    BY <1>1, <1>2, <1>3, <1>4, <1>5, <1>6, <1>7, <1>9, <1>10, <1>12, OpenKeeps, Zenon
  <1> QED
    BY <1>11, SearchStep

(* One step of the search, whichever it is.                                *)
LEMMA DfsStepStep ==
    ASSUME RegistryInv, DfsStep
    PROVE  RegistryInv'
  <1>1. stage = "references" /\ path # <<>>
    BY DEF DfsStep
  <1>2. CASE Top.next > Len(descriptors[Top.kind].refs)
    <2>1. /\ colour' = Put(colour, path[Len(path)].kind, 2)
          /\ path' = SubSeq(path, 1, Len(path) - 1)
          /\ stage' = stage /\ config' = config /\ descriptors' = descriptors
      BY <1>2 DEF DfsStep, Closed, Top
    <2> QED
      BY <1>1, <1>2, <2>1, DfsCloseStep DEF Top
  <1>3. CASE ~ (Top.next > Len(descriptors[Top.kind].refs))
    <2>1. CASE Looked.min > 0 /\ Colour(Looked.target) = 1
      <3>1. Panic
        BY <1>3, <2>1 DEF DfsStep, Top, Looked
      <3> QED
        BY <1>1, <1>3, <2>1, <3>1, CircleUnsound, PanicStep
    <2>2. CASE Looked.min > 0 /\ Colour(Looked.target) = 0
      <3>1. /\ colour' = Put(colour, Looked.target, 1)
            /\ path' = Append(Rest, [kind |-> Looked.target, next |-> 1])
            /\ stage' = stage /\ config' = config /\ descriptors' = descriptors
        BY <1>3, <2>2 DEF DfsStep, Open, Top, Looked, Rest
      <3> QED
        BY <1>1, <1>3, <2>2, <3>1, DfsOpenStep
    <2>3. CASE /\ ~ (Looked.min > 0 /\ Colour(Looked.target) = 1)
               /\ ~ (Looked.min > 0 /\ Colour(Looked.target) = 0)
      <3>1. /\ path' = Rest /\ colour' = colour
            /\ stage' = stage /\ config' = config /\ descriptors' = descriptors
        BY <1>3, <2>3 DEF DfsStep, Top, Looked, Rest
      <3> QED
        BY <1>1, <1>3, <2>3, <3>1, DfsSkipStep
    <2> QED
      BY <2>1, <2>2, <2>3
  <1> QED
    BY <1>2, <1>3

-----------------------------------------------------------------------------
(* The last stages.                                                        *)
LEMMA LastStages ==
    ASSUME RegistryInv, stage \in {"references", "schemas", "routes"},
           stage' \in {"schemas", "routes", "serving"},
           config' = config, descriptors' = descriptors,
           Ranked(RequirementsOf(Descriptors(Kinds)), Kinds),
           stage' \in {"routes", "serving"} => SchemasOK,
           stage' = "serving" => RoutesOK
    PROVE  RegistryInv'
  <1>1. Loaded' /\ DescriptorsVetted'
    BY VettedStays DEF Later
  <1>2. \A k \in Kinds : ConditionsOK(k)
    <2>1. Vetted("conditions", {"references", "schemas", "routes", "serving"}) = Kinds
      BY DEF Vetted
    <2> QED
      BY <2>1, Zenon DEF RegistryInv, ConditionsVetted
  <1>3. ConditionsVetted'
    <2>1. Vetted("conditions", {"references", "schemas", "routes", "serving"})' = Kinds
      BY SameDescriptors DEF Vetted
    <2> QED
      BY <1>2, <2>1, ConditionsVettedIs
  <1>4. Searched'
    <2>1. Kinds' = Kinds /\ Descriptors(Kinds)' = Descriptors(Kinds)
      BY SameDescriptors, Zenon DEF Descriptors
    <2>2. Ranked(RequirementsOf(Descriptors(Kinds)), Kinds)'
      BY <2>1, Zenon
    <2> QED
      BY <2>2 DEF Searched
  <1>5. /\ stage' \in {"routes", "serving"} => SchemasOK'
        /\ stage' = "serving" => RoutesOK'
    BY SameDescriptors, Zenon
  <1>6. stage' = "serving" => Sound(config)
    <2>1. stage \in Later
      BY DEF Later
    <2>2. ASSUME stage' = "serving" PROVE SoundParts
      <3>1. \A k \in Kinds : RouteSound(k)
        BY <2>1, <2>2, AllVetted, RoutesMean, Zenon
      <3> QED
        BY <1>2, <2>1, <2>2, <3>1, AllVetted DEF SoundParts
    <2> QED
      BY <2>1, <2>2, AllVetted, SoundByKind
  <1>7. StartsIffSound'
    <2>1. Sound(config)' <=> Sound(config)
      BY Zenon
    <2> QED
      BY <1>6, <2>1 DEF StartsIffSound
  <1> QED
    BY <1>1, <1>3, <1>4, <1>5, <1>7 DEF RegistryInv

(* The search is over: all kinds are closed, so all are ranked.            *)
LEMMA ToSchemasStep ==
    ASSUME RegistryInv, \A k \in Kinds : Colour(k) = 2, Advance("references", "schemas")
    PROVE  RegistryInv'
  <1>1. stage = "references" /\ stage' = "schemas" /\ config' = config /\ descriptors' = descriptors
    BY DEF Advance
  <1>2. ClosedKinds = Kinds
    BY Zenon DEF ClosedKinds
  <1>3. ClosedRanked
    BY <1>1, Searching DEF Search
  <1>4. Ranked(RequirementsOf(Descriptors(Kinds)), Kinds)
    BY <1>2, <1>3, Zenon DEF ClosedRanked
  <1> QED
    BY <1>1, <1>4, LastStages

(* ValidateSpecSchemas.                                                    *)
LEMMA SchemasStep ==
    ASSUME RegistryInv, ValidateSpecSchemas
    PROVE  RegistryInv'
  <1>1. stage = "schemas" /\ Ranked(RequirementsOf(Descriptors(Kinds)), Kinds)
    BY DEF ValidateSpecSchemas, RegistryInv, Searched
  <1>2. CASE SchemasOK
    <2>1. stage' = "routes" /\ config' = config /\ descriptors' = descriptors
      BY <1>2 DEF ValidateSpecSchemas, Advance
    <2> QED
      BY <1>1, <1>2, <2>1, LastStages
  <1>3. CASE ~ SchemasOK
    <2>1. ~ Sound(config)
      BY <1>1, <1>3, AllVetted, SoundByKind DEF SoundParts, Later
    <2> QED
      BY <1>3, <2>1, PanicStep DEF ValidateSpecSchemas
  <1> QED
    BY <1>2, <1>3

(* RegisterEntityRoutes.                                                   *)
LEMMA RoutesStep ==
    ASSUME RegistryInv, RegisterRoutes
    PROVE  RegistryInv'
  <1>1. /\ stage = "routes" /\ Ranked(RequirementsOf(Descriptors(Kinds)), Kinds) /\ SchemasOK
    BY DEF RegisterRoutes, RegistryInv, Searched
  <1>2. CASE RoutesOK
    <2>1. stage' = "serving" /\ config' = config /\ descriptors' = descriptors
      BY <1>2 DEF RegisterRoutes, Advance
    <2> QED
      BY <1>1, <1>2, <2>1, LastStages
  <1>3. CASE ~ RoutesOK
    <2>1. ~ Sound(config)
      <3>1. Complete /\ OwnersKnown
        BY <1>1, AllVetted DEF Later
      <3> QED
        BY <1>3, <3>1, RoutesMean, SoundByKind, Zenon DEF SoundParts
    <2> QED
      BY <1>3, <2>1, PanicStep DEF RegisterRoutes
  <1> QED
    BY <1>2, <1>3

-----------------------------------------------------------------------------
(* Before anything is registered.                                          *)
LEMMA StartsEmpty ==
    ASSUME RegistryInit
    PROVE  RegistryInv
  <1>1. stage = "load" /\ Kinds = {} /\ config \in Configs /\ checked = {} /\ path = <<>> /\ colour = <<>>
    BY DEF RegistryInit, Kinds
  <1>2. IsFiniteSet(Kinds) /\ Cardinality(Kinds) = 0
    BY <1>1, FS_EmptySet
  <1>3. Loaded
    <2>1. Len(config) \in Nat
      BY <1>1, ConfigsAssumption
    <2>2. 0 <= Len(config) /\ 1 .. 0 = {}
      BY <2>1
    <2> QED
      BY <1>1, <1>2, <2>2 DEF Loaded
  <1>4. DescriptorsVetted /\ ConditionsVetted
    <2>1. /\ Vetted("descriptors", {"conditions", "references", "schemas", "routes", "serving"}) = {}
          /\ Vetted("conditions", {"references", "schemas", "routes", "serving"}) = {}
      BY <1>1 DEF Vetted
    <2> QED
      BY <2>1, Zenon DEF DescriptorsVetted, ConditionsVetted
  <1>5. Searched
    BY <1>1 DEF Searched
  <1> QED
    BY <1>1, <1>3, <1>4, <1>5 DEF RegistryInv, StartsIffSound

(* Every step of start-up keeps the invariant.                             *)
LEMMA RegistryStepKeeps ==
    ASSUME RegistryInv, RegistryNext
    PROVE  RegistryInv'
  <1>1. CASE \E k \in Kinds : CheckDescriptor(k) \/ CheckConditions(k) \/ DfsRoot(k)
    BY <1>1, CheckDescriptorStep, CheckConditionsStep, DfsRootStep, Zenon
  <1>2. CASE checked = Kinds /\ Advance("descriptors", "conditions")
    BY <1>2, ToConditionsStep, Zenon
  <1>3. CASE checked = Kinds /\ Advance("conditions", "references")
    BY <1>3, ToReferencesStep, Zenon
  <1>4. CASE path = <<>> /\ (\A k \in Kinds : Colour(k) = 2) /\ Advance("references", "schemas")
    BY <1>4, ToSchemasStep, Zenon
  <1> QED
    BY <1>1, <1>2, <1>3, <1>4, RegisterStep, RegisteredStep, DfsStepStep, SchemasStep, RoutesStep, Zenon
       DEF RegistryNext

(* So does a step that does nothing.                                       *)
LEMMA RegistryIdle ==
    ASSUME RegistryInv, UNCHANGED registryVars
    PROVE  RegistryInv'
  <1>1. /\ config' = config /\ stage' = stage /\ descriptors' = descriptors
        /\ checked' = checked /\ colour' = colour /\ path' = path
    BY DEF registryVars
  <1>2. Kinds' = Kinds /\ Descriptors(Kinds)' = Descriptors(Kinds)
    BY <1>1, SameDescriptors, Zenon DEF Descriptors
  <1>3. Loaded'
    BY <1>1, LoadedStays DEF RegistryInv, Loaded
  <1>4. \A loop, later : Vetted(loop, later)' = Vetted(loop, later)
    BY <1>1, <1>2, Zenon DEF Vetted
  <1>5. DescriptorsVetted' /\ ConditionsVetted'
    BY <1>1, <1>2, <1>4, SameDescriptors, Zenon DEF RegistryInv, DescriptorsVetted, ConditionsVetted
  <1>6. Searched'
    <2>1. \A k : Colour(k)' = Colour(k)
      BY <1>1, Zenon DEF Colour
    <2>2. ClosedKinds' = ClosedKinds
      BY <1>2, <2>1, Zenon DEF ClosedKinds
    <2>3. Stacked' <=> Stacked
      BY <1>1, <1>2, <2>1, Zenon DEF Stacked
    <2>4. (StackFalls' <=> StackFalls) /\ (StackLookedAt' <=> StackLookedAt)
      BY <1>1, <1>2, <2>2, Zenon DEF StackFalls, StackLookedAt
    <2>5. ClosedRanked => ClosedRanked'
      BY <1>1, <2>2, SameClosed
    <2> QED
      BY <1>1, <1>2, <2>3, <2>4, <2>5, Zenon DEF RegistryInv, Searched
  <1>7. StartsIffSound'
    BY <1>1, Zenon DEF RegistryInv, StartsIffSound
  <1> QED
    BY <1>1, <1>3, <1>5, <1>6, <1>7, SameDescriptors, Zenon DEF RegistryInv

(* Every state of start-up keeps the invariant.                            *)
THEOREM RegistryInvariant == RegistrySpec => []RegistryInv
  <1>1. RegistryInit => RegistryInv
    BY StartsEmpty
  <1>2. RegistryInv /\ [RegistryNext]_registryVars => RegistryInv'
    BY RegistryStepKeeps, RegistryIdle
  <1> QED
    BY <1>1, <1>2, PTL DEF RegistrySpec

(* Start-up ends in serving only for a sound list, and in a panic only for *)
(* one that is not, in whatever order the loops visit the kinds.           *)
THEOREM StartsExactlyWhenSound == RegistrySpec => []StartsIffSound
  <1>1. RegistryInv => StartsIffSound
    BY DEF RegistryInv
  <1> QED
    BY <1>1, RegistryInvariant, PTL
=============================================================================

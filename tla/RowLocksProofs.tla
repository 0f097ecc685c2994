---------------------------- MODULE RowLocksProofs ----------------------------
(***************************************************************************)
(* Proofs about RowLocks, for any number of resources and transactions.    *)
(* RowLocksInv says of each transaction how its list of things to do, its  *)
(* tree and its locks fit together.  A step of one transaction keeps its   *)
(* own part by what it does to the list (ReplaceKeeps, LockKeeps), and the *)
(* part of every other one because a commit changes no row another has     *)
(* locked and adds nothing below one (PhaseKeeps, CommitSpares).           *)
(***************************************************************************)
EXTENDS RowLocks, FiniteSetTheorems, SequenceTheorems, TLAPS

-----------------------------------------------------------------------------
(* Lists *)

\* ById lists every id of a finite set.
LEMMA ByIdFacts ==
    ASSUME NEW S \in SUBSET Int, IsFiniteSet(S)
    PROVE  /\ Cardinality(S) \in Nat
           /\ \A i \in 1 .. Cardinality(S) : ById(S)[i] \in S
           /\ \A x \in S : \E i \in 1 .. Cardinality(S) : ById(S)[i] = x
  <1> DEFINE n == Cardinality(S)
             below(x) == {y \in S : y <= x}
             f == [x \in S |-> Cardinality(below(x))]
  <1>1. n \in Nat
    BY FS_CardinalityType
  <1>2. \A x \in S : /\ IsFiniteSet(below(x)) /\ Cardinality(below(x)) \in Nat
                     /\ Cardinality(below(x)) <= n /\ Cardinality(below(x)) # 0
    <2> SUFFICES ASSUME NEW x \in S
                 PROVE /\ IsFiniteSet(below(x)) /\ Cardinality(below(x)) \in Nat
                     /\ Cardinality(below(x)) <= n /\ Cardinality(below(x)) # 0
      OBVIOUS
    <2>1. below(x) \in SUBSET S /\ x \in below(x)
      OBVIOUS
    <2> HIDE DEF below
    <2>2. IsFiniteSet(below(x)) /\ Cardinality(below(x)) <= n
      BY <2>1, FS_Subset
    <2>3. Cardinality(below(x)) \in Nat
      BY <2>2, FS_CardinalityType
    <2>4. Cardinality(below(x)) # 0
      BY <2>1, <2>2, FS_EmptySet
    <2> QED
      BY <2>2, <2>3, <2>4
  <1>3. ASSUME NEW x \in S, NEW z \in S, x < z
        PROVE  Cardinality(below(x)) # Cardinality(below(z))
    <2>a. x \in Int /\ z \in Int /\ \A y \in S : y \in Int
      OBVIOUS
    <2>b. \A y \in S : y <= x => y <= z
      BY <2>a, <1>3
    <2>c. ~(z <= x) /\ z <= z
      BY <2>a, <1>3
    <2>1. below(x) \in SUBSET below(z) /\ z \in below(z) /\ z \notin below(x)
      BY <2>b, <2>c
    <2> HIDE DEF below
    <2> QED
      BY <2>1, <1>2, FS_Subset
  <1>4. \A x, z \in S : Cardinality(below(x)) = Cardinality(below(z)) => x = z
    <2> SUFFICES ASSUME NEW x \in S, NEW z \in S, x # z
                 PROVE Cardinality(below(x)) # Cardinality(below(z))
      OBVIOUS
    <2>1. x < z \/ z < x
      OBVIOUS
    <2> HIDE DEF below
    <2> QED
      BY <2>1, <1>3
  <1>5. f \in [S -> 1 .. n] /\ \A x \in S : f[x] = Cardinality(below(x))
    <2> HIDE DEF below
    <2> QED BY <1>1, <1>2
  <1>6. f \in Injection(S, 1 .. n)
    <2> HIDE DEF f, below
    <2> QED BY <1>4, <1>5 DEF Injection, IsInjective
  <1>7. IsFiniteSet(1 .. n) /\ Cardinality(1 .. n) = n
    BY <1>1, FS_Interval
  <1>8. f \in Surjection(S, 1 .. n)
    <2> HIDE DEF f
    <2> QED BY <1>6, <1>7, FS_Injection
  <1>9. \A i \in 1 .. n : \E x \in S : Cardinality(below(x)) = i
    <2> HIDE DEF below, f
    <2> QED BY <1>5, <1>8 DEF Surjection
  <1>10. \A i \in 1 .. n : ById(S)[i] \in S /\ Cardinality(below(ById(S)[i])) = i
    BY <1>9 DEF ById
  <1>11. ASSUME NEW x \in S PROVE \E i \in 1 .. n : ById(S)[i] = x
    <2> DEFINE i == Cardinality(below(x))
    <2> HIDE DEF below
    <2>1. i \in 1 .. n
      BY <1>1, <1>2
    <2> HIDE DEF i
    <2>2. ById(S)[i] \in S /\ Cardinality(below(ById(S)[i])) = i
      BY <1>10, <2>1
    <2>3. ById(S)[i] = x
      BY <2>2, <1>4 DEF i
    <2> QED
      BY <2>1, <2>3
  <1> QED
    BY <1>1, <1>10, <1>11

\* Every order of a finite set has all its elements.
LEMMA OrderFacts ==
    ASSUME NEW S, IsFiniteSet(S), NEW order \in SetToSeqs(S)
    PROVE  /\ order \in Seq(S)
           /\ \A x \in S : \E i \in 1 .. Len(order) : order[i] = x
  <1> DEFINE n == Cardinality(S)
  <1>1. n \in Nat
    BY FS_CardinalityType
  <1>2. order \in [1 .. n -> S] /\ \A i, j \in 1 .. n : i # j => order[i] # order[j]
    BY DEF SetToSeqs
  <1>3. IsFiniteSet(1 .. n) /\ Cardinality(1 .. n) = n
    BY <1>1, FS_Interval
  <1> HIDE DEF n
  <1>4. order \in Injection(1 .. n, S)
    BY <1>2 DEF Injection, IsInjective
  <1>5. order \in Surjection(1 .. n, S)
    BY <1>3, <1>4, FS_Injection DEF n
  <1>6. order \in Seq(S) /\ Len(order) = n
    BY <1>1, <1>2
  <1> QED
    BY <1>5, <1>6 DEF Surjection

\* Dropping the first entry moves the others one place to the front.
LEMMA DropFirst ==
    ASSUME NEW S, NEW s \in Seq(S), s # <<>>
    PROVE  /\ Len(s) \in Nat \ {0} /\ Head(s) = s[1] /\ s[1] \in S
           /\ Tail(s) \in Seq(S) /\ Len(Tail(s)) = Len(s) - 1
           /\ \A i \in 1 .. Len(s) - 1 : Tail(s)[i] = s[i + 1]
           /\ \A i \in 2 .. Len(s) : i - 1 \in 1 .. Len(Tail(s)) /\ Tail(s)[i - 1] = s[i]
  <1>1. Len(s) \in Nat \ {0} /\ s[1] \in S /\ Head(s) = s[1]
    BY EmptySeq
  <1>2. Tail(s) \in Seq(S) /\ Len(Tail(s)) = Len(s) - 1
    BY HeadTailProperties
  <1>3. \A i \in 1 .. Len(s) - 1 : Tail(s)[i] = s[i + 1]
    BY <1>2, HeadTailProperties
  <1>4. \A i \in 2 .. Len(s) : i - 1 \in 1 .. Len(Tail(s)) /\ Tail(s)[i - 1] = s[i]
    <2> TAKE i \in 2 .. Len(s)
    <2>1. i - 1 \in 1 .. Len(s) - 1 /\ (i - 1) + 1 = i
      BY <1>1
    <2> QED
      BY <2>1, <1>2, <1>3
  <1> QED
    BY <1>1, <1>2, <1>3, <1>4

\* Putting a list in the place of the first entry: the new entries come first,
\* the others move by a fixed number of places.
LEMMA ReplaceFirst ==
    ASSUME NEW S, NEW s \in Seq(S), s # <<>>, NEW a \in Seq(S)
    PROVE  LET new == a \o Tail(s)
           IN  /\ new \in Seq(S) /\ Len(new) = Len(a) + Len(s) - 1
               /\ \A i \in 1 .. Len(a) : new[i] = a[i]
               /\ \A i \in 1 .. Len(new) : \/ i \in 1 .. Len(a)
                                           \/ /\ i > Len(a) /\ i - Len(a) + 1 \in 2 .. Len(s)
                                              /\ new[i] = s[i - Len(a) + 1]
               /\ \A i \in 2 .. Len(s) : /\ i + Len(a) - 1 \in 1 .. Len(new)
                                         /\ i + Len(a) - 1 > Len(a)
                                         /\ new[i + Len(a) - 1] = s[i]
  <1> DEFINE new == a \o Tail(s)
             n == Len(a)
             t == Tail(s)
  <1>1. /\ Len(s) \in Nat \ {0} /\ t \in Seq(S) /\ Len(t) = Len(s) - 1
        /\ \A i \in 1 .. Len(s) - 1 : t[i] = s[i + 1]
    BY DropFirst
  <1>2. n \in Nat
    BY LenProperties
  <1> HIDE DEF t
  <1>3. /\ a \o t \in Seq(S) /\ Len(a \o t) = Len(a) + Len(t)
        /\ \A i \in 1 .. Len(a) + Len(t) : (a \o t)[i] = IF i <= Len(a) THEN a[i] ELSE t[i - Len(a)]
    BY <1>1, ConcatProperties
  <1>a. new = a \o t
    BY DEF t
  <1>4. /\ new \in Seq(S) /\ Len(new) = n + (Len(s) - 1)
        /\ \A i \in 1 .. n + (Len(s) - 1) : new[i] = IF i <= n THEN a[i] ELSE t[i - n]
    BY <1>a, <1>1, <1>3
  <1> HIDE DEF new, n
  <1> DEFINE k == Len(s)
  <1>k. k \in Nat \ {0} /\ Len(new) = n + k - 1
    BY <1>1, <1>2, <1>4
  <1>5. \A i \in 1 .. n : new[i] = a[i]
    <2> TAKE i \in 1 .. n
    <2>1. i <= n /\ i \in 1 .. n + (Len(s) - 1)
      BY <1>k, <1>2
    <2> QED
      BY <2>1, <1>4
  <1>6. ASSUME NEW i \in 1 .. Len(new), i \notin 1 .. n
        PROVE  i > n /\ i - n + 1 \in 2 .. Len(s) /\ new[i] = s[i - n + 1]
    <2>1. i > n /\ ~(i <= n) /\ i - n \in 1 .. Len(s) - 1 /\ i \in 1 .. n + (Len(s) - 1) /\ i - n + 1 \in 2 .. Len(s)
      BY <1>2, <1>k, <1>6
    <2> QED
      BY <2>1, <1>1, <1>4
  <1>7. ASSUME NEW i \in 2 .. Len(s)
        PROVE  i + n - 1 \in 1 .. Len(new) /\ i + n - 1 > n /\ new[i + n - 1] = s[i]
    <2>1. /\ i + n - 1 \in 1 .. Len(new) /\ i + n - 1 > n /\ ~(i + n - 1 <= n)
          /\ (i + n - 1) - n = i - 1 /\ i - 1 \in 1 .. Len(s) - 1 /\ (i - 1) + 1 = i
          /\ i + n - 1 \in 1 .. n + (Len(s) - 1)
      BY <1>2, <1>k
    <2>2. new[i + n - 1] = t[(i + n - 1) - n]
      BY <2>1, <1>4
    <2> QED
      BY <2>1, <2>2, <1>1
  <1> QED
    BY <1>4, <1>5, <1>6, <1>7, <1>k DEF new, n

-----------------------------------------------------------------------------
(* A transaction's next step *)

\* What a list that takes the place of the first entry of a transaction must do.
Replaces(T, a, p) ==
    LET m == T.todo[1] IN
    /\ a \in Seq(Item) /\ m.do # "lock"
    /\ \A i \in 1 .. Len(a) :
          /\ a[i].do \in {"lock", "kids"} /\ a[i].row \in Resources /\ a[i].why # "own"
          /\ a[i].do = "kids" => m.do = "kids" /\ a[i].why = "tree"
          /\ a[i].do = "lock" /\ a[i].why = "tree" =>
                Walks(T) /\ p[a[i].row] # "absent" /\ Owner[a[i].row] \in T.tree
          /\ a[i].why = "source" => m.do = "sources"
          /\ a[i].why = "target" => m.do = "targets"
    /\ \A i \in 1 .. Len(a) : a[i].do = "lock" /\ a[i].why = "tree" =>
          \E j \in i + 1 .. Len(a) : a[j] = ListKids(a[i].row, Groups(T.op, a[i].row))
    /\ \A j \in 1 .. Len(a) : a[j].do = "kids" =>
          \/ a[j].row \in T.tree
          \/ p[a[j].row] = "gone"
          \/ \E i \in 1 .. j - 1 : a[i].do = "lock" /\ a[i].why = "tree" /\ a[i].row = a[j].row
    /\ m.do = "kids" => \A c \in Children(m.row) :
          InTable(p, c) /\ (\E g \in m.groups : Kind[c] \in g) =>
             \E i \in 1 .. Len(a) :
                \/ a[i] = LockRow(c, "tree")
                \/ a[i].do = "kids" /\ a[i].row = m.row /\ \E g \in a[i].groups : Kind[c] \in g
    /\ m.do = "targets" => \A x \in T.to : \E i \in 1 .. Len(a) : a[i] = LockRow(x, "target")

\* A transaction keeps its part of the invariant when such a list replaces the entry.
LEMMA ReplaceKeeps ==
    ASSUME NEW T, NEW H, NEW p, TxInv(T, H, p), T.op \in Ops, T.todo # <<>>,
           NEW a, Replaces(T, a, p)
    PROVE  TxInv([T EXCEPT !.todo = a \o Tail(T.todo)], H, p)
  <1> DEFINE T2 == [T EXCEPT !.todo = a \o Tail(T.todo)]
             s == T.todo
             new == a \o Tail(s)
             k == Len(a)
             m == s[1]
  <1>1. /\ s \in Seq(Item) /\ s # <<>> /\ a \in Seq(Item) /\ TxType(T, H)
        /\ T \in [op : Ops \cup Done \cup {"idle"}, on : Resources \cup {NoOwner},
                 to : SUBSET Resources, todo : Seq(Item), tree : SUBSET Resources]
    BY DEF TxInv, TxType, Replaces
  <1>2. k \in Nat /\ Len(s) \in Nat \ {0} /\ s[1] \in Item
    BY <1>1, LenProperties, DropFirst
  <1>3. /\ new \in Seq(Item) /\ Len(new) = k + Len(s) - 1
        /\ \A i \in 1 .. k : new[i] = a[i]
        /\ \A i \in 1 .. Len(new) : \/ i \in 1 .. k
                                    \/ i > k /\ i - k + 1 \in 2 .. Len(s) /\ new[i] = s[i - k + 1]
        /\ \A i \in 2 .. Len(s) : /\ i + k - 1 \in 1 .. Len(new) /\ i + k - 1 > k
                                  /\ new[i + k - 1] = s[i]
    BY <1>1, ReplaceFirst
  <1>4. /\ T2.op = T.op /\ T2.on = T.on /\ T2.to = T.to /\ T2.todo = new /\ T2.tree = T.tree
        /\ T2 \in [op : Ops \cup Done \cup {"idle"}, on : Resources \cup {NoOwner},
                  to : SUBSET Resources, todo : Seq(Item), tree : SUBSET Resources]
    <2> HIDE DEF new
    <2>1. T2 = [T EXCEPT !.todo = new]
      BY DEF new
    <2> QED
      BY <2>1, <1>1, <1>3
  <1> HIDE DEF T2, new, k, s
  <1>s. s = T.todo
    BY DEF s
  <1>k. k = Len(a)
    BY DEF k
  \* an entry of the new list is new, or an old one that is not the first
  <1>5. \A i \in 1 .. Len(new) : \/ i \in 1 .. k /\ new[i] = a[i]
                                 \/ \E j \in 2 .. Len(s) : i = j + k - 1 /\ i > k /\ new[i] = s[j]
    <2> TAKE i \in 1 .. Len(new)
    <2>1. CASE i \in 1 .. k
      BY <2>1, <1>3
    <2>2. CASE i > k /\ i - k + 1 \in 2 .. Len(s) /\ new[i] = s[i - k + 1]
      <3>1. i = (i - k + 1) + k - 1
        BY <1>2
      <3> QED BY <2>2, <3>1
    <2> QED
      BY <2>1, <2>2, <1>3
  <1>6. \A j \in 2 .. Len(s) : j \in 1 .. Len(s)
    BY <1>2
  <1>7. 1 \in 1 .. Len(s)
    BY <1>2
  <1>own. m.why # "own"
    BY <1>7, <1>s DEF TxInv, ListOK, Replaces
  <1>a. TxType(T2, H)
    BY <1>1, <1>4 DEF TxType
  <1>b. HoldsRows(T2, H, p)
    <2>1. OwnHeld(T, H, p)
      BY <1>own, <1>s DEF TxInv, HoldsRows
    <2>2. OwnHeld(T2, H, p)
      BY <2>1, <1>4 DEF OwnHeld
    <2> QED
      BY <2>2, <1>4 DEF HoldsRows, TxInv
  <1>c. ListOK(T2, H, p)
    <2> SUFFICES ASSUME NEW i \in 1 .. Len(new), NEW x, x = new[i]
                 PROVE  /\ x.do \in {"lock", "kids"} => x.row \in Resources
                        /\ x.why # "own"
                        /\ x.do = "kids" => Walks(T) /\ x.why = "tree"
                        /\ x.do = "lock" /\ x.why = "tree" =>
                              Walks(T) /\ p[x.row] # "absent" /\ Owner[x.row] \in T.tree
                        /\ x.do = "sources" => x.why = "source"
                        /\ x.do = "targets" => x.why = "target"
                        /\ x.why = "source" => T.op = "force"
                        /\ x.why = "target" => T.op \in {"create", "patch"}
      BY <1>4 DEF ListOK, Walks
    <2>1. CASE i \in 1 .. k /\ x = a[i]
      <3>1. /\ m.do = "kids" => Walks(T)
            /\ m.do = "sources" => T.op = "force"
            /\ m.do = "targets" => T.op \in {"create", "patch"}
        BY <1>7, <1>s DEF TxInv, ListOK
      <3> QED BY <2>1, <3>1, <1>s, <1>k DEF Replaces
    <2>2. CASE \E j \in 2 .. Len(s) : x = s[j]
      <3>1. PICK j \in 2 .. Len(s) : x = s[j]
        BY <2>2
      <3>2. j \in 1 .. Len(s) /\ j # 1
        BY <1>2
      <3> QED BY <3>1, <3>2, <1>s DEF TxInv, ListOK
    <2> QED
      BY <2>1, <2>2, <1>5
  <1>d. VisitsInOrder(T2, p)
    <2>1. ASSUME NEW i \in 1 .. Len(new), Walks(T), new[i].do = "lock", new[i].why \in {"own", "tree"}
          PROVE  \E j \in i + 1 .. Len(new) :
                    new[j] = ListKids(new[i].row, Groups(T.op, new[i].row))
      <3>1. CASE i \in 1 .. k /\ new[i] = a[i]
        <4>1. a[i].do = "lock" /\ a[i].why = "tree"
          BY <2>1, <3>1, <1>k DEF Replaces
        <4>2. PICK j \in i + 1 .. k : a[j] = ListKids(a[i].row, Groups(T.op, a[i].row))
          BY <3>1, <4>1, <1>k DEF Replaces
        <4>3. j \in 1 .. k /\ j \in i + 1 .. Len(new)
          BY <3>1, <1>2, <1>3
        <4> QED BY <4>2, <4>3, <3>1, <1>3
      <3>2. CASE \E j \in 2 .. Len(s) : i = j + k - 1 /\ new[i] = s[j]
        <4>1. PICK h \in 2 .. Len(s) : i = h + k - 1 /\ new[i] = s[h]
          BY <3>2
        <4>2. PICK j \in h + 1 .. Len(s) : s[j] = ListKids(s[h].row, Groups(T.op, s[h].row))
          BY <2>1, <4>1, <1>6, <1>s DEF TxInv, VisitsInOrder
        <4>3. j \in 2 .. Len(s) /\ j + k - 1 \in i + 1 .. Len(new)
          BY <4>1, <1>2, <1>3
        <4> QED BY <4>1, <4>2, <4>3, <1>3
      <3> QED
        BY <3>1, <3>2, <1>5
    <2>2. ASSUME NEW j \in 1 .. Len(new), new[j].do = "kids"
          PROVE  \/ new[j].row \in T.tree
                 \/ p[new[j].row] = "gone"
                 \/ \E i \in 1 .. j - 1 : /\ new[i].do = "lock" /\ new[i].why \in {"own", "tree"}
                                          /\ new[i].row = new[j].row
      <3>1. CASE j \in 1 .. k /\ new[j] = a[j]
        <4>1. CASE a[j].row \in T.tree \/ p[a[j].row] = "gone"
          BY <4>1, <3>1
        <4>2. CASE \E i \in 1 .. j - 1 : a[i].do = "lock" /\ a[i].why = "tree" /\ a[i].row = a[j].row
          <5>1. PICK i \in 1 .. j - 1 : a[i].do = "lock" /\ a[i].why = "tree" /\ a[i].row = a[j].row
            BY <4>2
          <5>2. i \in 1 .. k
            BY <3>1, <1>2
          <5> QED BY <3>1, <5>1, <5>2, <1>3
        <4> QED BY <4>1, <4>2, <3>1, <2>2, <1>k DEF Replaces
      <3>2. CASE \E h \in 2 .. Len(s) : j = h + k - 1 /\ new[j] = s[h]
        <4>1. PICK h \in 2 .. Len(s) : j = h + k - 1 /\ new[j] = s[h]
          BY <3>2
        <4>2. \/ s[h].row \in T.tree
              \/ p[s[h].row] = "gone"
              \/ \E i \in 1 .. h - 1 : /\ s[i].do = "lock" /\ s[i].why \in {"own", "tree"}
                                       /\ s[i].row = s[h].row
          BY <2>2, <4>1, <1>6, <1>s DEF TxInv, VisitsInOrder
        <4>3. CASE \E i \in 1 .. h - 1 : /\ s[i].do = "lock" /\ s[i].why \in {"own", "tree"}
                                         /\ s[i].row = s[h].row
          <5>1. PICK i \in 1 .. h - 1 : /\ s[i].do = "lock" /\ s[i].why \in {"own", "tree"}
                                        /\ s[i].row = s[h].row
            BY <4>3
          <5>2. m.do # "lock"
            BY <1>s DEF Replaces
          <5>3. i \in 2 .. Len(s) /\ i + k - 1 \in 1 .. j - 1
            BY <5>1, <5>2, <4>1, <1>2
          <5> QED BY <5>1, <5>3, <4>1, <1>3
        <4> QED BY <4>1, <4>2, <4>3
      <3> QED
        BY <3>1, <3>2, <1>5
    <2>3. ASSUME NEW i \in 1 .. Len(new), NEW j \in 1 .. Len(new),
                 new[i].why = "source", new[j].do = "kids"
          PROVE  j < i
      <3>1. CASE i \in 1 .. k /\ new[i] = a[i]
        <4>1. m.do = "sources"
          BY <2>3, <3>1, <1>k, <1>s DEF Replaces
        <4>2. m.why = "source"
          BY <4>1, <1>7, <1>s DEF TxInv, ListOK
        <4>3. \A h \in 2 .. Len(s) : s[h].do # "kids"
          <5> TAKE h \in 2 .. Len(s)
          <5>1. ~(h < 1) /\ h \in 1 .. Len(s)
            BY <1>2
          <5> QED BY <5>1, <4>2, <1>7, <1>s DEF TxInv, VisitsInOrder
        <4>4. \A h \in 1 .. k : a[h].do # "kids"
          BY <4>1, <1>k, <1>s DEF Replaces
        <4> QED BY <4>3, <4>4, <1>5, <2>3
      <3>2. CASE \E h \in 2 .. Len(s) : i = h + k - 1 /\ i > k /\ new[i] = s[h]
        <4>1. PICK h \in 2 .. Len(s) : i = h + k - 1 /\ i > k /\ new[i] = s[h]
          BY <3>2
        <4>2. CASE j \in 1 .. k
          BY <4>1, <4>2, <1>2
        <4>3. CASE \E g \in 2 .. Len(s) : j = g + k - 1 /\ new[j] = s[g]
          <5>1. PICK g \in 2 .. Len(s) : j = g + k - 1 /\ new[j] = s[g]
            BY <4>3
          <5>2. g < h
            BY <2>3, <4>1, <5>1, <1>6, <1>s DEF TxInv, VisitsInOrder
          <5> QED BY <4>1, <5>1, <5>2, <1>2
        <4> QED BY <4>2, <4>3, <1>5
      <3> QED
        BY <3>1, <3>2, <1>5
    <2> QED
      BY <2>1, <2>2, <2>3, <1>4 DEF VisitsInOrder, Walks
  <1>e. MissesNone(T2, p)
    <2> SUFFICES ASSUME Walks(T), NEW x \in T.tree, NEW c \in Children(x), InTable(p, c), c \notin T.tree
                 PROVE  \E i \in 1 .. Len(new) :
                          \/ new[i] = LockRow(c, "tree")
                          \/ new[i].do = "kids" /\ new[i].row = x /\ \E g \in new[i].groups : Kind[c] \in g
      BY <1>4 DEF MissesNone, Walks
    <2>1. PICK i \in 1 .. Len(s) :
             \/ s[i] = LockRow(c, "tree")
             \/ s[i].do = "kids" /\ s[i].row = x /\ \E g \in s[i].groups : Kind[c] \in g
      BY <1>s DEF TxInv, MissesNone
    <2>2. CASE i = 1
      <3>1. m.do = "kids" /\ m.row = x /\ \E g \in m.groups : Kind[c] \in g
        BY <2>1, <2>2, <1>s DEF Replaces, LockRow
      <3>2. PICK h \in 1 .. k : \/ a[h] = LockRow(c, "tree")
                                \/ a[h].do = "kids" /\ a[h].row = m.row /\ \E g \in a[h].groups : Kind[c] \in g
        BY <3>1, <1>k, <1>s DEF Replaces
      <3>3. h \in 1 .. Len(new)
        BY <1>2, <1>3
      <3> QED BY <3>1, <3>2, <3>3, <1>3
    <2>3. CASE i # 1
      <3>1. i \in 2 .. Len(s)
        BY <2>3, <1>2
      <3> QED BY <2>1, <3>1, <1>3
    <2> QED
      BY <2>2, <2>3
  <1>f. Connected(T2, H)
    <2>1. ASSUME NEW j \in 1 .. Len(new), new[j].do = "kids"
          PROVE  \E i \in 1 .. Len(s) : s[i].do = "kids"
      <3>1. CASE j \in 1 .. k /\ new[j] = a[j]
        BY <2>1, <3>1, <1>7, <1>k, <1>s DEF Replaces
      <3> QED
        BY <2>1, <3>1, <1>5, <1>6
    <2> QED
      BY <2>1, <1>4, <1>s DEF TxInv, Connected, Walks
  <1>g. TargetsHeld(T2, H)
    <2> SUFFICES ASSUME T.op \in {"create", "patch"}, NEW x \in T.to, \A n \in {"share", "update"} : <<x, n>> \notin H
                 PROVE  \E i \in 1 .. Len(new) : new[i].do = "targets" \/ new[i] = LockRow(x, "target")
      BY <1>4 DEF TargetsHeld
    <2>1. PICK i \in 1 .. Len(s) : s[i].do = "targets" \/ s[i] = LockRow(x, "target")
      BY <1>s DEF TxInv, TargetsHeld
    <2>2. CASE i = 1
      <3>1. m.do = "targets"
        BY <2>1, <2>2, <1>s DEF Replaces, LockRow
      <3>2. PICK h \in 1 .. k : a[h] = LockRow(x, "target")
        BY <3>1, <1>k, <1>s DEF Replaces
      <3>3. h \in 1 .. Len(new)
        BY <1>2, <1>3
      <3> QED BY <3>2, <3>3, <1>3
    <2>3. CASE i # 1
      <3>1. i \in 2 .. Len(s)
        BY <2>3, <1>2
      <3> QED BY <2>1, <3>1, <1>3
    <2> QED
      BY <2>2, <2>3
  <1> QED
    BY <1>a, <1>b, <1>c, <1>d, <1>e, <1>f, <1>g DEF TxInv, T2

\* There is a height that decreases from a resource to what it owns.
LEMMA HeightFacts ==
    /\ Height \in [Resources -> Nat]
    /\ \A r \in Resources : Owner[r] \in Resources => Height[r] < Height[Owner[r]]
  <1>1. Height \in Heights
    BY LocksAssumption DEF Height
  <1>2. Cardinality(Resources) \in Nat
    BY LocksAssumption, FS_CardinalityType
  <1>3. /\ Height \in [Resources -> 0 .. Cardinality(Resources)]
        /\ \A r \in Resources : Owner[r] # NoOwner => Height[r] < Height[Owner[r]]
    BY <1>1 DEF Heights
  <1> QED
    BY <1>2, <1>3, LocksAssumption

\* The groups a resource's children are listed by have all their kinds.
LEMMA GroupsFacts ==
    ASSUME NEW r \in Resources, NEW op \in Ops
    PROVE  /\ Groups(op, r) \in SUBSET SUBSET Kinds
           /\ \A c \in Children(r) : \E g \in Groups(op, r) : Kind[c] \in g
  BY DEF Groups, ChildKinds, Children, Kinds

\* A transaction and its locks after it has locked the row m is about.
TxAfter(T, m, p) ==
    [T EXCEPT !.todo = Tail(T.todo),
              !.tree = IF m.why \in {"own", "tree"} /\ InTable(p, m.row) THEN T.tree \cup {m.row} ELSE T.tree]
LocksAfter(H, m, p) == IF InTable(p, m.row) THEN H \cup {<<m.row, Mode(m)>>} ELSE H

\* A transaction keeps its part of the invariant when it locks its next row.
LEMMA LockKeeps ==
    ASSUME NEW T, NEW H, NEW p, TxInv(T, H, p), T.op \in Ops, T.todo # <<>>,
           NEW m, m = T.todo[1], m.do = "lock",
           m.why = "own" => p[m.row] \in CASE T.op \in {"create", "patch"} -> {"active"}
                                           [] T.op = "force"               -> {"finalizing"}
                                           [] OTHER                        -> {"active", "finalizing"},
           m.why = "target" => InTable(p, m.row),
           NEW T2, T2 = TxAfter(T, m, p), NEW H2, H2 = LocksAfter(H, m, p),
           p \in [Resources -> {"absent", "active", "finalizing", "gone"}]
    PROVE  TxInv(T2, H2, p)
  <1> DEFINE s == T.todo
             new == Tail(s)
             in == InTable(p, m.row)
  <1>1. /\ s \in Seq(Item) /\ s # <<>> /\ TxType(T, H)
        /\ T \in [op : Ops \cup Done \cup {"idle"}, on : Resources \cup {NoOwner},
                  to : SUBSET Resources, todo : Seq(Item), tree : SUBSET Resources]
    BY DEF TxInv, TxType
  <1>2. /\ Len(s) \in Nat \ {0} /\ s[1] \in Item
        /\ new \in Seq(Item) /\ Len(new) = Len(s) - 1
        /\ \A i \in 1 .. Len(s) - 1 : new[i] = s[i + 1]
        /\ \A i \in 2 .. Len(s) : i - 1 \in 1 .. Len(new) /\ new[i - 1] = s[i]
    BY <1>1, DropFirst
  <1>s. s = T.todo /\ m = s[1] /\ 1 \in 1 .. Len(s)
    BY <1>2
  <1> HIDE DEF s, new
  <1>3. \A i \in 1 .. Len(new) : i + 1 \in 2 .. Len(s) /\ i + 1 \in 1 .. Len(s) /\ new[i] = s[i + 1]
    BY <1>2
  <1>m. /\ m.row \in Resources
        /\ m.why = "own" => m.row = OwnRow(T) /\ H = {} /\ T.tree = {}
        /\ m.why = "tree" => Walks(T) /\ p[m.row] # "absent" /\ Owner[m.row] \in T.tree
        /\ m.why = "source" => T.op = "force"
        /\ m.why = "target" => T.op \in {"create", "patch"}
        /\ m.why \in {"own", "tree", "source", "target"}
    BY <1>s, <1>2 DEF TxInv, ListOK, Item
  <1>in. m.why = "own" => in
    <2>1. T.op \in {"create", "patch"} \/ T.op = "force" \/ T.op \in {"delete", "report"}
      BY DEF Ops
    <2> QED BY <2>1 DEF InTable
  <1>4. /\ T2.op = T.op /\ T2.on = T.on /\ T2.to = T.to /\ T2.todo = new
        /\ T2.tree = IF m.why \in {"own", "tree"} /\ in THEN T.tree \cup {m.row} ELSE T.tree
        /\ T2 \in [op : Ops \cup Done \cup {"idle"}, on : Resources \cup {NoOwner},
                   to : SUBSET Resources, todo : Seq(Item), tree : SUBSET Resources]
    BY <1>1, <1>2, <1>m DEF s, new, TxAfter
  <1>5. T.tree \subseteq T2.tree /\ T2.tree \subseteq T.tree \cup {m.row} /\ H \subseteq H2
    BY <1>4 DEF LocksAfter
  <1>mode. Mode(m) \in {"share", "update"} /\ (m.why # "target" => Mode(m) = "update")
    BY DEF Mode
  <1> HIDE DEF in
  <1>h. \A l \in H2 : l \in H \/ (in /\ l = <<m.row, Mode(m)>>)
    BY DEF in, LocksAfter
  <1>hm. in => <<m.row, Mode(m)>> \in H2
    BY DEF in, LocksAfter
  <1>a. TxType(T2, H2)
    BY <1>1, <1>4, <1>h, <1>m, <1>mode DEF TxType
  <1>b. HoldsRows(T2, H2, p)
    <2>1. \A l \in H2 : InTable(p, l[1])
      BY <1>h DEF TxInv, HoldsRows, in
    <2>2. \A x \in T2.tree : <<x, "update">> \in H2
      <3> TAKE x \in T2.tree
      <3>1. CASE x \in T.tree
        BY <3>1, <1>5 DEF TxInv, HoldsRows
      <3>2. CASE x \notin T.tree
        BY <3>2, <1>4, <1>hm, <1>mode
      <3> QED BY <3>1, <3>2
    <2>3. OwnHeld(T2, H2, p)
      <3>1. CASE m.why = "own"
        <4>1. m.row = OwnRow(T) /\ in /\ <<m.row, "update">> \in H2 /\ m.row \in T2.tree
          BY <3>1, <1>m, <1>in, <1>hm, <1>mode, <1>4
        <4>2. CASE T.op = "create"
          BY <3>1, <4>1, <4>2, <1>4 DEF OwnHeld, OwnRow
        <4>3. CASE T.op = "patch"
          BY <3>1, <4>1, <4>3, <1>4 DEF OwnHeld, OwnRow
        <4>4. CASE T.op = "force"
          BY <3>1, <4>1, <4>4, <1>4 DEF OwnHeld, OwnRow
        <4>5. CASE T.op \in {"delete", "report"}
          BY <3>1, <4>1, <4>5, <1>4 DEF OwnHeld, OwnRow
        <4> QED BY <4>2, <4>3, <4>4, <4>5 DEF Ops
      <3>2. CASE m.why # "own"
        <4>1. OwnHeld(T, H, p)
          BY <3>2, <1>s DEF TxInv, HoldsRows
        <4> QED BY <4>1, <1>4, <1>5 DEF OwnHeld
      <3> QED BY <3>1, <3>2
    <2> QED
      BY <2>1, <2>2, <2>3, <1>4 DEF HoldsRows, TxInv
  <1>c. ListOK(T2, H2, p)
    <2> SUFFICES ASSUME NEW i \in 1 .. Len(new), NEW x, x = new[i]
                 PROVE  /\ x.do \in {"lock", "kids"} => x.row \in Resources
                        /\ x.why # "own"
                        /\ x.do = "kids" => Walks(T) /\ x.why = "tree"
                        /\ x.do = "lock" /\ x.why = "tree" =>
                              Walks(T) /\ p[x.row] # "absent" /\ Owner[x.row] \in T.tree
                        /\ x.do = "sources" => x.why = "source"
                        /\ x.do = "targets" => x.why = "target"
                        /\ x.why = "source" => T.op = "force"
                        /\ x.why = "target" => T.op \in {"create", "patch"}
      BY <1>4, <1>5 DEF ListOK, Walks
    <2>1. i + 1 \in 1 .. Len(s) /\ i + 1 # 1 /\ x = s[i + 1]
      BY <1>2, <1>3
    <2> QED
      BY <2>1, <1>s DEF TxInv, ListOK
  <1>d. VisitsInOrder(T2, p)
    <2>1. ASSUME NEW i \in 1 .. Len(new), Walks(T), new[i].do = "lock", new[i].why \in {"own", "tree"}
          PROVE  \E j \in i + 1 .. Len(new) :
                    new[j] = ListKids(new[i].row, Groups(T.op, new[i].row))
      <3>1. i + 1 \in 1 .. Len(s) /\ new[i] = s[i + 1]
        BY <1>3
      <3>2. PICK j \in (i + 1) + 1 .. Len(s) : s[j] = ListKids(s[i + 1].row, Groups(T.op, s[i + 1].row))
        BY <2>1, <3>1, <1>s DEF TxInv, VisitsInOrder
      <3>3. j \in 2 .. Len(s) /\ j - 1 \in i + 1 .. Len(new)
        BY <1>2
      <3> QED BY <3>1, <3>2, <3>3, <1>2
    <2>2. ASSUME NEW j \in 1 .. Len(new), new[j].do = "kids"
          PROVE  \/ new[j].row \in T2.tree
                 \/ p[new[j].row] = "gone"
                 \/ \E i \in 1 .. j - 1 : /\ new[i].do = "lock" /\ new[i].why \in {"own", "tree"}
                                          /\ new[i].row = new[j].row
      <3>1. j + 1 \in 1 .. Len(s) /\ new[j] = s[j + 1]
        BY <1>3
      <3>2. \/ new[j].row \in T.tree
            \/ p[new[j].row] = "gone"
            \/ \E i \in 1 .. (j + 1) - 1 : /\ s[i].do = "lock" /\ s[i].why \in {"own", "tree"}
                                           /\ s[i].row = new[j].row
        BY <2>2, <3>1, <1>s DEF TxInv, VisitsInOrder
      <3>3. CASE \E i \in 1 .. (j + 1) - 1 : /\ s[i].do = "lock" /\ s[i].why \in {"own", "tree"}
                                             /\ s[i].row = new[j].row
        <4>1. PICK i \in 1 .. (j + 1) - 1 : /\ s[i].do = "lock" /\ s[i].why \in {"own", "tree"}
                                            /\ s[i].row = new[j].row
          BY <3>3
        <4>2. CASE i = 1
          <5>1. m.why \in {"own", "tree"} /\ m.row = new[j].row
            BY <4>1, <4>2, <1>s
          <5>2. CASE in
            BY <5>1, <5>2, <1>4
          <5>3. CASE ~in
            <6>1. p[m.row] # "absent" /\ p[m.row] \in {"absent", "active", "finalizing", "gone"}
              BY <5>1, <5>3, <1>in, <1>m
            <6> QED BY <6>1, <5>1, <5>3 DEF in, InTable
          <5> QED BY <5>2, <5>3
        <4>3. CASE i # 1
          <5>1. i \in 2 .. Len(s) /\ i - 1 \in 1 .. j - 1
            BY <4>3, <3>1, <1>2
          <5> QED BY <5>1, <4>1, <1>2
        <4> QED BY <4>2, <4>3
      <3> QED
        BY <3>2, <3>3, <1>5
    <2>3. ASSUME NEW i \in 1 .. Len(new), NEW j \in 1 .. Len(new),
                 new[i].why = "source", new[j].do = "kids"
          PROVE  j < i
      <3>1. i + 1 \in 1 .. Len(s) /\ j + 1 \in 1 .. Len(s) /\ new[i] = s[i + 1] /\ new[j] = s[j + 1]
        BY <1>3
      <3>2. j + 1 < i + 1
        BY <2>3, <3>1, <1>s DEF TxInv, VisitsInOrder
      <3> QED BY <3>2, <1>2
    <2> QED
      BY <2>1, <2>2, <2>3, <1>4 DEF VisitsInOrder, Walks
  <1>e. MissesNone(T2, p)
    <2> SUFFICES ASSUME Walks(T), NEW x \in T2.tree, NEW c \in Children(x), InTable(p, c), c \notin T2.tree
                 PROVE  \E i \in 1 .. Len(new) :
                           \/ new[i] = LockRow(c, "tree")
                           \/ new[i].do = "kids" /\ new[i].row = x /\ \E g \in new[i].groups : Kind[c] \in g
      BY <1>4 DEF MissesNone, Walks
    <2>1. CASE x \in T.tree
      <3>1. PICK i \in 1 .. Len(s) :
               \/ s[i] = LockRow(c, "tree")
               \/ s[i].do = "kids" /\ s[i].row = x /\ \E g \in s[i].groups : Kind[c] \in g
        BY <2>1, <1>5, <1>s DEF TxInv, MissesNone
      <3>2. i # 1
        <4> SUFFICES ASSUME i = 1 PROVE FALSE
          OBVIOUS
        <4>1. m = LockRow(c, "tree")
          BY <3>1, <1>s
        <4>2. m.row = c /\ m.why = "tree"
          BY <4>1 DEF LockRow
        <4> QED BY <4>2, <1>4 DEF in
      <3>3. i \in 2 .. Len(s)
        BY <3>2, <1>2
      <3> QED BY <3>1, <3>3, <1>2
    <2>2. CASE x \notin T.tree
      <3>1. x = m.row /\ m.why \in {"own", "tree"}
        BY <2>2, <1>4
      <3>2. PICK j \in 1 + 1 .. Len(s) : s[j] = ListKids(x, Groups(T.op, x))
        BY <3>1, <1>s DEF TxInv, VisitsInOrder
      <3>3. j \in 2 .. Len(s)
        OBVIOUS
      <3>4. j - 1 \in 1 .. Len(new) /\ new[j - 1] = ListKids(x, Groups(T.op, x))
        BY <3>2, <3>3, <1>2
      <3>5. PICK g \in Groups(T.op, x) : Kind[c] \in g
        BY <3>1, <1>m, GroupsFacts
      <3> QED BY <3>4, <3>5 DEF ListKids
    <2> QED
      BY <2>1, <2>2
  <1>f. Connected(T2, H2)
    <2>1. ASSUME NEW j \in 1 .. Len(new), new[j].do = "kids"
          PROVE  \A l \in H2 : l[1] \in T2.tree
      <3>1. j + 1 \in 1 .. Len(s) /\ s[j + 1].do = "kids" /\ ~(j + 1 < 1)
        BY <2>1, <1>3, <1>2
      <3>2. Walks(T) /\ \A l \in H : l[1] \in T.tree
        BY <3>1, <1>s DEF TxInv, ListOK, Connected
      <3>3. m.why # "target"
        BY <3>2, <1>m DEF Walks
      <3>4. m.why # "source"
        BY <3>1, <1>s DEF TxInv, VisitsInOrder
      <3> QED BY <3>2, <3>3, <3>4, <1>h, <1>m, <1>4
    <2>2. ASSUME Walks(T), NEW x \in T2.tree
          PROVE  (x = T.on \/ Owner[x] \in T2.tree) /\ Height[x] <= Height[T.on]
      <3>0. T.on \in Resources /\ T.tree \subseteq Resources
        BY <1>1 DEF TxType
      <3>1. CASE x \in T.tree
        BY <2>2, <3>1, <1>5 DEF TxInv, Connected
      <3>2. CASE x \notin T.tree
        <4>1. x = m.row /\ m.why \in {"own", "tree"}
          BY <2>2, <3>2, <1>4
        <4>2. CASE m.why = "own"
          <5>1. x = T.on
            BY <2>2, <4>1, <4>2, <1>m DEF OwnRow, Walks
          <5> QED BY <5>1, <3>0, HeightFacts
        <4>3. CASE m.why = "tree"
          <5>1. Owner[x] \in T.tree /\ Height[Owner[x]] <= Height[T.on]
            BY <2>2, <4>1, <4>3, <1>m DEF TxInv, Connected
          <5>2. Height[x] < Height[Owner[x]] /\ {Height[x], Height[Owner[x]], Height[T.on]} \subseteq Nat
            BY <5>1, <4>1, <1>m, <3>0, HeightFacts
          <5> QED BY <5>1, <5>2, <1>5
        <4> QED BY <4>1, <4>2, <4>3
      <3> QED BY <3>1, <3>2
    <2> QED
      BY <2>1, <2>2, <1>4 DEF Connected, Walks
  <1>g. TargetsHeld(T2, H2)
    <2> SUFFICES ASSUME T.op \in {"create", "patch"}, NEW x \in T.to,
                        \A n \in {"share", "update"} : <<x, n>> \notin H2
                 PROVE  \E i \in 1 .. Len(new) : new[i].do = "targets" \/ new[i] = LockRow(x, "target")
      BY <1>4, ZenonT(60) DEF TargetsHeld
    <2>1. PICK i \in 1 .. Len(s) : s[i].do = "targets" \/ s[i] = LockRow(x, "target")
      BY <1>s, <1>5 DEF TxInv, TargetsHeld
    <2>2. i # 1
      <3> SUFFICES ASSUME i = 1 PROVE FALSE
        OBVIOUS
      <3>1. m.row = x /\ m.why = "target"
        BY <2>1, <1>s DEF LockRow
      <3> QED BY <3>1, <1>hm, <1>mode DEF in
    <2>3. i \in 2 .. Len(s)
      BY <2>2, <1>2
    <2> QED
      BY <2>1, <2>3, <1>2
  <1> QED
    BY <1>a, <1>b, <1>c, <1>d, <1>e, <1>f, <1>g DEF TxInv

NewTx(op, r, to) == [op |-> op, on |-> r, to |-> to, todo |-> Program(op, r), tree |-> {}]

\* What a new list has on it.
LEMMA ProgramFacts ==
    ASSUME NEW op \in Ops, NEW r \in Resources, NEW s, s = Program(op, r)
    PROVE  /\ s \in Seq(Item)
           /\ op = "create" /\ Owner[r] = NoOwner => Len(s) = 1 /\ s[1] = ReadTargets
           /\ op = "create" /\ Owner[r] # NoOwner =>
                 Len(s) = 2 /\ s[1] = LockRow(Owner[r], "own") /\ s[2] = ReadTargets
           /\ op = "patch" => Len(s) = 2 /\ s[1] = LockRow(r, "own") /\ s[2] = ReadTargets
           /\ op = "delete" => Len(s) = 2 /\ s[1] = LockRow(r, "own") /\ s[2] = ListKids(r, Groups(op, r))
           /\ op = "force" => /\ Len(s) = 3 /\ s[1] = LockRow(r, "own")
                              /\ s[2] = ListKids(r, Groups(op, r)) /\ s[3] = ListSources
           /\ op = "report" => Len(s) = 1 /\ s[1] = LockRow(r, "own")
  <1>1. /\ ReadTargets \in Item /\ ListSources \in Item
        /\ LockRow(r, "own") \in Item /\ LockRow(Owner[r], "own") \in Item
    BY LocksAssumption DEF ReadTargets, ListSources, LockRow, Item
  <1>2. ListKids(r, Groups(op, r)) \in Item
    BY GroupsFacts DEF ListKids, Item
  <1>3. CASE op = "create" /\ Owner[r] = NoOwner
    BY <1>1, <1>3 DEF Program
  <1>4. CASE op = "create" /\ Owner[r] # NoOwner
    BY <1>1, <1>4 DEF Program
  <1>5. CASE op = "patch"
    BY <1>1, <1>5 DEF Program
  <1>6. CASE op = "delete"
    BY <1>1, <1>2, <1>6 DEF Program
  <1>7. CASE op = "force"
    BY <1>1, <1>2, <1>7 DEF Program
  <1>8. CASE op = "report"
    BY <1>1, <1>8 DEF Program
  <1> QED
    BY <1>3, <1>4, <1>5, <1>6, <1>7, <1>8 DEF Ops

\* A new transaction has its part of the invariant.
LEMMA BeginKeeps ==
    ASSUME NEW op \in Ops, NEW r \in Resources, NEW to \in SUBSET Resources, NEW p,
           op = "create" => p[r] = "absent",
           NEW T, T = NewTx(op, r, to)
    PROVE  TxInv(T, {}, p)
  <1> DEFINE s == Program(op, r)
             P == /\ s \in Seq(Item)
                  /\ op = "create" /\ Owner[r] = NoOwner => Len(s) = 1 /\ s[1] = ReadTargets
                  /\ op = "create" /\ Owner[r] # NoOwner =>
                        Len(s) = 2 /\ s[1] = LockRow(Owner[r], "own") /\ s[2] = ReadTargets
                  /\ op = "patch" => Len(s) = 2 /\ s[1] = LockRow(r, "own") /\ s[2] = ReadTargets
                  /\ op = "delete" => /\ Len(s) = 2 /\ s[1] = LockRow(r, "own")
                                      /\ s[2] = ListKids(r, Groups(op, r))
                  /\ op = "force" => /\ Len(s) = 3 /\ s[1] = LockRow(r, "own")
                                     /\ s[2] = ListKids(r, Groups(op, r)) /\ s[3] = ListSources
                  /\ op = "report" => Len(s) = 1 /\ s[1] = LockRow(r, "own")
  <1>1. P
    BY ProgramFacts
  <1>2. /\ T.op = op /\ T.on = r /\ T.to = to /\ T.todo = s /\ T.tree = {}
        /\ T \in [op : Ops \cup Done \cup {"idle"}, on : Resources \cup {NoOwner},
                  to : SUBSET Resources, todo : Seq(Item), tree : SUBSET Resources]
    BY <1>1 DEF NewTx
  <1> HIDE DEF s
  <1>3. Owner[r] # NoOwner => Owner[r] \in Resources
    BY LocksAssumption
  <1>len. Len(s) \in 1 .. 3 /\ \A i \in 1 .. Len(s) : i = 1 \/ (i = 2 /\ Len(s) > 1) \/ (i = 3 /\ Len(s) = 3)
    <2>1. Len(s) \in {1, 2, 3}
      BY <1>1 DEF Ops
    <2>2. ASSUME NEW n \in {1, 2, 3}
          PROVE  n \in 1 .. 3 /\ \A i \in 1 .. n : i = 1 \/ (i = 2 /\ n > 1) \/ (i = 3 /\ n = 3)
      OBVIOUS
    <2> QED BY <2>1, <2>2
  <1>a. TxType(T, {})
    BY <1>2 DEF TxType
  <1>b. HoldsRows(T, {}, p)
    <2>1. CASE op = "create" /\ Owner[r] = NoOwner
      BY <2>1, <1>2 DEF HoldsRows, OwnHeld, Ops
    <2>2. CASE ~(op = "create" /\ Owner[r] = NoOwner)
      <3>1. s # <<>> /\ s[1].why = "own"
        BY <2>2, <1>1, <1>len, EmptySeq DEF LockRow, Ops
      <3> QED BY <3>1, <1>2 DEF HoldsRows
    <2> QED BY <2>1, <2>2
  <1>c. ListOK(T, {}, p)
    <2> SUFFICES ASSUME NEW i \in 1 .. Len(s), NEW x, x = s[i]
                 PROVE  /\ x.do \in {"lock", "kids"} => x.row \in Resources
                        /\ x.why = "own" => i = 1 /\ x.do = "lock" /\ x.row = OwnRow(T)
                        /\ x.do = "kids" => Walks(T) /\ x.why = "tree"
                        /\ ~(x.do = "lock" /\ x.why = "tree")
                        /\ x.do = "sources" => x.why = "source"
                        /\ x.do = "targets" => x.why = "target"
                        /\ x.why = "source" => T.op = "force"
                        /\ x.why = "target" => T.op \in {"create", "patch"}
      BY <1>2 DEF ListOK
    <2>1. CASE x = LockRow(OwnRow(T), "own") /\ i = 1 /\ OwnRow(T) \in Resources
      BY <2>1 DEF LockRow
    <2>2. CASE x = ReadTargets /\ op \in {"create", "patch"}
      BY <2>2, <1>2 DEF ReadTargets
    <2>3. CASE x = ListKids(r, Groups(op, r)) /\ op \in {"delete", "force"}
      BY <2>3, <1>2 DEF ListKids, Walks
    <2>4. CASE x = ListSources /\ op = "force"
      BY <2>4, <1>2 DEF ListSources
    <2>5. OwnRow(T) = IF op = "create" THEN Owner[r] ELSE r
      BY <1>2 DEF OwnRow
    <2> QED
      BY <2>1, <2>2, <2>3, <2>4, <2>5, <1>1, <1>3, <1>len DEF Ops
  <1>kids. \A j \in 1 .. Len(s) : s[j].do = "kids" => j = 2 /\ s[j].row = s[1].row /\ s[1].do = "lock" /\ s[1].why = "own"
    BY <1>1, <1>len DEF Ops, LockRow, ListKids, ReadTargets, ListSources
  <1>source. \A j \in 1 .. Len(s) : s[j].why = "source" => j = 3
    BY <1>1, <1>len DEF Ops, LockRow, ListKids, ReadTargets, ListSources
  <1>d. VisitsInOrder(T, p)
    <2>1. ASSUME NEW i \in 1 .. Len(s), Walks(T), s[i].do = "lock", s[i].why \in {"own", "tree"}
          PROVE  \E j \in i + 1 .. Len(s) : s[j] = ListKids(s[i].row, Groups(T.op, s[i].row))
      <3>1. op \in {"delete", "force"}
        BY <2>1, <1>2 DEF Walks
      <3>2. i = 1
        BY <2>1, <3>1, <1>1, <1>len DEF ListKids, ListSources
      <3>3. s[i].row = r /\ s[2] = ListKids(r, Groups(op, r)) /\ 2 \in i + 1 .. Len(s)
        BY <3>1, <3>2, <1>1 DEF LockRow
      <3> QED BY <3>3, <1>2
    <2>2. \A j \in 1 .. Len(s) : s[j].do = "kids" =>
             \E i \in 1 .. j - 1 : s[i].do = "lock" /\ s[i].why \in {"own", "tree"} /\ s[i].row = s[j].row
      BY <1>kids
    <2>3. \A i, j \in 1 .. Len(s) : s[i].why = "source" /\ s[j].do = "kids" => j < i
      BY <1>kids, <1>source
    <2> QED
      BY <2>1, <2>2, <2>3, <1>2 DEF VisitsInOrder
  <1>e. MissesNone(T, p) /\ Connected(T, {})
    BY <1>2 DEF MissesNone, Connected
  <1>f. TargetsHeld(T, {})
    <2>1. op \in {"create", "patch"} => \E i \in 1 .. Len(s) : s[i].do = "targets"
      <3>1. CASE op = "create" /\ Owner[r] = NoOwner
        BY <3>1, <1>1 DEF ReadTargets
      <3>2. CASE op = "patch" \/ (op = "create" /\ Owner[r] # NoOwner)
        <4>1. s[2].do = "targets" /\ 2 \in 1 .. Len(s)
          BY <3>2, <1>1 DEF ReadTargets
        <4> QED BY <4>1
      <3> QED BY <3>1, <3>2
    <2> QED
      BY <2>1, <1>2 DEF TargetsHeld
  <1> QED
    BY <1>a, <1>b, <1>c, <1>d, <1>e, <1>f DEF TxInv

Ended(how) == [op |-> how, on |-> NoOwner, to |-> {}, todo |-> <<>>, tree |-> {}]

\* Ending a transaction leaves it with nothing to do.
LEMMA EndedIs == ASSUME NEW how PROVE [Idle EXCEPT !.op = how] = Ended(how)
  <1> DEFINE e == <<>>
  <1>1. Idle = [op |-> "idle", on |-> NoOwner, to |-> {}, todo |-> e, tree |-> {}]
    BY DEF Idle
  <1>2. Ended(how) = [op |-> how, on |-> NoOwner, to |-> {}, todo |-> e, tree |-> {}]
    BY DEF Ended
  <1> HIDE DEF e
  <1> QED
    BY <1>1, <1>2

\* A transaction that has ended, or has not begun, has its part of the invariant.
LEMMA EndKeeps ==
    ASSUME NEW how \in Done \cup {"idle"}, NEW p, NEW T, T = Ended(how)
    PROVE  TxInv(T, {}, p)
  <1>1. T = [op |-> how, on |-> NoOwner, to |-> {}, todo |-> <<>>, tree |-> {}]
    BY DEF Ended
  <1>2. /\ T.op = how /\ T.on = NoOwner /\ T.to = {} /\ T.todo = <<>> /\ T.tree = {}
        /\ T \in [op : Ops \cup Done \cup {"idle"}, on : Resources \cup {NoOwner},
                  to : SUBSET Resources, todo : Seq(Item), tree : SUBSET Resources]
    <2>1. <<>> \in Seq(Item)
      BY EmptySeq
    <2> DEFINE e == <<>>
    <2> HIDE DEF e
    <2>2. e = <<>> /\ e \in Seq(Item) /\ T = [op |-> how, on |-> NoOwner, to |-> {}, todo |-> e, tree |-> {}]
      BY <1>1, <2>1 DEF e
    <2>3. T.op = how /\ T.on = NoOwner /\ T.to = {} /\ T.todo = e /\ T.tree = {}
      BY <2>2
    <2>4. T \in [op : Ops \cup Done \cup {"idle"}, on : Resources \cup {NoOwner},
                 to : SUBSET Resources, todo : Seq(Item), tree : SUBSET Resources]
      BY <2>2
    <2> QED BY <2>2, <2>3, <2>4
  <1>3. T.op \notin Ops
    BY <1>2 DEF Ops, Done
  <1>4. Len(T.todo) = 0 /\ ~Walks(T) /\ T.op \notin {"create", "patch"}
    BY <1>2, <1>3, EmptySeq DEF Walks, Ops
  <1>n. \A i \in 1 .. Len(T.todo) : FALSE
    BY <1>4
  <1>5. TxType(T, {})
    BY <1>2, <1>3 DEF TxType
  <1>6. HoldsRows(T, {}, p)
    BY <1>2, <1>3, <1>4 DEF HoldsRows
  <1>7. ListOK(T, {}, p) /\ VisitsInOrder(T, p)
    BY <1>n DEF ListOK, VisitsInOrder
  <1>8. MissesNone(T, p) /\ Connected(T, {}) /\ TargetsHeld(T, {})
    BY <1>2, <1>4, <1>n DEF MissesNone, Connected, TargetsHeld
  <1> QED
    BY <1>5, <1>6, <1>7, <1>8 DEF TxInv

\* A locking query locks each of its rows.
LEMMA LockAllFacts ==
    ASSUME NEW S \in SUBSET Resources, NEW why \in {"tree", "source"}, NEW a, a = LockAll(S, why)
    PROVE  /\ IsFiniteSet(S) /\ a \in Seq(Item) /\ Len(a) = Cardinality(S) /\ Cardinality(S) \in Nat
           /\ \A i \in 1 .. Cardinality(S) : ById(S)[i] \in S /\ a[i] = LockRow(ById(S)[i], why)
           /\ \A x \in S : \E i \in 1 .. Cardinality(S) : ById(S)[i] = x
  <1> DEFINE n == Cardinality(S)
             e == ById(S)
  <1>1. IsFiniteSet(S) /\ S \in SUBSET Int
    BY LocksAssumption, FS_Subset
  <1>2. /\ n \in Nat
        /\ \A i \in 1 .. n : e[i] \in S
        /\ \A x \in S : \E i \in 1 .. n : e[i] = x
    BY <1>1, ByIdFacts
  <1>3. a = [i \in 1 .. n |-> LockRow(e[i], why)]
    BY DEF LockAll
  <1> HIDE DEF n, e
  <1>4. \A i \in 1 .. n : LockRow(e[i], why) \in Item
    BY <1>2 DEF LockRow, Item
  <1>5. a \in [1 .. n -> Item] /\ \A i \in 1 .. n : a[i] = LockRow(e[i], why)
    BY <1>3, <1>4
  <1>6. a \in Seq(Item) /\ Len(a) = n
    BY <1>2, <1>5
  <1> QED
    BY <1>1, <1>2, <1>5, <1>6 DEF n, e

\* Three lists one after the other, the last of one entry, and where its entries are.
Three(a, b, c) == a \o b \o <<c>>
ThreeParts(d, n, a, b, c) ==
    /\ Len(d) = n + n + 1
    /\ \A i \in 1 .. n : d[i] = a[i] /\ d[n + i] = b[i]
    /\ d[n + n + 1] = c
    /\ \A i \in 1 .. n + n + 1 :
          \/ i \in 1 .. n /\ d[i] = a[i]
          \/ \E j \in 1 .. n : i = n + j /\ d[i] = b[j]
          \/ i = n + n + 1

\* Two lists of the same length and one more entry are where they should be.
LEMMA ThreeLists ==
    ASSUME NEW S, NEW n \in Nat, NEW a \in Seq(S), NEW b \in Seq(S), NEW c \in S,
           Len(a) = n, Len(b) = n, NEW d, d = Three(a, b, c)
    PROVE  d \in Seq(S) /\ ThreeParts(d, n, a, b, c)
  <1> DEFINE ab == a \o b
             u == <<c>>
  <1>1. /\ ab \in Seq(S) /\ Len(ab) = n + n
        /\ \A i \in 1 .. n + n : ab[i] = IF i <= n THEN a[i] ELSE b[i - n]
    BY ConcatProperties
  <1>2. u \in Seq(S) /\ Len(u) = 1 /\ u[1] = c
    OBVIOUS
  <1>a. d = ab \o u
    BY DEF Three
  <1> HIDE DEF ab, u
  <1>3. /\ d \in Seq(S) /\ Len(d) = (n + n) + 1
        /\ \A i \in 1 .. (n + n) + 1 : d[i] = IF i <= n + n THEN ab[i] ELSE u[i - (n + n)]
    <2>1. /\ ab \o u \in Seq(S) /\ Len(ab \o u) = Len(ab) + Len(u)
          /\ \A i \in 1 .. Len(ab) + Len(u) : (ab \o u)[i] = IF i <= Len(ab) THEN ab[i] ELSE u[i - Len(ab)]
      BY <1>1, <1>2, ConcatProperties
    <2>2. Len(ab) = n + n /\ Len(u) = 1
      BY <1>1, <1>2
    <2> QED BY <2>1, <2>2, <1>a
  <1>4. \A i \in 1 .. n : d[i] = a[i]
    BY <1>1, <1>3
  <1>5. ASSUME NEW i \in 1 .. n PROVE d[n + i] = b[i]
    <2>1. /\ n + i \in 1 .. n + n /\ n + i \in 1 .. (n + n) + 1 /\ n + i <= n + n /\ ~(n + i <= n)
          /\ (n + i) - n = i
      OBVIOUS
    <2> QED BY <2>1, <1>1, <1>3
  <1>6. d[n + n + 1] = c
    <2>1. /\ n + n + 1 \in 1 .. (n + n) + 1 /\ ~(n + n + 1 <= n + n) /\ (n + n + 1) - (n + n) = 1
      OBVIOUS
    <2> QED BY <2>1, <1>2, <1>3
  <1>7. ASSUME NEW i \in 1 .. n + n + 1
        PROVE  \/ i \in 1 .. n /\ d[i] = a[i]
               \/ \E j \in 1 .. n : i = n + j /\ d[i] = b[j]
               \/ i = n + n + 1
    <2>1. CASE i \in 1 .. n
      BY <2>1, <1>4
    <2>2. CASE i > n /\ i <= n + n
      <3>1. i - n \in 1 .. n /\ i = n + (i - n)
        BY <2>2
      <3> QED BY <3>1, <1>5
    <2> QED BY <2>1, <2>2
  <1> QED
    BY <1>3, <1>4, <1>5, <1>6, <1>7 DEF ThreeParts

\* The existing children of m's row in a group of kinds, and what is done about them.
KidsIn(m, p, g) == {c \in Children(m.row) : InTable(p, c) /\ Kind[c] \in g}
VisitAll(op, S) == [i \in 1 .. Cardinality(S) |-> ListKids(ById(S)[i], Groups(op, ById(S)[i]))]
NextKids(T, m, p, g) ==
    Three(LockAll(KidsIn(m, p, g), "tree"), VisitAll(T.op, KidsIn(m, p, g)),
          ListKids(m.row, m.groups \ {g}))

\* The next children, or none, take the place of the entry that asks for them.
LEMMA ListReplaces ==
    ASSUME NEW T, NEW H, NEW p, TxInv(T, H, p), T.op \in Ops, T.todo # <<>>,
           NEW m, m = T.todo[1], m.do = "kids", NEW g \in m.groups,
           p \in [Resources -> {"absent", "active", "finalizing", "gone"}],
           \A r \in Resources : Owner[r] # NoOwner /\ InTable(p, r) => InTable(p, Owner[r]),
           NEW a, a = NextKids(T, m, p, g)
    PROVE  Replaces(T, a, p)
  <1> DEFINE kids == KidsIn(m, p, g)
             b == VisitAll(T.op, kids)
             n == Cardinality(kids)
             e == ById(kids)
             l == LockAll(kids, "tree")
             last == ListKids(m.row, m.groups \ {g})
  <1>1. /\ T.todo \in Seq(Item) /\ T.tree \subseteq Resources /\ Len(T.todo) \in Nat \ {0} /\ m \in Item
    <2>1. T.todo \in Seq(Item) /\ T.tree \subseteq Resources
      BY DEF TxInv, TxType
    <2> QED BY <2>1, DropFirst
  <1>2. 1 \in 1 .. Len(T.todo)
    BY <1>1
  <1>3. m.row \in Resources /\ Walks(T) /\ m.groups \in SUBSET SUBSET Kinds
    BY <1>1, <1>2 DEF TxInv, ListOK, Item
  <1>4. m.row \in T.tree \/ p[m.row] = "gone"
    BY <1>1, <1>2 DEF TxInv, VisitsInOrder
  <1>kids. kids = {c \in Children(m.row) : InTable(p, c) /\ Kind[c] \in g}
    BY DEF KidsIn
  <1>9. b = [i \in 1 .. n |-> ListKids(e[i], Groups(T.op, e[i]))] /\ a = Three(l, b, last)
    BY DEF NextKids, VisitAll
  <1> HIDE DEF kids, b
  <1>5. kids \in SUBSET Resources
    BY <1>kids DEF Children
  <1>6. \A c \in kids : Owner[c] \in T.tree /\ Owner[c] = m.row /\ p[c] # "absent"
    BY <1>kids, <1>3, <1>4, LocksAssumption DEF Children, InTable
  <1>7. /\ l \in Seq(Item) /\ Len(l) = n /\ n \in Nat
        /\ \A i \in 1 .. n : e[i] \in kids /\ l[i] = LockRow(e[i], "tree")
        /\ \A x \in kids : \E i \in 1 .. n : e[i] = x
    BY <1>5, LockAllFacts
  <1>8. last \in Item
    BY <1>3 DEF ListKids, Item
  <1>last. last.do = "kids" /\ last.row = m.row /\ last.groups = m.groups \ {g} /\ last.why = "tree"
    BY DEF ListKids
  <1> HIDE DEF n, e, l, last
  <1>10. \A i \in 1 .. n : ListKids(e[i], Groups(T.op, e[i])) \in Item
    <2> TAKE i \in 1 .. n
    <2>1. e[i] \in Resources
      BY <1>7, <1>5
    <2>2. Groups(T.op, e[i]) \in SUBSET SUBSET Kinds
      BY <2>1, GroupsFacts
    <2> QED BY <2>1, <2>2 DEF ListKids, Item
  <1>11. b \in [1 .. n -> Item] /\ \A i \in 1 .. n : b[i] = ListKids(e[i], Groups(T.op, e[i]))
    BY <1>9, <1>10
  <1>12. b \in Seq(Item) /\ Len(b) = n
    BY <1>7, <1>11
  <1>13. /\ a \in Seq(Item) /\ Len(a) = n + n + 1
         /\ \A i \in 1 .. n : a[i] = l[i] /\ a[n + i] = b[i]
         /\ a[n + n + 1] = last
         /\ \A i \in 1 .. n + n + 1 :
               \/ i \in 1 .. n /\ a[i] = l[i]
               \/ \E j \in 1 .. n : i = n + j /\ a[i] = b[j]
               \/ i = n + n + 1
    <2>1. n \in Nat /\ l \in Seq(Item) /\ b \in Seq(Item) /\ last \in Item /\ Len(l) = n /\ Len(b) = n
      BY <1>7, <1>8, <1>12
    <2>2. a = Three(l, b, last)
      BY <1>9
    <2>3. a \in Seq(Item) /\ ThreeParts(a, n, l, b, last)
      BY <2>1, <2>2, ThreeLists
    <2> QED BY <2>3 DEF ThreeParts
  <1>l. \A i \in 1 .. n : /\ e[i] \in kids /\ e[i] \in Resources
                          /\ l[i] = LockRow(e[i], "tree") /\ l[i].do = "lock" /\ l[i].row = e[i] /\ l[i].why = "tree"
                          /\ b[i].do = "kids" /\ b[i].row = e[i] /\ b[i].why = "tree"
    BY <1>5, <1>7, <1>11 DEF LockRow, ListKids
  <1>14. \A i \in 1 .. Len(a) :
            \/ \E j \in 1 .. n : i = j /\ a[i] = l[j]
            \/ \E j \in 1 .. n : i = n + j /\ a[i] = b[j]
            \/ i = n + n + 1 /\ a[i] = last
    BY <1>13
  <1>a. \A i \in 1 .. Len(a) :
          /\ a[i].do \in {"lock", "kids"} /\ a[i].row \in Resources /\ a[i].why = "tree"
          /\ a[i].do = "lock" => p[a[i].row] # "absent" /\ Owner[a[i].row] \in T.tree
    BY <1>14, <1>l, <1>last, <1>3, <1>6
  <1>b. ASSUME NEW i \in 1 .. Len(a), a[i].do = "lock"
        PROVE  \E j \in i + 1 .. Len(a) : a[j] = ListKids(a[i].row, Groups(T.op, a[i].row))
    <2>1. i \in 1 .. n /\ a[i] = l[i]
      BY <1>b, <1>14, <1>l, <1>last
    <2>2. n + i \in i + 1 .. Len(a)
      BY <2>1, <1>7, <1>13
    <2>3. a[n + i] = ListKids(e[i], Groups(T.op, e[i])) /\ a[i].row = e[i]
      BY <2>1, <1>11, <1>13, <1>l
    <2> QED BY <2>2, <2>3
  <1>c. ASSUME NEW j \in 1 .. Len(a), a[j].do = "kids"
        PROVE  \/ a[j].row \in T.tree
               \/ p[a[j].row] = "gone"
               \/ \E i \in 1 .. j - 1 : a[i].do = "lock" /\ a[i].why = "tree" /\ a[i].row = a[j].row
    <2>1. CASE \E i \in 1 .. n : j = n + i /\ a[j] = b[i]
      <3>1. PICK i \in 1 .. n : j = n + i /\ a[j] = b[i]
        BY <2>1
      <3>2. i \in 1 .. j - 1
        BY <3>1, <1>7
      <3> QED BY <3>1, <3>2, <1>13, <1>l
    <2>2. CASE a[j] = last
      BY <2>2, <1>last, <1>4
    <2> QED BY <2>1, <2>2, <1>c, <1>14, <1>l
  <1>d. ASSUME NEW c \in Children(m.row), InTable(p, c), \E h \in m.groups : Kind[c] \in h
        PROVE  \E i \in 1 .. Len(a) :
                  \/ a[i] = LockRow(c, "tree")
                  \/ a[i].do = "kids" /\ a[i].row = m.row /\ \E h \in a[i].groups : Kind[c] \in h
    <2>1. CASE Kind[c] \in g
      <3>1. c \in kids
        BY <2>1, <1>d, <1>kids
      <3>2. PICK i \in 1 .. n : e[i] = c
        BY <3>1, <1>7
      <3>3. i \in 1 .. Len(a) /\ a[i] = LockRow(c, "tree")
        BY <3>2, <1>7, <1>13, <1>l
      <3> QED BY <3>3
    <2>2. CASE Kind[c] \notin g
      <3>1. \E h \in last.groups : Kind[c] \in h
        BY <2>2, <1>d, <1>last
      <3>2. n + n + 1 \in 1 .. Len(a) /\ a[n + n + 1] = last
        BY <1>7, <1>13
      <3> QED BY <3>1, <3>2, <1>last
    <2> QED BY <2>1, <2>2
  <1> QED
    BY <1>3, <1>13, <1>a, <1>b, <1>c, <1>d DEF Replaces

\* Nothing is left to list.
LEMMA ListEndReplaces ==
    ASSUME NEW T, NEW p, T.todo[1].do = "kids", T.todo[1].groups = {}
    PROVE  Replaces(T, <<>>, p)
  <1> DEFINE a == <<>>
  <1>1. a \in Seq(Item) /\ Len(a) = 0 /\ \A i \in 1 .. Len(a) : FALSE
    BY EmptySeq
  <1> HIDE DEF a
  <1>2. Replaces(T, a, p)
    BY <1>1 DEF Replaces
  <1> QED
    BY <1>2 DEF a

\* The sources of references into the tree take the place of the entry that asks.
LEMMA SourcesReplaces ==
    ASSUME NEW T, NEW p, T.todo[1].do = "sources", NEW S \in SUBSET Resources
    PROVE  Replaces(T, LockAll(S, "source"), p)
  <1> DEFINE a == LockAll(S, "source")
  <1>1. /\ a \in Seq(Item) /\ Len(a) = Cardinality(S)
        /\ \A i \in 1 .. Cardinality(S) : ById(S)[i] \in S /\ a[i] = LockRow(ById(S)[i], "source")
    BY LockAllFacts
  <1> HIDE DEF a
  <1>2. \A i \in 1 .. Len(a) : a[i].do = "lock" /\ a[i].why = "source" /\ a[i].row \in Resources
    BY <1>1 DEF LockRow
  <1>3. Replaces(T, a, p)
    BY <1>1, <1>2 DEF Replaces
  <1> QED
    BY <1>3 DEF a

\* The targets of the new references take the place of the entry that reads them.
LEMMA ValidateReplaces ==
    ASSUME NEW T, NEW p, T.todo[1].do = "targets", T.to \in SUBSET Resources,
           NEW order \in SetToSeqs(T.to)
    PROVE  Replaces(T, [i \in 1 .. Len(order) |-> LockRow(order[i], "target")], p)
  <1> DEFINE a == [i \in 1 .. Len(order) |-> LockRow(order[i], "target")]
             n == Len(order)
  <1>1. IsFiniteSet(T.to)
    BY LocksAssumption, FS_Subset
  <1>2. /\ order \in Seq(T.to) /\ n \in Nat
        /\ \A x \in T.to : \E i \in 1 .. n : order[i] = x
    BY <1>1, OrderFacts, LenProperties
  <1>3. \A i \in 1 .. n : order[i] \in Resources /\ LockRow(order[i], "target") \in Item
    BY <1>2 DEF LockRow, Item
  <1>4. a \in [1 .. n -> Item] /\ \A i \in 1 .. n : a[i] = LockRow(order[i], "target")
    BY <1>3
  <1> HIDE DEF a, n
  <1>5. a \in Seq(Item) /\ Len(a) = n
    BY <1>2, <1>4
  <1>6. \A i \in 1 .. Len(a) : a[i].do = "lock" /\ a[i].why = "target" /\ a[i].row \in Resources
    BY <1>3, <1>4, <1>5 DEF LockRow
  <1>7. \A x \in T.to : \E i \in 1 .. Len(a) : a[i] = LockRow(x, "target")
    BY <1>2, <1>4, <1>5
  <1>8. Replaces(T, a, p)
    BY <1>5, <1>6, <1>7 DEF Replaces
  <1> QED
    BY <1>8 DEF a

-----------------------------------------------------------------------------
(* The others *)

\* A commit leaves alone the rows another transaction has locked; it makes no
\* resource that the other is making or whose owner the other has locked.
Spares(T, H, p, q) ==
    \A x \in Resources :
        /\ q[x] # p[x] => \A l \in H : l[1] # x
        /\ q[x] # p[x] /\ p[x] = "absent" =>
              (\A l \in H : l[1] # Owner[x]) /\ ~(T.op = "create" /\ T.on = x)
        /\ q[x] = "absent" => p[x] = "absent"
        /\ p[x] = "gone" => q[x] = "gone"

\* So the other transaction keeps its part of the invariant.
LEMMA PhaseKeeps ==
    ASSUME NEW T, NEW H, NEW p, NEW q, TxInv(T, H, p), Spares(T, H, p, q),
           p \in [Resources -> {"absent", "active", "finalizing", "gone"}],
           q \in [Resources -> {"absent", "active", "finalizing", "gone"}]
    PROVE  TxInv(T, H, q)
  <1>1. /\ T \in [op : Ops \cup Done \cup {"idle"}, on : Resources \cup {NoOwner},
                  to : SUBSET Resources, todo : Seq(Item), tree : SUBSET Resources]
        /\ H \subseteq Resources \X {"share", "update"}
        /\ T.op \in Ops => T.on \in Resources
        /\ T.tree \subseteq Resources
    BY DEF TxInv, TxType
  <1>2. \A l \in H : l[1] \in Resources /\ q[l[1]] = p[l[1]]
    BY <1>1 DEF Spares
  <1>3. \A x \in T.tree : <<x, "update">> \in H /\ x \in Resources /\ q[x] = p[x]
    <2> TAKE x \in T.tree
    <2>1. <<x, "update">> \in H /\ x \in Resources
      BY <1>1 DEF TxInv, HoldsRows
    <2>2. <<x, "update">>[1] = x
      OBVIOUS
    <2> QED BY <2>1, <2>2, <1>2
  <1>b. HoldsRows(T, H, q)
    <2>1. \A l \in H : InTable(q, l[1])
      BY <1>2 DEF TxInv, HoldsRows, InTable
    <2>2. T.op = "create" => q[T.on] = "absent"
      <3> SUFFICES ASSUME T.op = "create" PROVE q[T.on] = "absent"
        OBVIOUS
      <3>1. T.on \in Resources /\ p[T.on] = "absent"
        BY <1>1 DEF TxInv, HoldsRows, Ops
      <3> QED BY <3>1 DEF Spares
    <2>3. OwnHeld(T, H, p) => OwnHeld(T, H, q)
      <3> SUFFICES ASSUME OwnHeld(T, H, p) PROVE OwnHeld(T, H, q)
        OBVIOUS
      <3>1. ASSUME NEW x, <<x, "update">> \in H PROVE q[x] = p[x]
        <4>1. <<x, "update">>[1] = x
          OBVIOUS
        <4> QED BY <3>1, <4>1, <1>2
      <3> QED BY <3>1, <1>3 DEF OwnHeld
    <2> QED
      BY <2>1, <2>2, <2>3 DEF TxInv, HoldsRows
  <1>c. ListOK(T, H, q)
    <2>1. ListOK(T, H, p)
      BY DEF TxInv
    <2>2. ASSUME NEW i \in 1 .. Len(T.todo), NEW m, m = T.todo[i], m.do = "lock", m.why = "tree"
          PROVE  q[m.row] # "absent"
      <3>1. m.row \in Resources /\ p[m.row] # "absent"
        BY <2>1, <2>2 DEF ListOK
      <3> QED BY <3>1 DEF Spares
    <2> QED
      BY <2>1, <2>2 DEF ListOK
  <1>d. VisitsInOrder(T, q)
    <2>1. VisitsInOrder(T, p) /\ ListOK(T, H, p)
      BY DEF TxInv
    <2>2. ASSUME NEW j \in 1 .. Len(T.todo), T.todo[j].do = "kids", p[T.todo[j].row] = "gone"
          PROVE  q[T.todo[j].row] = "gone"
      <3>1. T.todo[j].row \in Resources
        BY <2>1, <2>2 DEF ListOK
      <3> QED BY <2>2, <3>1 DEF Spares
    <2> QED
      BY <2>1, <2>2 DEF VisitsInOrder
  <1>e. MissesNone(T, q)
    <2>1. MissesNone(T, p)
      BY DEF TxInv
    <2>2. ASSUME NEW x \in T.tree, NEW c \in Children(x), InTable(q, c)
          PROVE  InTable(p, c)
      <3>1. c \in Resources /\ Owner[c] = x /\ <<x, "update">> \in H /\ <<x, "update">>[1] = x
        BY <1>3 DEF Children
      <3>2. ~(q[c] # p[c] /\ p[c] = "absent")
        BY <3>1 DEF Spares
      <3>3. p[c] # "gone"
        BY <2>2, <3>1 DEF Spares, InTable
      <3> QED BY <2>2, <3>1, <3>2, <3>3 DEF InTable
    <2> QED
      BY <2>1, <2>2 DEF MissesNone
  <1> QED
    BY <1>b, <1>c, <1>d, <1>e DEF TxInv

-----------------------------------------------------------------------------
(* Steps of the system *)

\* The invariant after a step of t, from what the step does to t and to the table.
LEMMA StepKeeps ==
    ASSUME RowLocksInv, NEW t \in Txs, NEW T, NEW H,
           DOMAIN tx' = Txs, DOMAIN held' = Txs, tx'[t] = T, held'[t] = H,
           \A u \in Txs \ {t} : tx'[u] = tx[u] /\ held'[u] = held[u],
           TableInOrder', ReferencesHold', TxInv(T, H, phase'),
           \A u \in Txs \ {t} : TxInv(tx[u], held[u], phase'),
           \A l \in H : l \in held[t] \/ \A u \in Txs \ {t} : \A k \in held[u] : l[1] = k[1] => ~Conflict(l[2], k[2]),
           T.op = "create" => (tx[t].op = "create" /\ T.on = tx[t].on) \/ \A u \in Txs : tx[u].on # T.on
    PROVE  RowLocksInv'
  <1>1. /\ DOMAIN tx = Txs /\ DOMAIN held = Txs /\ LocksExclusive /\ IdsFresh
    BY DEF RowLocksInv
  <1>2. /\ DOMAIN tx' = Txs /\ DOMAIN held' = Txs /\ tx'[t] = T /\ held'[t] = H
        /\ \A u \in Txs \ {t} : tx'[u] = tx[u] /\ held'[u] = held[u]
    OBVIOUS
  <1>3. \A u \in Txs : TxInv(tx'[u], held'[u], phase')
    BY <1>2
  <1>4. ASSUME NEW u \in Txs \ {t}, NEW l \in H, NEW k \in held[u], l[1] = k[1]
        PROVE  ~Conflict(l[2], k[2]) /\ ~Conflict(k[2], l[2])
    BY <1>1, <1>4 DEF LocksExclusive, Conflict
  <1>5. LocksExclusive'
    <2> SUFFICES ASSUME NEW u \in Txs, NEW v \in Txs, u # v,
                        NEW l \in held'[u], NEW k \in held'[v], l[1] = k[1]
                 PROVE  ~Conflict(l[2], k[2])
      BY DEF LocksExclusive
    <2>1. CASE u = t
      BY <2>1, <1>2, <1>4
    <2>2. CASE v = t
      BY <2>2, <1>2, <1>4
    <2>3. CASE u # t /\ v # t
      BY <2>3, <1>1, <1>2 DEF LocksExclusive
    <2> QED BY <2>1, <2>2, <2>3
  <1>6. IdsFresh'
    <2> SUFFICES ASSUME NEW u \in Txs, NEW v \in Txs, u # v, tx'[u].op = "create", tx'[v].op = "create"
                 PROVE  tx'[u].on # tx'[v].on
      BY DEF IdsFresh
    <2>1. CASE u = t
      BY <2>1, <1>1, <1>2 DEF IdsFresh
    <2>2. CASE v = t
      BY <2>2, <1>1, <1>2 DEF IdsFresh
    <2>3. CASE u # t /\ v # t
      BY <2>3, <1>1, <1>2 DEF IdsFresh
    <2> QED BY <2>1, <2>2, <2>3
  <1> QED
    BY <1>2, <1>3, <1>5, <1>6 DEF RowLocksInv

\* The steps of the abstract life cycle keep every owner in place.
LEMMA LifecycleKeepsOrder ==
    ASSUME TableInOrder, Lifecycle!Next
    PROVE  /\ phase' \in [Resources -> {"absent", "active", "finalizing", "gone"}]
           /\ \A r \in Resources : Owner[r] # NoOwner =>
                /\ phase'[r] = "active" => phase'[Owner[r]] = "active"
                /\ phase'[r] = "finalizing" => InTable(phase', Owner[r])
  <1>1. /\ phase \in [Resources -> {"absent", "active", "finalizing", "gone"}]
        /\ \A r \in Resources : Owner[r] # NoOwner =>
             /\ Owner[r] \in Resources
             /\ phase[r] = "active" => phase[Owner[r]] = "active"
             /\ phase[r] = "finalizing" => phase[Owner[r]] \in {"active", "finalizing"}
    BY LocksAssumption DEF TableInOrder, Present
  <1>2. CASE \E r \in Resources : Lifecycle!Appear(r)
    BY <1>1, <1>2 DEF Lifecycle!Appear, InTable
  <1>3. CASE \E S \in SUBSET Resources : Lifecycle!Remove(S)
    BY <1>1, <1>3 DEF Lifecycle!Remove, Lifecycle!InTable, InTable
  <1>4. CASE \E S \in SUBSET Resources : \E Soft \in SUBSET S : Lifecycle!Retire(S, Soft)
    <2>0. PICK S \in SUBSET Resources : \E Soft \in SUBSET S : Lifecycle!Retire(S, Soft)
      BY <1>4
    <2>1. PICK Soft \in SUBSET S : Lifecycle!Retire(S, Soft)
      BY <2>0
    <2>2. /\ \A x \in S : phase[x] \in {"active", "finalizing"}
          /\ \A c \in Resources :
                Owner[c] \in S =>
                   /\ phase[c] = "active" => c \in S
                   /\ Owner[c] \notin Soft /\ phase[c] \in {"active", "finalizing"} => c \in S \ Soft
          /\ phase' = [x \in Resources |->
                         IF x \in Soft THEN "finalizing" ELSE IF x \in S THEN "gone" ELSE phase[x]]
      BY <2>1 DEF Lifecycle!Retire, Lifecycle!InTable
    <2>3. phase' \in [Resources -> {"absent", "active", "finalizing", "gone"}]
      BY <2>2, <1>1
    <2>4. ASSUME NEW r \in Resources, Owner[r] # NoOwner
          PROVE  /\ phase'[r] = "active" => phase'[Owner[r]] = "active"
                 /\ phase'[r] = "finalizing" => InTable(phase', Owner[r])
      BY <2>2, <2>4, <1>1 DEF InTable
    <2> QED BY <2>3, <2>4
  <1> QED
    BY <1>2, <1>3, <1>4 DEF Lifecycle!Next

\* What a transaction knows when nothing is left to do.
LEMMA ReadyFacts ==
    ASSUME RowLocksInv, NEW t \in Txs, Running(t), tx[t].todo = <<>>
    PROVE  /\ tx[t].on \in Resources /\ tx[t].tree \in SUBSET Resources /\ tx[t].to \in SUBSET Resources
           /\ \A x \in tx[t].tree : InTable(phase, x) /\ <<x, "update">> \in held[t]
           /\ OwnHeld(tx[t], held[t], phase)
           /\ tx[t].op = "create" => phase[tx[t].on] = "absent"
           /\ Walks(tx[t]) => \A c \in Resources : Owner[c] \in tx[t].tree /\ InTable(phase, c) => c \in tx[t].tree
           /\ tx[t].op \in {"create", "patch"} => \A x \in tx[t].to : InTable(phase, x)
  <1> DEFINE T == tx[t]
             H == held[t]
  <1>1. TxInv(T, H, phase) /\ T.op \in Ops /\ T.todo = <<>>
    BY DEF RowLocksInv, Running
  <1> HIDE DEF T, H
  <1>2. T.on \in Resources /\ T.tree \in SUBSET Resources /\ T.to \in SUBSET Resources
    BY <1>1 DEF TxInv, TxType
  <1>n. \A i \in 1 .. Len(T.todo) : FALSE
    BY <1>1, EmptySeq
  <1>l. \A x, m : <<x, m>> \in H => InTable(phase, x)
    <2> TAKE x, m
    <2>1. <<x, m>>[1] = x
      OBVIOUS
    <2> QED BY <2>1, <1>1 DEF TxInv, HoldsRows
  <1>3. \A x \in T.tree : InTable(phase, x) /\ <<x, "update">> \in H
    BY <1>1, <1>l DEF TxInv, HoldsRows
  <1>4. OwnHeld(T, H, phase) /\ (T.op = "create" => phase[T.on] = "absent")
    BY <1>1 DEF TxInv, HoldsRows
  <1>5. Walks(T) => \A c \in Resources : Owner[c] \in T.tree /\ InTable(phase, c) => c \in T.tree
    BY <1>1, <1>n DEF TxInv, MissesNone, Children
  <1>6. T.op \in {"create", "patch"} => \A x \in T.to : InTable(phase, x)
    BY <1>1, <1>n, <1>l DEF TxInv, TargetsHeld
  <1> QED
    BY <1>2, <1>3, <1>4, <1>5, <1>6 DEF T, H

\* Every commit that changes a phase is a step of the abstract life cycle.
LEMMA CommitStep ==
    ASSUME RowLocksInv, NEW t \in Txs, Commit(t)
    PROVE  Lifecycle!Next \/ phase' = phase
  <1> DEFINE r == tx[t].on
             S == tx[t].tree
             T == tx[t]
  <1>1. Running(t) /\ tx[t].todo = <<>>
    BY DEF Commit
  <1>2. /\ r \in Resources /\ S \in SUBSET Resources
        /\ \A x \in S : InTable(phase, x)
        /\ OwnHeld(T, held[t], phase)
        /\ T.op = "create" => phase[r] = "absent"
        /\ Walks(T) => \A c \in Resources : Owner[c] \in S /\ InTable(phase, c) => c \in S
    BY <1>1, ReadyFacts
  <1>t. phase \in [Resources -> {"absent", "active", "finalizing", "gone"}]
    BY DEF RowLocksInv, TableInOrder
  <1>3. CASE tx[t].op = "create"
    <2>1. phase' = [phase EXCEPT ![r] = "active"]
      BY <1>3 DEF Commit
    <2>2. Lifecycle!Appear(r)
      BY <2>1, <1>2, <1>3 DEF Lifecycle!Appear, OwnHeld
    <2> QED BY <2>2, <1>2 DEF Lifecycle!Next
  <1>4. CASE tx[t].op = "patch"
    BY <1>4 DEF Commit
  <1>5. CASE tx[t].op = "delete"
    <2>1. \/ phase' = phase
          \/ phase' = [x \in Resources |-> IF x \in S THEN "finalizing" ELSE phase[x]]
      BY <1>5 DEF Commit
    <2>2. CASE phase' = [x \in Resources |-> IF x \in S THEN "finalizing" ELSE phase[x]]
      <3>1. phase' = [x \in Resources |->
                       IF x \in S THEN "finalizing" ELSE IF x \in S THEN "gone" ELSE phase[x]]
        BY <2>2
      <3>2. Walks(T)
        BY <1>5 DEF Walks
      <3>3. Lifecycle!Retire(S, S)
        BY <3>1, <3>2, <1>2 DEF Lifecycle!Retire, Lifecycle!InTable, InTable
      <3> QED BY <3>3, <1>2 DEF Lifecycle!Next
    <2> QED BY <2>1, <2>2
  <1>6. CASE tx[t].op = "force"
    <2>1. phase' = [x \in Resources |-> IF x \in S THEN "gone" ELSE phase[x]]
      BY <1>6 DEF Commit
    <2>2. Walks(T) /\ r \in S /\ phase[r] = "finalizing"
      BY <1>2, <1>6 DEF Walks, OwnHeld
    <2>3. Lifecycle!Remove(S)
      BY <2>1, <2>2, <1>2 DEF Lifecycle!Remove, Lifecycle!InTable, InTable
    <2> QED BY <2>3, <1>2 DEF Lifecycle!Next
  <1>7. CASE tx[t].op = "report"
    <2>1. \/ phase' = phase
          \/ /\ phase[r] = "finalizing" /\ \A c \in Children(r) : ~Present(c)
             /\ phase' = [phase EXCEPT ![r] = "gone"]
      BY <1>7 DEF Commit
    <2>2. CASE /\ phase[r] = "finalizing" /\ \A c \in Children(r) : ~Present(c)
               /\ phase' = [phase EXCEPT ![r] = "gone"]
      <3>1. phase' = [x \in Resources |-> IF x \in {r} THEN "gone" ELSE phase[x]]
        BY <2>2, <1>t
      <3>2. Lifecycle!Remove({r})
        BY <2>2, <3>1, <1>2 DEF Lifecycle!Remove, Lifecycle!InTable, Children, Present
      <3>3. {r} \in SUBSET Resources
        BY <1>2
      <3> QED BY <3>2, <3>3 DEF Lifecycle!Next
    <2> QED BY <2>1, <2>2
  <1> QED
    BY <1>1, <1>3, <1>4, <1>5, <1>6, <1>7 DEF Running, Ops

\* A commit spares every other transaction.
LEMMA CommitSpares ==
    ASSUME RowLocksInv, NEW t \in Txs, Commit(t), NEW u \in Txs \ {t}
    PROVE  Spares(tx[u], held[u], phase, phase')
  <1> DEFINE r == tx[t].on
             S == tx[t].tree
             T == tx[t]
  <1>1. Running(t) /\ tx[t].todo = <<>>
    BY DEF Commit
  <1>2. /\ r \in Resources /\ S \in SUBSET Resources
        /\ \A x \in S : InTable(phase, x) /\ <<x, "update">> \in held[t]
        /\ OwnHeld(T, held[t], phase)
        /\ T.op = "create" => phase[r] = "absent"
    BY <1>1, ReadyFacts
  <1>t. phase \in [Resources -> {"absent", "active", "finalizing", "gone"}]
    BY DEF RowLocksInv, TableInOrder
  <1>3. ASSUME NEW x, <<x, "update">> \in held[t] PROVE \A l \in held[u] : l[1] # x
    <2> SUFFICES ASSUME NEW l \in held[u], l[1] = x PROVE FALSE
      OBVIOUS
    <2>1. <<x, "update">>[1] = x /\ <<x, "update">>[2] = "update"
      OBVIOUS
    <2> QED BY <1>3, <2>1 DEF RowLocksInv, LocksExclusive, Conflict
  <1>4. \A l \in held[u] : InTable(phase, l[1])
    BY DEF RowLocksInv, TxInv, HoldsRows
  \* what has been locked may go or be marked, the rest stays as it is
  <1>5. ASSUME \A x \in Resources : phase'[x] # phase[x] => x \in S /\ phase'[x] \in {"finalizing", "gone"}
        PROVE  Spares(tx[u], held[u], phase, phase')
    BY <1>2, <1>3, <1>5, <1>t DEF Spares, InTable
  <1>6. CASE tx[t].op = "create"
    <2>1. phase' = [phase EXCEPT ![r] = "active"]
      BY <1>6 DEF Commit
    <2>2. phase[r] = "absent" /\ \A l \in held[u] : l[1] # r
      BY <1>2, <1>4, <1>6 DEF InTable
    <2>3. ~(tx[u].op = "create" /\ tx[u].on = r)
      BY <1>6 DEF RowLocksInv, IdsFresh
    <2>4. \A l \in held[u] : l[1] # Owner[r]
      <3>1. CASE Owner[r] # NoOwner
        BY <3>1, <1>2, <1>3, <1>6 DEF OwnHeld
      <3>2. CASE Owner[r] = NoOwner
        <4>1. \A l \in held[u] : l[1] \in Resources
          BY DEF RowLocksInv, TxInv, TxType
        <4> QED BY <3>2, <4>1, LocksAssumption
      <3> QED BY <3>1, <3>2
    <2> QED BY <2>1, <2>2, <2>3, <2>4, <1>2, <1>t DEF Spares
  <1>7. CASE tx[t].op = "patch"
    <2>1. phase' = phase
      BY <1>7 DEF Commit
    <2> QED BY <2>1, <1>5
  <1>8. CASE tx[t].op = "delete"
    <2>1. \/ phase' = phase
          \/ phase' = [x \in Resources |-> IF x \in S THEN "finalizing" ELSE phase[x]]
      BY <1>8 DEF Commit
    <2> QED BY <2>1, <1>5
  <1>9. CASE tx[t].op = "force"
    <2>1. phase' = [x \in Resources |-> IF x \in S THEN "gone" ELSE phase[x]]
      BY <1>9 DEF Commit
    <2> QED BY <2>1, <1>5
  <1>10. CASE tx[t].op = "report"
    <2>1. phase' = phase \/ phase' = [phase EXCEPT ![r] = "gone"]
      BY <1>10 DEF Commit
    <2>2. r \in S
      BY <1>2, <1>10 DEF OwnHeld
    <2> QED BY <2>1, <2>2, <1>5, <1>t, <1>2
  <1> QED
    BY <1>1, <1>6, <1>7, <1>8, <1>9, <1>10 DEF Running, Ops

\* The references a commit writes come from a living resource and their targets exist.
LEMMA CommitReferences ==
    ASSUME RowLocksInv, NEW t \in Txs, Commit(t)
    PROVE  refs' \subseteq Resources \X Resources /\ ReferencesHold'
  <1> DEFINE r == tx[t].on
             S == tx[t].tree
             T == tx[t]
  <1>1. Running(t) /\ tx[t].todo = <<>>
    BY DEF Commit
  <1>2. /\ r \in Resources /\ S \in SUBSET Resources /\ T.to \in SUBSET Resources
        /\ \A x \in S : InTable(phase, x)
        /\ OwnHeld(T, held[t], phase)
        /\ T.op = "create" => phase[r] = "absent"
        /\ T.op \in {"create", "patch"} => \A x \in T.to : InTable(phase, x)
    BY <1>1, ReadyFacts
  <1>t. phase \in [Resources -> {"absent", "active", "finalizing", "gone"}] /\ refs \subseteq Resources \X Resources
    BY DEF RowLocksInv, TableInOrder
  <1>h. \A e \in refs : e[1] \in Resources /\ e[2] \in Resources /\ phase[e[1]] = "active" /\ InTable(phase, e[2])
    BY <1>t DEF RowLocksInv, ReferencesHold, Present, InTable
  <1>3. CASE tx[t].op = "create"
    <2>1. phase' = [phase EXCEPT ![r] = "active"] /\ refs' = refs \cup ({r} \X T.to)
      BY <1>3 DEF Commit
    <2>2. \A x \in T.to : InTable(phase, x) /\ x # r
      BY <1>2, <1>3 DEF InTable
    <2>3. refs' \subseteq Resources \X Resources
      BY <2>1, <1>2, <1>t
    <2>4. \A e \in refs' : phase'[e[1]] = "active" /\ InTable(phase', e[2])
      <3> TAKE e \in refs'
      <3>1. CASE e \in refs
        BY <3>1, <2>1, <1>h, <1>t, <1>2 DEF InTable
      <3>2. CASE e \in {r} \X T.to
        BY <3>2, <2>1, <2>2, <1>t, <1>2 DEF InTable
      <3> QED BY <3>1, <3>2, <2>1
    <2> QED BY <2>3, <2>4 DEF ReferencesHold, Present, InTable
  <1>4. CASE tx[t].op = "patch"
    <2>1. phase' = phase /\ refs' = {e \in refs : e[1] # r} \cup ({r} \X T.to)
      BY <1>4 DEF Commit
    <2>2. phase[r] = "active" /\ \A x \in T.to : InTable(phase, x)
      BY <1>2, <1>4 DEF OwnHeld
    <2>3. refs' \subseteq Resources \X Resources
      BY <2>1, <1>2, <1>t
    <2>4. \A e \in refs' : phase'[e[1]] = "active" /\ InTable(phase', e[2])
      BY <2>1, <2>2, <1>h
    <2> QED BY <2>3, <2>4 DEF ReferencesHold, Present, InTable
  <1>5. CASE tx[t].op = "delete"
    <2>1. \/ phase' = phase /\ refs' = refs
          \/ /\ phase' = [x \in Resources |-> IF x \in S THEN "finalizing" ELSE phase[x]]
             /\ refs' = refs \ {e \in refs : e[1] \in S}
      BY <1>5 DEF Commit
    <2>2. \A e \in refs' : phase'[e[1]] = "active" /\ InTable(phase', e[2])
      BY <2>1, <1>h DEF InTable
    <2> QED BY <2>1, <2>2, <1>t DEF ReferencesHold, Present, InTable
  <1>6. CASE tx[t].op = "force"
    <2>1. /\ phase' = [x \in Resources |-> IF x \in S THEN "gone" ELSE phase[x]]
          /\ refs' = (refs \ {e \in refs : e[2] \in S}) \ {e \in refs : e[1] \in S}
      BY <1>6 DEF Commit
    <2>2. \A e \in refs' : phase'[e[1]] = "active" /\ InTable(phase', e[2])
      BY <2>1, <1>h DEF InTable
    <2> QED BY <2>1, <2>2, <1>t DEF ReferencesHold, Present, InTable
  <1>7. CASE tx[t].op = "report"
    <2>1. /\ refs' = refs
          /\ \/ phase' = phase
             \/ /\ phase[r] = "finalizing" /\ {e \in refs : e[2] \in S} = {}
                /\ phase' = [phase EXCEPT ![r] = "gone"]
      BY <1>7 DEF Commit
    <2>2. r \in S
      BY <1>2, <1>7 DEF OwnHeld
    <2>3. \A e \in refs' : phase'[e[1]] = "active" /\ InTable(phase', e[2])
      BY <2>1, <2>2, <1>h, <1>t, <1>2 DEF InTable
    <2> QED BY <2>1, <2>3, <1>t DEF ReferencesHold, Present, InTable
  <1> QED
    BY <1>1, <1>3, <1>4, <1>5, <1>6, <1>7 DEF Running, Ops

\* A step that leaves the table alone and gives t the list T and the locks H.
LEMMA QuietStepKeeps ==
    ASSUME RowLocksInv, UNCHANGED <<phase, refs>>, NEW t \in Txs, NEW T, NEW H,
           DOMAIN tx' = Txs, DOMAIN held' = Txs, tx'[t] = T, held'[t] = H,
           \A u \in Txs \ {t} : tx'[u] = tx[u] /\ held'[u] = held[u],
           TxInv(T, H, phase),
           \A l \in H : l \in held[t] \/ \A u \in Txs \ {t} : \A k \in held[u] : l[1] = k[1] => ~Conflict(l[2], k[2]),
           T.op = "create" => (tx[t].op = "create" /\ T.on = tx[t].on) \/ \A u \in Txs : tx[u].on # T.on
    PROVE  RowLocksInv'
  <1>1. phase' = phase /\ refs' = refs
    OBVIOUS
  <1>2. TableInOrder' /\ ReferencesHold'
    BY <1>1 DEF RowLocksInv, TableInOrder, ReferencesHold, Present
  <1>3. TxInv(T, H, phase') /\ \A u \in Txs \ {t} : TxInv(tx[u], held[u], phase')
    BY <1>1 DEF RowLocksInv
  <1> QED
    BY <1>2, <1>3, StepKeeps

\* What every step uses of the invariant.
LEMMA TxFacts ==
    ASSUME RowLocksInv, NEW t \in Txs
    PROVE  /\ DOMAIN tx = Txs /\ DOMAIN held = Txs
           /\ TxInv(tx[t], held[t], phase)
           /\ tx[t] \in [op : Ops \cup Done \cup {"idle"}, on : Resources \cup {NoOwner},
                         to : SUBSET Resources, todo : Seq(Item), tree : SUBSET Resources]
           /\ tx[t].op \notin Ops => held[t] = {}
           /\ phase \in [Resources -> {"absent", "active", "finalizing", "gone"}]
           /\ refs \subseteq Resources \X Resources
           /\ \A r \in Resources : Owner[r] # NoOwner /\ InTable(phase, r) => InTable(phase, Owner[r])
  BY DEF RowLocksInv, TxInv, TxType, TableInOrder, Present, InTable

\* Every action keeps the invariant: a request begins,
LEMMA BeginStep ==
    ASSUME RowLocksInv, NEW t \in Txs, NEW q \in Requests, Begin(t, q[1], q[2], q[3])
    PROVE  RowLocksInv'
  <1> DEFINE op == q[1]
             r == q[2]
             to == q[3]
             T == NewTx(op, r, to)
  <1>1. op \in Ops /\ r \in Resources /\ to \in SUBSET Resources
    BY LocksAssumption
  <1>2. DOMAIN tx = Txs /\ DOMAIN held = Txs /\ (tx[t].op \notin Ops => held[t] = {})
    BY TxFacts
  <1>3. tx[t] = Idle /\ (op = "create" => phase[r] = "absent")
        /\ (op = "create" => \A u \in Txs : tx[u].on # r)
        /\ tx' = [tx EXCEPT ![t] = T] /\ UNCHANGED <<phase, refs>> /\ held' = held
    BY DEF Begin, NewTx
  <1>4. held[t] = {}
    BY <1>2, <1>3 DEF Idle, Ops
  <1>5. T.op = op /\ T.on = r
    BY DEF NewTx
  <1>6. TxInv(T, {}, phase)
    BY <1>1, <1>3, BeginKeeps
  <1> HIDE DEF T, op, r, to
  <1>7. /\ DOMAIN tx' = Txs /\ DOMAIN held' = Txs /\ tx'[t] = T /\ held'[t] = {}
        /\ \A u \in Txs \ {t} : tx'[u] = tx[u] /\ held'[u] = held[u]
    BY <1>2, <1>3, <1>4
  <1> QED
    BY <1>3, <1>5, <1>6, <1>7, QuietStepKeeps

\* a transaction ends without a write,
LEMMA EndStep ==
    ASSUME RowLocksInv, NEW t \in Txs, NEW how \in Done, End(t, how), UNCHANGED <<phase, refs>>
    PROVE  RowLocksInv'
  <1> DEFINE T == Ended(how)
  <1>2. DOMAIN tx = Txs /\ DOMAIN held = Txs
    BY TxFacts
  <1>3. tx' = [tx EXCEPT ![t] = T] /\ held' = [held EXCEPT ![t] = {}]
    BY EndedIs DEF End
  <1>5. T.op # "create"
    BY DEF Ended, Done
  <1>6. TxInv(T, {}, phase)
    BY EndKeeps
  <1> HIDE DEF T
  <1>7. /\ DOMAIN tx' = Txs /\ DOMAIN held' = Txs /\ tx'[t] = T /\ held'[t] = {}
        /\ \A u \in Txs \ {t} : tx'[u] = tx[u] /\ held'[u] = held[u]
    BY <1>2, <1>3
  <1> QED
    BY <1>5, <1>6, <1>7, QuietStepKeeps

\* a row is locked, or is not acceptable,
LEMMA LockStep ==
    ASSUME RowLocksInv, NEW t \in Txs, Lock(t)
    PROVE  RowLocksInv'
  <1> DEFINE m == tx[t].todo[1]
             T == TxAfter(tx[t], m, phase)
             H == LocksAfter(held[t], m, phase)
  <1>1. /\ DOMAIN tx = Txs /\ DOMAIN held = Txs /\ TxInv(tx[t], held[t], phase)
        /\ phase \in [Resources -> {"absent", "active", "finalizing", "gone"}]
        /\ tx[t] \in [op : Ops \cup Done \cup {"idle"}, on : Resources \cup {NoOwner},
                      to : SUBSET Resources, todo : Seq(Item), tree : SUBSET Resources]
    BY TxFacts
  <1>2. /\ tx[t].op \in Ops /\ tx[t].todo # <<>> /\ tx[t].todo \in Seq(Item)
        /\ Head(tx[t].todo).do = "lock" /\ WaitsFor(t) = {} /\ UNCHANGED <<phase, refs>>
    BY <1>1 DEF Lock, Doing, Running
  <1>3. Head(tx[t].todo) = m /\ m \in Item
    BY <1>2, DropFirst
  <1>4. CASE ~Acceptable(t, m)
    <2>1. End(t, "aborted")
      BY <1>3, <1>4 DEF Lock
    <2> QED BY <2>1, <1>2, EndStep DEF Done
  <1>5. CASE Acceptable(t, m)
    <2>1. /\ held' = IF Present(m.row) THEN [held EXCEPT ![t] = @ \cup {<<m.row, Mode(m)>>}] ELSE held
          /\ tx' = [tx EXCEPT ![t].todo = Tail(@),
                              ![t].tree = IF m.why \in {"own", "tree"} /\ Present(m.row)
                                          THEN @ \cup {m.row} ELSE @]
      BY <1>3, <1>5 DEF Lock
    <2>2. Present(m.row) <=> InTable(phase, m.row)
      BY DEF Present, InTable
    <2>3. tx'[t] = T /\ DOMAIN tx' = Txs /\ \A u \in Txs \ {t} : tx'[u] = tx[u]
      BY <2>1, <2>2, <1>1 DEF TxAfter
    <2>4. held'[t] = H /\ DOMAIN held' = Txs /\ \A u \in Txs \ {t} : held'[u] = held[u]
      BY <2>1, <2>2, <1>1 DEF LocksAfter
    <2>5. /\ m.why = "own" => phase[m.row] \in CASE tx[t].op \in {"create", "patch"} -> {"active"}
                                                 [] tx[t].op = "force"               -> {"finalizing"}
                                                 [] OTHER                            -> {"active", "finalizing"}
          /\ m.why = "target" => InTable(phase, m.row)
      BY <1>5, <2>2 DEF Acceptable
    <2>6. m.do = "lock"
      BY <1>2, <1>3
    <2>7. TxInv(T, H, phase)
      BY <1>1, <1>2, <2>5, <2>6, LockKeeps
    <2>8. T.op = tx[t].op /\ T.on = tx[t].on
      BY <1>1 DEF TxAfter
    <2>9. \A l \in H : l \in held[t] \/ \A u \in Txs \ {t} : \A k \in held[u] : l[1] = k[1] => ~Conflict(l[2], k[2])
      <3> SUFFICES ASSUME NEW l \in H, l \notin held[t], NEW u \in Txs \ {t}, NEW k \in held[u], l[1] = k[1]
                   PROVE  ~Conflict(l[2], k[2])
        OBVIOUS
      <3>1. l = <<m.row, Mode(m)>>
        BY DEF LocksAfter
      <3>2. u \notin Blockers(t, m)
        BY <1>2, <1>3 DEF WaitsFor, Doing, Running
      <3>3. ~Conflict(k[2], Mode(m))
        BY <3>1, <3>2 DEF Blockers
      <3> QED BY <3>1, <3>3 DEF Conflict
    <2> HIDE DEF T, H
    <2> QED
      BY <1>2, <2>3, <2>4, <2>7, <2>8, <2>9, QuietStepKeeps
  <1> QED
    BY <1>4, <1>5

\* A list takes the place of the first entry of t.
LEMMA ReplaceStep ==
    ASSUME RowLocksInv, NEW t \in Txs, NEW a, Running(t), tx[t].todo # <<>>,
           Replaces(tx[t], a, phase), UNCHANGED <<phase, refs, held>>,
           tx' = [tx EXCEPT ![t].todo = a \o Tail(tx[t].todo)]
    PROVE  RowLocksInv'
  <1> DEFINE n == a \o Tail(tx[t].todo)
             T == [tx[t] EXCEPT !.todo = a \o Tail(tx[t].todo)]
  <1>1. /\ DOMAIN tx = Txs /\ DOMAIN held = Txs /\ TxInv(tx[t], held[t], phase)
        /\ tx[t] \in [op : Ops \cup Done \cup {"idle"}, on : Resources \cup {NoOwner},
                      to : SUBSET Resources, todo : Seq(Item), tree : SUBSET Resources]
    BY TxFacts
  <1>2. TxInv(T, held[t], phase)
    BY <1>1, ReplaceKeeps DEF Running
  <1>3. tx' = [tx EXCEPT ![t].todo = n] /\ T = [tx[t] EXCEPT !.todo = n]
    OBVIOUS
  <1> HIDE DEF n, T
  <1>4. T.op = tx[t].op /\ T.on = tx[t].on
    BY <1>1, <1>3
  <1>5. /\ DOMAIN tx' = Txs /\ DOMAIN held' = Txs /\ tx'[t] = T /\ held'[t] = held[t]
        /\ \A u \in Txs \ {t} : tx'[u] = tx[u] /\ held'[u] = held[u]
    BY <1>1, <1>3
  <1> QED
    BY <1>2, <1>4, <1>5, QuietStepKeeps

\* children are listed,
LEMMA ListStep ==
    ASSUME RowLocksInv, NEW t \in Txs, List(t)
    PROVE  RowLocksInv'
  <1> DEFINE m == tx[t].todo[1]
             rest == Tail(tx[t].todo)
  <1>1. /\ DOMAIN tx = Txs /\ DOMAIN held = Txs /\ TxInv(tx[t], held[t], phase)
        /\ phase \in [Resources -> {"absent", "active", "finalizing", "gone"}]
        /\ tx[t].todo \in Seq(Item)
        /\ \A r \in Resources : Owner[r] # NoOwner /\ InTable(phase, r) => InTable(phase, Owner[r])
    BY TxFacts
  <1>2. /\ Running(t) /\ tx[t].todo # <<>> /\ Head(tx[t].todo).do = "kids" /\ UNCHANGED <<phase, refs, held>>
    BY DEF List, Doing
  <1>3. Head(tx[t].todo) = m /\ m.do = "kids" /\ rest \in Seq(Item)
    BY <1>1, <1>2, DropFirst
  <1>4. CASE m.groups = {}
    <2>1. tx' = [tx EXCEPT ![t].todo = rest]
      BY <1>3, <1>4 DEF List
    <2>2. <<>> \o rest = rest
      BY <1>3, ConcatEmptySeq
    <2>3. tx' = [tx EXCEPT ![t].todo = <<>> \o rest]
      BY <2>1, <2>2
    <2>4. Replaces(tx[t], <<>>, phase)
      BY <1>3, <1>4, ListEndReplaces
    <2> QED BY <1>2, <2>3, <2>4, ReplaceStep
  <1>5. CASE m.groups # {}
    <2> DEFINE kids(g) == {c \in Children(m.row) : Present(c) /\ Kind[c] \in g}
    <2>1. PICK g \in m.groups :
             tx' = [tx EXCEPT ![t].todo =
                      LockAll(kids(g), "tree")
                      \o [i \in 1 .. Cardinality(kids(g)) |->
                            ListKids(ById(kids(g))[i], Groups(tx[t].op, ById(kids(g))[i]))]
                      \o <<ListKids(m.row, m.groups \ {g})>> \o rest]
      BY <1>3, <1>5 DEF List
    <2>2. kids(g) = KidsIn(m, phase, g)
      BY DEF KidsIn, Present, InTable
    <2> HIDE DEF kids
    <2>3. tx' = [tx EXCEPT ![t].todo = NextKids(tx[t], m, phase, g) \o rest]
      BY <2>1, <2>2 DEF NextKids, Three, VisitAll
    <2>4. Replaces(tx[t], NextKids(tx[t], m, phase, g), phase)
      BY <1>1, <1>2, <1>3, ListReplaces DEF Running
    <2> QED BY <1>2, <2>3, <2>4, ReplaceStep
  <1> QED
    BY <1>4, <1>5

\* sources are listed,
LEMMA SourcesStep ==
    ASSUME RowLocksInv, NEW t \in Txs, Sources(t)
    PROVE  RowLocksInv'
  <1> DEFINE S == {e[1] : e \in {e \in refs : e[2] \in tx[t].tree}} \ tx[t].tree
  <1>1. tx[t].todo \in Seq(Item) /\ refs \subseteq Resources \X Resources /\ DOMAIN tx = Txs
    BY TxFacts
  <1>2. /\ Running(t) /\ tx[t].todo # <<>> /\ Head(tx[t].todo).do = "sources" /\ UNCHANGED <<phase, refs, held>>
        /\ tx' = [tx EXCEPT ![t].todo = LockAll(S, "source") \o Tail(tx[t].todo)]
    BY DEF Sources, Doing
  <1>3. tx[t].todo[1].do = "sources"
    BY <1>1, <1>2, DropFirst
  <1>4. S \in SUBSET Resources
    BY <1>1
  <1> HIDE DEF S
  <1>5. Replaces(tx[t], LockAll(S, "source"), phase)
    BY <1>3, <1>4, SourcesReplaces
  <1> QED
    BY <1>2, <1>5, ReplaceStep

\* targets are read,
LEMMA ValidateStep ==
    ASSUME RowLocksInv, NEW t \in Txs, Validate(t)
    PROVE  RowLocksInv'
  <1>1. tx[t].todo \in Seq(Item) /\ tx[t].to \in SUBSET Resources /\ DOMAIN tx = Txs
    BY TxFacts
  <1>2. /\ Running(t) /\ tx[t].todo # <<>> /\ Head(tx[t].todo).do = "targets" /\ UNCHANGED <<phase, refs>>
    BY DEF Validate, Doing
  <1>3. tx[t].todo[1].do = "targets"
    BY <1>1, <1>2, DropFirst
  <1>4. CASE ~ \A x \in tx[t].to : phase[x] = "active"
    <2>1. End(t, "aborted")
      BY <1>4 DEF Validate
    <2> QED BY <2>1, <1>2, EndStep DEF Done
  <1>5. CASE \A x \in tx[t].to : phase[x] = "active"
    <2>1. PICK order \in SetToSeqs(tx[t].to) :
             /\ tx' = [tx EXCEPT ![t].todo =
                         [i \in 1 .. Len(order) |-> LockRow(order[i], "target")] \o Tail(tx[t].todo)]
             /\ UNCHANGED held
      BY <1>5 DEF Validate
    <2> DEFINE a == [i \in 1 .. Len(order) |-> LockRow(order[i], "target")]
    <2>2. Replaces(tx[t], a, phase)
      BY <1>1, <1>3, ValidateReplaces
    <2>3. tx' = [tx EXCEPT ![t].todo = a \o Tail(tx[t].todo)]
      BY <2>1
    <2> HIDE DEF a
    <2> QED BY <1>2, <2>1, <2>2, <2>3, ReplaceStep
  <1> QED
    BY <1>4, <1>5

\* and a transaction commits.
LEMMA CommitKeeps ==
    ASSUME RowLocksInv, NEW t \in Txs, Commit(t)
    PROVE  RowLocksInv'
  <1>1. /\ DOMAIN tx = Txs /\ DOMAIN held = Txs
        /\ phase \in [Resources -> {"absent", "active", "finalizing", "gone"}]
    BY TxFacts
  <1>2. PICK how \in Done : End(t, how)
    <2>1. tx[t].op \in Ops
      BY DEF Commit, Running
    <2>2. End(t, "committed") \/ End(t, "aborted")
      BY <2>1 DEF Commit, Ops
    <2> QED BY <2>2 DEF Done
  <1> DEFINE T == Ended(how)
  <1>3. tx' = [tx EXCEPT ![t] = T] /\ held' = [held EXCEPT ![t] = {}]
    BY <1>2, EndedIs DEF End
  <1>4. T.op # "create" /\ TxInv(T, {}, phase')
    BY EndKeeps DEF Ended, Done
  <1> HIDE DEF T
  <1>5. /\ DOMAIN tx' = Txs /\ DOMAIN held' = Txs /\ tx'[t] = T /\ held'[t] = {}
        /\ \A u \in Txs \ {t} : tx'[u] = tx[u] /\ held'[u] = held[u]
    BY <1>1, <1>3
  <1>6. /\ phase' \in [Resources -> {"absent", "active", "finalizing", "gone"}]
        /\ \A r \in Resources : Owner[r] # NoOwner =>
             /\ phase'[r] = "active" => phase'[Owner[r]] = "active"
             /\ phase'[r] = "finalizing" => InTable(phase', Owner[r])
    <2>1. TableInOrder
      BY DEF RowLocksInv
    <2>2. CASE Lifecycle!Next
      BY <2>1, <2>2, LifecycleKeepsOrder
    <2>3. CASE phase' = phase
      BY <2>1, <2>3 DEF TableInOrder, Present, InTable
    <2> QED BY <2>2, <2>3, CommitStep
  <1>7. refs' \subseteq Resources \X Resources /\ ReferencesHold'
    BY CommitReferences
  <1>8. TableInOrder'
    BY <1>6, <1>7 DEF TableInOrder, Present, InTable
  <1>9. \A u \in Txs \ {t} : TxInv(tx[u], held[u], phase')
    <2> TAKE u \in Txs \ {t}
    <2>1. TxInv(tx[u], held[u], phase) /\ Spares(tx[u], held[u], phase, phase')
      BY TxFacts, CommitSpares
    <2> QED BY <2>1, <1>1, <1>6, PhaseKeeps
  <1> DEFINE H == {}
  <1>10. /\ H = {} /\ TxInv(T, H, phase') /\ held'[t] = H /\ tx'[t] = T
         /\ \A l \in H : l \in held[t] \/ \A u \in Txs \ {t} : \A k \in held[u] : l[1] = k[1] => ~Conflict(l[2], k[2])
         /\ T.op = "create" => (tx[t].op = "create" /\ T.on = tx[t].on) \/ \A u \in Txs : tx[u].on # T.on
    BY <1>4, <1>5
  <1> HIDE DEF H
  <1> QED
    BY <1>10, <1>5, <1>7, <1>8, <1>9, StepKeeps

\* A table between requests satisfies the invariant.
LEMMA InitInv == Init => RowLocksInv
  <1> SUFFICES ASSUME Init PROVE RowLocksInv
    OBVIOUS
  <1>1. refs \subseteq Resources \X Resources
    BY LocksAssumption DEF Init
  <1>2. TableInOrder /\ ReferencesHold
    BY <1>1 DEF Init, TableInOrder, ReferencesHold
  <1>3. DOMAIN tx = Txs /\ DOMAIN held = Txs /\ \A t \in Txs : tx[t] = Idle /\ held[t] = {}
    BY DEF Init
  <1>4. Idle = Ended("idle")
    BY DEF Idle, Ended
  <1>5. \A t \in Txs : TxInv(tx[t], held[t], phase)
    BY <1>3, <1>4, EndKeeps
  <1>6. LocksExclusive /\ IdsFresh
    BY <1>3 DEF LocksExclusive, IdsFresh, Idle
  <1> QED
    BY <1>2, <1>3, <1>5, <1>6 DEF RowLocksInv

\* Every step keeps it.
LEMMA NextInv == RowLocksInv /\ [Next]_vars => RowLocksInv'
  <1> SUFFICES ASSUME RowLocksInv, [Next]_vars PROVE RowLocksInv'
    OBVIOUS
  <1>1. CASE UNCHANGED vars
    BY <1>1 DEF vars, RowLocksInv, TableInOrder, ReferencesHold, LocksExclusive, IdsFresh, Present
  <1>2. ASSUME NEW t \in Txs, NEW q \in Requests, Begin(t, q[1], q[2], q[3]) PROVE RowLocksInv'
    BY <1>2, BeginStep
  <1>3. ASSUME NEW t \in Txs, Step(t) PROVE RowLocksInv'
    BY <1>3, LockStep, ListStep, SourcesStep, ValidateStep, CommitKeeps DEF Step
  <1>4. ASSUME NEW t \in Txs, Fail(t) \/ DeadlockVictim(t) PROVE RowLocksInv'
    BY <1>4, EndStep DEF Fail, DeadlockVictim, Done
  <1>5. CASE Quiet
    BY <1>1, <1>5 DEF Quiet
  <1> QED
    BY <1>1, <1>2, <1>3, <1>4, <1>5 DEF Next

-----------------------------------------------------------------------------
(* Circles *)

\* A set of natural numbers has a least one.
LEMMA LeastExists ==
    ASSUME NEW S \in SUBSET Nat, S # {}
    PROVE  \E n \in S : \A k \in S : n <= k
  <1>1. IsWellFoundedOn(OpToRel(<, Nat), Nat)
    BY NatLessThanWellFounded
  <1>2. PICK n \in S : \A k \in S : ~(<<k, n>> \in OpToRel(<, Nat))
    BY <1>1, WFMin
  <1>3. ASSUME NEW k \in S PROVE ~(k < n)
    <2>1. <<k, n>> \in Nat \X Nat /\ <<k, n>>[1] = k /\ <<k, n>>[2] = n
      OBVIOUS
    <2>2. k < n => <<k, n>> \in OpToRel(<, Nat)
      BY <2>1, Zenon DEF OpToRel
    <2> QED BY <2>2, <1>2
  <1> QED
    BY <1>3

WaitsInTree(t) == Doing(t, "lock") /\ Head(tx[t].todo).why \in {"own", "tree"}

\* Whoever blocks a transaction and waits in a tree itself has a tree, all its
\* locks are in it, and it waits for a child of a row of that tree.
LEMMA BlockerWalks ==
    ASSUME RowLocksInv, NEW t \in Txs, NEW u \in WaitsFor(t), WaitsInTree(u)
    PROVE  /\ u \in Txs /\ u # t /\ tx[u].todo[1].why = "tree"
           /\ Doing(t, "lock") /\ tx[t].todo[1].row \in tx[u].tree
  <1> DEFINE r == tx[t].todo[1].row
             T == tx[u]
             H == held[u]
  <1>1. /\ tx[t].todo \in Seq(Item) /\ Doing(t, "lock") /\ u \in Blockers(t, Head(tx[t].todo))
    BY TxFacts DEF WaitsFor
  <1>2. Head(tx[t].todo) = tx[t].todo[1]
    BY <1>1, DropFirst DEF Doing
  <1>3. u \in Txs /\ u # t /\ \E l \in held[u] : l[1] = r
    BY <1>1, <1>2 DEF Blockers
  <1>4. TxInv(T, H, phase) /\ T.todo \in Seq(Item)
    BY <1>3, TxFacts
  <1>5. T.todo # <<>> /\ Head(T.todo).do = "lock" /\ Head(T.todo).why \in {"own", "tree"}
    BY DEF WaitsInTree, Doing
  <1>6. Head(T.todo) = T.todo[1] /\ Len(T.todo) \in Nat \ {0}
    BY <1>4, <1>5, DropFirst
  <1>7. 1 \in 1 .. Len(T.todo)
    BY <1>6
  <1>8. H # {}
    BY <1>3
  <1> HIDE DEF T, H
  <1>9. T.todo[1].why = "tree"
    BY <1>4, <1>5, <1>6, <1>7, <1>8 DEF TxInv, ListOK
  <1>10. Walks(T)
    BY <1>4, <1>5, <1>6, <1>7, <1>9 DEF TxInv, ListOK
  <1>11. PICK j \in 1 + 1 .. Len(T.todo) : T.todo[j] = ListKids(T.todo[1].row, Groups(T.op, T.todo[1].row))
    BY <1>4, <1>5, <1>6, <1>7, <1>10 DEF TxInv, VisitsInOrder
  <1>12. j \in 1 .. Len(T.todo) /\ T.todo[j].do = "kids"
    BY <1>6, <1>11 DEF ListKids
  <1>13. \A l \in H : l[1] \in T.tree
    BY <1>4, <1>12 DEF TxInv, Connected
  <1> QED
    BY <1>1, <1>3, <1>9, <1>13 DEF T, H

\* Along a chain of such transactions the trees hang lower and lower.
LEMMA BlockerIsLower ==
    ASSUME RowLocksInv, NEW t \in Txs, tx[t].todo[1].why = "tree",
           NEW u \in WaitsFor(t), WaitsInTree(u)
    PROVE  Height[tx[u].on] < Height[tx[t].on] /\ Height[tx[u].on] \in Nat /\ Height[tx[t].on] \in Nat
  <1> DEFINE c == tx[t].todo[1].row
  <1>1. u \in Txs /\ u # t /\ tx[u].todo[1].why = "tree" /\ Doing(t, "lock") /\ c \in tx[u].tree
    BY BlockerWalks
  <1>2. /\ TxInv(tx[t], held[t], phase) /\ TxInv(tx[u], held[u], phase)
        /\ tx[t].todo \in Seq(Item) /\ tx[u].todo \in Seq(Item)
    BY <1>1, TxFacts
  <1>3. tx[t].todo # <<>> /\ tx[u].todo # <<>> /\ Head(tx[t].todo).do = "lock" /\ Head(tx[u].todo).do = "lock"
    BY <1>1 DEF Doing, WaitsInTree
  <1>4. /\ Head(tx[t].todo) = tx[t].todo[1] /\ 1 \in 1 .. Len(tx[t].todo)
        /\ Head(tx[u].todo) = tx[u].todo[1] /\ 1 \in 1 .. Len(tx[u].todo)
    BY <1>2, <1>3, DropFirst
  <1>5. Walks(tx[t]) /\ Owner[c] \in tx[t].tree
    BY <1>2, <1>3, <1>4 DEF TxInv, ListOK
  <1>6. Walks(tx[u])
    BY <1>1, <1>2, <1>3, <1>4 DEF TxInv, ListOK
  <1>7. Owner[c] \notin tx[u].tree
    <2> SUFFICES ASSUME Owner[c] \in tx[u].tree PROVE FALSE
      OBVIOUS
    <2>1. <<Owner[c], "update">> \in held[t] /\ <<Owner[c], "update">> \in held[u]
      BY <1>2, <1>5 DEF TxInv, HoldsRows
    <2>2. Conflict(<<Owner[c], "update">>[2], <<Owner[c], "update">>[2])
      BY DEF Conflict
    <2> QED BY <2>1, <2>2, <1>1 DEF RowLocksInv, LocksExclusive
  <1>8. c = tx[u].on
    BY <1>1, <1>2, <1>6, <1>7 DEF TxInv, Connected
  <1>9. Height[Owner[c]] <= Height[tx[t].on]
    BY <1>2, <1>5 DEF TxInv, Connected
  <1>10. c \in Resources /\ Owner[c] \in Resources /\ tx[t].on \in Resources
    <2>1. tx[t].op \in Ops
      BY <1>5 DEF Walks, Ops
    <2> QED BY <2>1, <1>1, <1>2, <1>5 DEF TxInv, TxType
  <1>11. Height[c] < Height[Owner[c]] /\ {Height[c], Height[Owner[c]], Height[tx[t].on]} \subseteq Nat
    BY <1>10, HeightFacts
  <1> QED
    BY <1>8, <1>9, <1>11

\* In a circle one would have to hang lowest.
LEMMA NoCircleOfTrees == RowLocksInv => TreeLocksNeverDeadlock
  <1> SUFFICES ASSUME RowLocksInv, NEW S \in SUBSET {t \in Txs : WaitsInTree(t)}, S # {},
                      \A t \in S : WaitsFor(t) \cap S # {}
               PROVE  FALSE
    BY DEF TreeLocksNeverDeadlock, WaitsInTree
  <1> DEFINE W == {t \in S : tx[t].todo[1].why = "tree"}
             N == {Height[tx[t].on] : t \in W}
  <1>1. \A t \in S : t \in Txs /\ WaitsInTree(t)
    OBVIOUS
  <1>2. \A t \in S : \E u \in W : u \in WaitsFor(t)
    <2> TAKE t \in S
    <2>1. PICK u \in S : u \in WaitsFor(t)
      OBVIOUS
    <2>2. tx[u].todo[1].why = "tree"
      BY <2>1, <1>1, BlockerWalks
    <2> QED BY <2>1, <2>2
  <1>3. \A t \in W : \E u \in W : /\ Height[tx[u].on] < Height[tx[t].on]
                                  /\ Height[tx[u].on] \in Nat /\ Height[tx[t].on] \in Nat
    <2> TAKE t \in W
    <2>1. PICK u \in W : u \in WaitsFor(t)
      BY <1>2
    <2>2. t \in Txs /\ tx[t].todo[1].why = "tree" /\ u \in WaitsFor(t) /\ WaitsInTree(u)
      BY <2>1, <1>1
    <2> QED BY <2>2, BlockerIsLower
  <1>4. W # {}
    BY <1>2
  <1> HIDE DEF W
  <1>5. N \in SUBSET Nat /\ N # {}
    BY <1>3, <1>4
  <1>6. PICK n \in N : \A k \in N : n <= k
    BY <1>5, LeastExists
  <1>7. PICK t \in W : n = Height[tx[t].on]
    OBVIOUS
  <1>8. PICK u \in W : Height[tx[u].on] < n /\ Height[tx[u].on] \in Nat /\ n \in Nat
    BY <1>3, <1>7
  <1>9. n <= Height[tx[u].on]
    BY <1>6
  <1> QED
    BY <1>8, <1>9

-----------------------------------------------------------------------------
(* What holds of every behaviour *)

\* The inductive invariant: rows on a transaction's list, in its tree and under
\* its locks fit together, whatever the others do meanwhile.
THEOREM RowLocksInvariant == Spec => []RowLocksInv
  <1> QED
    BY InitInv, NextInv, PTL DEF Spec

\* A committed reference comes from a living resource and its target exists, however
\* the statements of the transactions that write and delete them interleave.
THEOREM ReferencesAlwaysHold == Spec => []ReferencesHold
  <1>1. RowLocksInv => ReferencesHold
    BY DEF RowLocksInv
  <1> QED
    BY <1>1, RowLocksInvariant, PTL

\* Locking rows from a resource down to its children never closes a circle: every
\* deadlock goes through a row that is locked because of a reference.
THEOREM TreeWalksNeverDeadlock == Spec => []TreeLocksNeverDeadlock
  <1> QED
    BY NoCircleOfTrees, RowLocksInvariant, PTL

\* Locking row by row implements the abstract life cycle, in which every
\* operation is one step.
THEOREM RowLocksImplementLifecycle == Spec => StepsOfLifecycle
  <1>1. RowLocksInv /\ [Next]_vars => [Lifecycle!Next]_phase
    <2> SUFFICES ASSUME RowLocksInv, [Next]_vars PROVE Lifecycle!Next \/ phase' = phase
      OBVIOUS
    <2>1. ASSUME NEW t \in Txs, Commit(t) PROVE Lifecycle!Next \/ phase' = phase
      BY <2>1, CommitStep
    <2>2. ASSUME NEW t \in Txs, Lock(t) \/ List(t) \/ Sources(t) \/ Validate(t) PROVE phase' = phase
      BY <2>2 DEF Lock, List, Sources, Validate
    <2>3. ASSUME NEW t \in Txs, Fail(t) \/ DeadlockVictim(t) PROVE phase' = phase
      BY <2>3 DEF Fail, DeadlockVictim
    <2>4. ASSUME NEW t \in Txs, NEW q \in Requests, Begin(t, q[1], q[2], q[3]) PROVE phase' = phase
      BY <2>4 DEF Begin
    <2>5. CASE UNCHANGED vars
      BY <2>5 DEF vars
    <2> QED
      BY <2>1, <2>2, <2>3, <2>4, <2>5 DEF Next, Step, Quiet
  <1> QED
    BY <1>1, RowLocksInvariant, PTL DEF Spec, StepsOfLifecycle
=============================================================================

---------------------------- MODULE Journey_proofs ----------------------------
(***************************************************************************)
(* Journey's properties, for any answers, clocks and deployments.  The     *)
(* invariant BaseInv says that what is held is made of the records of the  *)
(* journey, and that every stored flow is what Materialize makes of its    *)
(* events.  Union-find is shown to find connected components; what the     *)
(* layers say is related to what happened to the request for requests that *)
(* every layer gives one verdict on.                                       *)
(***************************************************************************)
EXTENDS Journey, FiniteSetTheorems, SequenceTheorems, WellFoundedInduction, TLAPS

-----------------------------------------------------------------------------
(* Numbers, loops and the order of events.                                *)

\* A set of naturals that is not empty has a least element.
LEMMA LeastElement ==
    ASSUME NEW T, T \subseteq Nat, T # {}
    PROVE  \E x \in T : \A y \in T : x <= y
<1>. DEFINE Less == OpToRel(<, Nat)
<1>1. IsWellFoundedOn(Less, Nat)
  BY NatLessThanWellFounded
<1>2. \A y, z \in Nat : y < z => <<y, z>> \in Less
  BY DEF OpToRel
<1>. HIDE DEF Less
<1>3. PICK x \in T : \A y \in T : ~ (<<y, x>> \in Less)
  BY <1>1, WFMin, Zenon
<1>4. \A y \in T : ~ (y < x)
  BY <1>2, <1>3
<1>. QED
  BY <1>4

\* How many numbers there are from 1, and from 0.
LEMMA Numbers ==
    ASSUME NEW c \in Nat
    PROVE  /\ IsFiniteSet(1..c) /\ Cardinality(1..c) = c
           /\ IsFiniteSet(0..(c - 1)) /\ Cardinality(0..(c - 1)) = c
<1>1. \A a, b \in Int : /\ IsFiniteSet(a..b)
                        /\ Cardinality(a..b) = IF a > b THEN 0 ELSE b - a + 1
  BY FS_Interval
<1>2. 1 \in Int /\ 0 \in Int /\ c \in Int /\ c - 1 \in Int
  OBVIOUS
<1>3. IsFiniteSet(1..c) /\ Cardinality(1..c) = IF 1 > c THEN 0 ELSE c - 1 + 1
  BY <1>1, <1>2
<1>4. /\ IsFiniteSet(0..(c - 1))
      /\ Cardinality(0..(c - 1)) = IF 0 > c - 1 THEN 0 ELSE (c - 1) - 0 + 1
  BY <1>1, <1>2
<1>. QED
  BY <1>3, <1>4

\* What holds at the start of a loop and is kept by every round holds after each.
LEMMA Loop ==
    ASSUME NEW n \in Nat, NEW T, 0 \in T,
           \A i \in 0..n : i \in T /\ i + 1 <= n => i + 1 \in T
    PROVE  0..n \subseteq T
<1>. DEFINE Bad == {i \in 0..n : i \notin T}
<1>. SUFFICES Bad = {}
  OBVIOUS
<1>. SUFFICES ASSUME Bad # {} PROVE FALSE
  OBVIOUS
<1>1. PICK x \in Bad : \A y \in Bad : x <= y
  <2>. HIDE DEF Bad
  <2>1. Bad \subseteq Nat
    BY DEF Bad
  <2>. QED
    BY <2>1, LeastElement
<1>2. x # 0 /\ x - 1 \in 0..n /\ x - 1 \notin Bad
  BY <1>1
<1>. QED
  BY <1>1, <1>2

-----------------------------------------------------------------------------
(* Order.                                                                   *)

\* A strict linear order of S, as a set of pairs.
Linear(S, R) ==
    /\ \A x \in S : <<x, x>> \notin R
    /\ \A x, y \in S : x # y => <<x, y>> \in R \/ <<y, x>> \in R
    /\ \A x, y, z \in S : <<x, y>> \in R /\ <<y, z>> \in R => <<x, z>> \in R

Below2(S, R, x) == {y \in S : <<y, x>> \in R}
Rank(S, R, x) == Cardinality(Below2(S, R, x))

\* The smaller of two elements has the smaller rank.
LEMMA RanksOrder ==
    ASSUME NEW S, IsFiniteSet(S), NEW R, Linear(S, R), NEW x \in S, NEW y \in S,
           <<x, y>> \in R
    PROVE  Rank(S, R, x) < Rank(S, R, y)
<1>. DEFINE X == Below2(S, R, x)
            Y == Below2(S, R, y)
<1>1. X \in SUBSET Y /\ x \in Y /\ x \notin X /\ Y \in SUBSET S
  BY DEF Linear, Below2
<1>. HIDE DEF X, Y
<1>2. IsFiniteSet(Y)
  BY <1>1, FS_Subset
<1>3. IsFiniteSet(X) /\ Cardinality(X) <= Cardinality(Y) /\ Cardinality(X) # Cardinality(Y)
  BY <1>1, <1>2, FS_Subset
<1>4. Cardinality(X) \in Nat /\ Cardinality(Y) \in Nat
  BY <1>2, <1>3, FS_CardinalityType
<1>. QED
  BY <1>3, <1>4 DEF Rank, X, Y

\* The elements of a finite linear order have the ranks from 0, each once.
LEMMA Ranks ==
    ASSUME NEW S, IsFiniteSet(S), NEW R, Linear(S, R)
    PROVE  /\ Cardinality(S) \in Nat
           /\ \A x \in S : Rank(S, R, x) \in 0..(Cardinality(S) - 1)
           /\ \A x, y \in S : <<x, y>> \in R <=> Rank(S, R, x) < Rank(S, R, y)
           /\ \A x, y \in S : Rank(S, R, x) = Rank(S, R, y) => x = y
           /\ \A n \in 1..Cardinality(S) : \E x \in S : Rank(S, R, x) = n - 1
<1>. DEFINE c == Cardinality(S)
            r == [x \in S |-> Rank(S, R, x)]
            T == 0..(c - 1)
<1>1. c \in Nat
  BY FS_CardinalityType
<1>2. ASSUME NEW x \in S PROVE Rank(S, R, x) \in T
  <2>. DEFINE X == Below2(S, R, x)
  <2>1. X \in SUBSET S /\ X # S
    BY DEF Below2, Linear
  <2>. HIDE DEF X
  <2>2. IsFiniteSet(X) /\ Cardinality(X) <= c /\ Cardinality(X) # c
    BY <2>1, FS_Subset
  <2>3. Cardinality(X) \in Nat
    BY <2>2, FS_CardinalityType
  <2>. QED
    BY <1>1, <2>2, <2>3 DEF Rank, X
<1>3. \A x, y \in S : <<x, y>> \in R => Rank(S, R, x) < Rank(S, R, y)
  BY RanksOrder
<1>4. \A x \in S : Rank(S, R, x) \in Int
  BY <1>2
<1>5. ASSUME NEW x \in S, NEW y \in S
      PROVE  /\ Rank(S, R, x) = Rank(S, R, y) => x = y
             /\ Rank(S, R, x) < Rank(S, R, y) => <<x, y>> \in R
  <2>1. Rank(S, R, x) \in Int /\ Rank(S, R, y) \in Int
    BY <1>4
  <2>2. /\ <<x, y>> \in R => Rank(S, R, x) < Rank(S, R, y)
        /\ <<y, x>> \in R => Rank(S, R, y) < Rank(S, R, x)
    BY <1>3
  <2>3. x # y => <<x, y>> \in R \/ <<y, x>> \in R
    BY DEF Linear
  <2>. QED
    BY <2>1, <2>2, <2>3
<1>7. \A n \in 1..c : \E x \in S : Rank(S, R, x) = n - 1
  <2>1. r \in Injection(S, T)
    BY <1>2, <1>5 DEF Injection, IsInjective
  <2>2. IsFiniteSet(T) /\ Cardinality(T) = c
    BY <1>1, Numbers
  <2>. HIDE DEF c, r, T
  <2>3. r \in Surjection(S, T)
    BY <2>1, <2>2, FS_Injection DEF c
  <2>4. \A t \in T : \E x \in S : r[x] = t
    BY <2>3 DEF Surjection
  <2>5. \A n \in 1..c : n - 1 \in T
    BY <1>1 DEF T
  <2>. QED
    BY <2>4, <2>5 DEF r
<1>. QED
  BY <1>1, <1>2, <1>3, <1>5, <1>7

\* Events that differ have ids that differ.
Named(S) == \A e, f \in S : e.id = f.id => e = f

\* The order of ids is linear on named events.
LEMMA IdOrder ==
    ASSUME NEW S, S \subseteq EventType, Named(S)
    PROVE  Linear(S, {x \in S \X S : SmallerId(x[1].id, x[2].id)})
<1>1. \A e \in S : e.id \in (1..4) \X Nat /\ e.id[1] \in Int /\ e.id[2] \in Int
                   /\ e.id = <<e.id[1], e.id[2]>>
  BY DEF EventType
<1>. QED
  BY <1>1 DEF Linear, SmallerId, Named

\* ByKey lists each event of a set once.
LEMMA ByKeyLists ==
    ASSUME NEW S, IsFiniteSet(S), S \subseteq EventType, Named(S)
    PROVE  /\ ByKey(S) \in Seq(S) /\ Len(ByKey(S)) = Cardinality(S)
           /\ ToSet(ByKey(S)) = S
           /\ \A i, j \in 1..Len(ByKey(S)) : ByKey(S)[i] = ByKey(S)[j] => i = j
<1>. DEFINE R == {x \in S \X S : SmallerId(x[1].id, x[2].id)}
            c == Cardinality(S)
            smaller(e) == {f \in S : SmallerId(f.id, e.id)}
            At(n) == CHOOSE e \in S : Cardinality(smaller(e)) = n - 1
<1>1. \A e \in S : Rank(S, R, e) = Cardinality(smaller(e))
  <2>1. \A e \in S : smaller(e) = Below2(S, R, e)
    BY DEF Below2
  <2>. QED
    BY <2>1 DEF Rank
<1>2. ByKey(S) = [n \in 1..c |-> At(n)]
  BY DEF ByKey
<1>3. Linear(S, R)
  BY IdOrder
<1>. HIDE DEF R, smaller
<1>4. /\ c \in Nat
      /\ \A x \in S : Rank(S, R, x) \in 0..(c - 1)
      /\ \A x, y \in S : Rank(S, R, x) = Rank(S, R, y) => x = y
      /\ \A n \in 1..c : \E x \in S : Rank(S, R, x) = n - 1
  BY <1>3, Ranks
<1>5. \A n \in 1..c : At(n) \in S /\ Rank(S, R, At(n)) = n - 1
  BY <1>1, <1>4
<1>6. \A x \in S : Rank(S, R, x) + 1 \in 1..c /\ At(Rank(S, R, x) + 1) = x
  BY <1>4, <1>5
<1>. HIDE DEF At, c
<1>7. ByKey(S) \in Seq(S) /\ Len(ByKey(S)) = c /\ DOMAIN ByKey(S) = 1..c
  BY <1>2, <1>4, <1>5
<1>8. \A i \in 1..c : ByKey(S)[i] = At(i)
  BY <1>2
<1>9. \A i, j \in 1..c : At(i) = At(j) => i = j
  BY <1>5
<1>10. \A x \in S : \E i \in 1..c : At(i) = x
  BY <1>6
<1>11. ToSet(ByKey(S)) = S
  BY <1>5, <1>7, <1>8, <1>10 DEF ToSet
<1>. QED
  BY <1>7, <1>8, <1>9, <1>11 DEF c

-----------------------------------------------------------------------------
(* The causal order.                                                        *)

\* Events of one flow, each once and by an id of its own.
Distinct(s) == \A i, j \in 1..Len(s) : s[i].id = s[j].id => i = j

Sorted(s) == \A i, j \in 1..Len(s) : i < j => Before(s[i], s[j])

\* OrderEvents' order is linear on named events.
LEMMA BeforeIsLinear ==
    ASSUME NEW S, S \subseteq EventType, Named(S)
    PROVE  Linear(S, {x \in S \X S : Before(x[1], x[2])})
<1>1. \A e \in S : e.id \in (1..4) \X Nat /\ e.id[1] \in Int /\ e.id[2] \in Int
                   /\ e.id = <<e.id[1], e.id[2]>> /\ e.layer \in Int /\ e.time \in Int
  BY DEF EventType, Layer, Edge, Origin
<1>. QED
  BY <1>1 DEF Linear, SmallerId, Named, Before

\* Before, on the events of a sequence in which no id comes twice.
LEMMA BeforeIs ==
    ASSUME NEW e \in EventType, NEW f \in EventType, NEW g \in EventType
    PROVE  /\ ~ Before(e, e)
           /\ Before(e, f) => ~ Before(f, e)
           /\ e.id # f.id => Before(e, f) \/ Before(f, e)
           /\ Before(e, f) /\ Before(f, g) => Before(e, g)
<1>1. \A x \in EventType :
         x.id \in (1..4) \X Nat /\ x.id[1] \in Int /\ x.id[2] \in Int
         /\ x.id = <<x.id[1], x.id[2]>> /\ x.layer \in Int /\ x.time \in Int
  BY DEF EventType, Layer, Edge, Origin
<1>. QED
  BY <1>1 DEF SmallerId, Before

\* OrderEvents returns the same events, sorted.
LEMMA OrderSorts ==
    ASSUME NEW s \in Seq(EventType), Distinct(s)
    PROVE  /\ OrderEvents(s) \in Seq(EventType)
           /\ Len(OrderEvents(s)) = Len(s)
           /\ ToSet(OrderEvents(s)) = ToSet(s)
           /\ Sorted(OrderEvents(s))
<1>. DEFINE I == 1..Len(s)
            R == {x \in I \X I : Precedes(s, x[1], x[2])}
            first(i) == {j \in I : Precedes(s, j, i)}
            At(n) == CHOOSE i \in I : Cardinality(first(i)) = n - 1
            o == [n \in I |-> s[At(n)]]
<1>1. OrderEvents(s) = o
  BY DEF OrderEvents
<1>2. \A i, j \in I : Precedes(s, i, j) <=> Before(s[i], s[j])
  <2>. SUFFICES ASSUME NEW i \in I, NEW j \in I
                PROVE  Precedes(s, i, j) <=> Before(s[i], s[j])
    OBVIOUS
  <2>1. s[i] \in EventType /\ s[j] \in EventType
    OBVIOUS
  <2>2. i = j => ~ Before(s[i], s[j]) /\ ~ Precedes(s, i, j)
    BY <2>1, BeforeIs DEF Precedes
  <2>3. i # j => Before(s[i], s[j]) \/ Before(s[j], s[i])
    BY <2>1, BeforeIs DEF Distinct
  <2>. QED
    BY <2>2, <2>3 DEF Precedes
<1>3. Linear(I, R)
  <2>1. \A i, j \in I : <<i, j>> \in R <=> Before(s[i], s[j])
    BY <1>2
  <2>2. \A i \in I : s[i] \in EventType
    OBVIOUS
  <2>. HIDE DEF R, I
  <2>3. \A i, j \in I : i # j => s[i].id # s[j].id
    BY DEF Distinct, I
  <2>. QED
    BY <2>1, <2>2, <2>3, BeforeIs DEF Linear
<1>4. \A i \in I : Rank(I, R, i) = Cardinality(first(i))
  <2>1. \A i \in I : first(i) = Below2(I, R, i)
    BY DEF Below2
  <2>. QED
    BY <2>1 DEF Rank
<1>5. IsFiniteSet(I) /\ Cardinality(I) = Len(s) /\ Len(s) \in Nat
  <2>1. Len(s) \in Nat
    OBVIOUS
  <2>2. IsFiniteSet(1..Len(s)) /\ Cardinality(1..Len(s)) = Len(s)
    BY <2>1, Numbers
  <2>. QED
    BY <2>1, <2>2
<1>6. \A i, j \in I : <<i, j>> \in R <=> Before(s[i], s[j])
  BY <1>2
<1>. HIDE DEF R, first
<1>7. /\ \A x \in I : Rank(I, R, x) \in 0..(Len(s) - 1)
      /\ \A x, y \in I : <<x, y>> \in R <=> Rank(I, R, x) < Rank(I, R, y)
      /\ \A x, y \in I : Rank(I, R, x) = Rank(I, R, y) => x = y
      /\ \A n \in I : \E x \in I : Rank(I, R, x) = n - 1
  <2>. HIDE DEF I
  <2>1. I = 1..Cardinality(I)
    BY <1>5 DEF I
  <2>2. /\ \A x \in I : Rank(I, R, x) \in 0..(Cardinality(I) - 1)
        /\ \A x, y \in I : <<x, y>> \in R <=> Rank(I, R, x) < Rank(I, R, y)
        /\ \A x, y \in I : Rank(I, R, x) = Rank(I, R, y) => x = y
        /\ \A n \in 1..Cardinality(I) : \E x \in I : Rank(I, R, x) = n - 1
    BY <1>3, <1>5, Ranks
  <2>3. \A n \in I : \E x \in I : Rank(I, R, x) = n - 1
    BY <2>1, <2>2
  <2>. QED
    BY <1>5, <2>2, <2>3
<1>8. \A n \in I : At(n) \in I /\ Rank(I, R, At(n)) = n - 1
  BY <1>4, <1>7
<1>9. \A x \in I : \E n \in I : At(n) = x
  <2>. TAKE x \in I
  <2>1. Rank(I, R, x) + 1 \in I
    <3>1. Rank(I, R, x) \in 0..(Len(s) - 1)
      BY <1>7
    <3>. QED
      BY <1>5, <3>1
  <2>2. At(Rank(I, R, x) + 1) = x
    <3>. DEFINE n == Rank(I, R, x) + 1
    <3>1. Rank(I, R, x) \in Int /\ n - 1 = Rank(I, R, x)
      BY <1>7
    <3>. HIDE DEF n, At
    <3>2. At(n) \in I /\ Rank(I, R, At(n)) = Rank(I, R, x)
      BY <1>8, <2>1, <3>1 DEF n
    <3>3. At(n) = x
      BY <1>7, <3>2
    <3>. QED
      BY <3>3 DEF n
  <2>. QED
    BY <2>1, <2>2
<1>. HIDE DEF At
<1>10. \A n \in I : o[n] = s[At(n)] /\ o[n] \in EventType
  BY <1>8
<1>11. o \in Seq(EventType) /\ Len(o) = Len(s) /\ DOMAIN o = I /\ DOMAIN s = I
  BY <1>5, <1>10
<1>. HIDE DEF o
<1>12. ToSet(o) = ToSet(s)
  <2>1. ToSet(o) = {o[n] : n \in I} /\ ToSet(s) = {s[n] : n \in I}
    BY <1>11 DEF ToSet
  <2>. HIDE DEF I
  <2>2. ToSet(o) \subseteq ToSet(s)
    BY <1>8, <1>10, <2>1
  <2>3. ToSet(s) \subseteq ToSet(o)
    BY <1>9, <1>10, <2>1
  <2>. QED
    BY <2>2, <2>3
<1>13. Sorted(o)
  <2>. SUFFICES ASSUME NEW i \in I, NEW j \in I, i < j
                PROVE  Before(o[i], o[j])
    BY <1>11 DEF Sorted
  <2>1. Rank(I, R, At(i)) < Rank(I, R, At(j))
    BY <1>8
  <2>. QED
    BY <1>6, <1>7, <1>8, <1>10, <2>1
<1>. QED
  BY <1>1, <1>11, <1>12, <1>13

\* There is one sorted sequence of a set of events.
LEMMA SortedIsUnique ==
    ASSUME NEW s \in Seq(EventType), Sorted(s), NEW t \in Seq(EventType), Sorted(t),
           ToSet(s) = ToSet(t)
    PROVE  s = t
<1>. DEFINE Bad == {i \in Nat \ {0} : i <= Len(s) /\ (i > Len(t) \/ s[i] # t[i])}
            Worse == {i \in Nat \ {0} : i <= Len(t) /\ (i > Len(s) \/ s[i] # t[i])}
<1>1. \A i \in 1..Len(s) : \E k \in 1..Len(t) : t[k] = s[i]
  <2>. TAKE i \in 1..Len(s)
  <2>1. s[i] \in ToSet(t)
    BY DEF ToSet
  <2>. QED
    BY <2>1 DEF ToSet
<1>2. \A i \in 1..Len(t) : \E k \in 1..Len(s) : s[k] = t[i]
  <2>. TAKE i \in 1..Len(t)
  <2>1. t[i] \in ToSet(t)
    BY DEF ToSet
  <2>2. t[i] \in ToSet(s)
    BY <2>1
  <2>. QED
    BY <2>2 DEF ToSet
<1>3. \A i, j \in 1..Len(s) : s[i] = s[j] => i = j
  BY BeforeIs DEF Sorted
<1>4. \A i, j \in 1..Len(t) : t[i] = t[j] => i = j
  BY BeforeIs DEF Sorted
<1>5. Bad \union Worse = {}
  <2>. SUFFICES ASSUME Bad \union Worse # {} PROVE FALSE
    OBVIOUS
  <2>1. PICK i \in Bad \union Worse : \A j \in Bad \union Worse : i <= j
    <3>. HIDE DEF Bad, Worse
    <3>1. Bad \union Worse \subseteq Nat
      BY DEF Bad, Worse
    <3>. QED
      BY <3>1, LeastElement
  <2>2. i \in Nat \ {0} /\ (i <= Len(s) \/ i <= Len(t))
    OBVIOUS
  <2>3. \A j \in 1..(i - 1) : j <= Len(s) /\ j <= Len(t) /\ s[j] = t[j]
    <3>. TAKE j \in 1..(i - 1)
    <3>1. j \in Nat \ {0} /\ j \notin Bad /\ j \notin Worse
      BY <2>1
    <3>. QED
      BY <2>2, <3>1
  <2>4. ASSUME i <= Len(s) PROVE i <= Len(t) /\ (s[i] # t[i] => Before(t[i], s[i]))
    <3>1. PICK k \in 1..Len(t) : t[k] = s[i]
      BY <1>1, <2>2, <2>4
    <3>2. k >= i
      BY <1>3, <2>2, <2>3, <2>4, <3>1
    <3>. QED
      BY <2>2, <3>1, <3>2 DEF Sorted
  <2>5. ASSUME i <= Len(t) PROVE i <= Len(s) /\ (s[i] # t[i] => Before(s[i], t[i]))
    <3>1. PICK k \in 1..Len(s) : s[k] = t[i]
      BY <1>2, <2>2, <2>5
    <3>2. k >= i
      BY <1>4, <2>2, <2>3, <2>5, <3>1
    <3>. QED
      BY <2>2, <3>1, <3>2 DEF Sorted
  <2>6. i <= Len(s) /\ i <= Len(t) /\ s[i] # t[i]
    BY <2>2, <2>4, <2>5
  <2>7. Before(s[i], t[i]) /\ Before(t[i], s[i])
    BY <2>4, <2>5, <2>6
  <2>8. s[i] \in EventType /\ t[i] \in EventType
    BY <2>2, <2>6
  <2>. QED
    BY <2>7, <2>8, BeforeIs
<1>6. \A i \in 1..Len(s) : i <= Len(t) /\ s[i] = t[i]
  <2>. TAKE i \in 1..Len(s)
  <2>1. i \notin Bad
    BY <1>5
  <2>. QED
    BY <2>1
<1>7. Len(t) <= Len(s)
  <2>. SUFFICES ASSUME Len(t) > Len(s) PROVE FALSE
    OBVIOUS
  <2>1. Len(s) + 1 \in Worse
    OBVIOUS
  <2>. QED
    BY <1>5, <2>1
<1>8. Len(s) = Len(t)
  <2>1. Len(s) <= Len(t)
    <3>1. CASE Len(s) = 0
      BY <3>1
    <3>2. CASE Len(s) # 0
      BY <1>6, <3>2
    <3>. QED
      BY <3>1, <3>2
  <2>. QED
    BY <1>7, <2>1
<1>. QED
  BY <1>6, <1>8

\* Sorted events are in the order OrderEvents gives them.
LEMMA SortedIsDistinct ==
    ASSUME NEW s \in Seq(EventType), Sorted(s), Named(ToSet(s))
    PROVE  Distinct(s) /\ OrderEvents(s) = s
<1>1. \A i, j \in 1..Len(s) : s[i] = s[j] => i = j
  BY BeforeIs DEF Sorted
<1>2. \A i, j \in 1..Len(s) : s[i].id = s[j].id => s[i] = s[j]
  BY DEF Named, ToSet
<1>3. Distinct(s)
  BY <1>1, <1>2 DEF Distinct
<1>. QED
  BY <1>3, OrderSorts, SortedIsUnique

-----------------------------------------------------------------------------
(* Union-find.                                                             *)

\* A function worked out step by step, each value from the one before it.
StepsFrom(f, base, n, step) ==
    f[0] = base /\ \A i \in 1..n : f[i] = step[<<f[i - 1], i>>]

OneStep(step, n, S) == \A s \in S, i \in 1..n : step[<<s, i>>] \in S

\* There is such a function.
LEMMA StepsExist ==
    ASSUME NEW S, NEW base, base \in S, NEW n, n \in Nat, NEW step, OneStep(step, n, S)
    PROVE  \E f \in [0..n -> S] : StepsFrom(f, base, n, step)
<1>. DEFINE Upto(k, f) == f[0] = base /\ \A i \in 1..k : f[i] = step[<<f[i - 1], i>>]
            T == {k \in 0..n : \E f \in [0..n -> S] : Upto(k, f)}
<1>1. 0 \in T
  <2>. DEFINE f == [i \in 0..n |-> base]
  <2>1. f \in [0..n -> S] /\ Upto(0, f) /\ 0 \in 0..n
    OBVIOUS
  <2>. HIDE DEF f
  <2>. QED
    BY <2>1
<1>2. ASSUME NEW k \in 0..n, k \in T, k + 1 <= n PROVE k + 1 \in T
  <2>1. PICK f \in [0..n -> S] : Upto(k, f)
    BY <1>2
  <2>. DEFINE g == [f EXCEPT ![k + 1] = step[<<f[k], k + 1>>]]
  <2>2. f[k] \in S /\ k + 1 \in 1..n /\ step[<<f[k], k + 1>>] \in S
    BY <1>2 DEF OneStep
  <2>3. g \in [0..n -> S] /\ g[k + 1] = step[<<f[k], k + 1>>]
        /\ \A i \in 0..n : i # k + 1 => g[i] = f[i]
    BY <1>2, <2>2
  <2>. HIDE DEF g
  <2>4. \A i \in 1..(k + 1) : g[i] = step[<<g[i - 1], i>>]
    <3>. SUFFICES ASSUME NEW i \in 1..(k + 1) PROVE g[i] = step[<<g[i - 1], i>>]
      OBVIOUS
    <3>1. CASE i = k + 1
      <4>1. g[k] = f[k] /\ i - 1 = k
        BY <1>2, <2>3, <3>1
      <4>. QED
        BY <2>3, <3>1, <4>1
    <3>2. CASE i # k + 1
      <4>1. i \in 1..k /\ i \in 0..n /\ i - 1 \in 0..n /\ i - 1 # k + 1
        BY <1>2, <3>2
      <4>2. g[i] = f[i] /\ g[i - 1] = f[i - 1]
        BY <2>3, <3>2, <4>1
      <4>. QED
        BY <2>1, <4>1, <4>2
    <3>. QED
      BY <3>1, <3>2
  <2>5. g[0] = base
    BY <1>2, <2>1, <2>3
  <2>. QED
    BY <1>2, <2>3, <2>4, <2>5
<1>. HIDE DEF T
<1>3. 0..n \subseteq T
  BY <1>1, <1>2, Loop
<1>4. n \in T
  BY <1>3
<1>. QED
  BY <1>4 DEF T, StepsFrom

-----------------------------------------------------------------------------
\* A forest over D: a parent has the greater rank.
Ranked(uf, D) ==
    /\ uf \in [parent : [D -> D], rank : [D -> Nat]]
    /\ \E B \in Nat : \A x \in D : uf.rank[x] <= B
    /\ \A x \in D : uf.parent[x] # x => uf.rank[x] < uf.rank[uf.parent[x]]

\* What holds of the roots and passes from a parent to its children holds of all.
LEMMA FromTheRoots ==
    ASSUME NEW D, NEW uf, Ranked(uf, D), NEW P,
           \A x \in D : uf.parent[x] = x \/ uf.parent[x] \in P => x \in P
    PROVE  D \subseteq P
<1>1. PICK B \in Nat : \A x \in D : uf.rank[x] <= B
  BY DEF Ranked
<1>2. \A x \in D : uf.parent[x] \in D /\ uf.rank[x] \in Nat
                   /\ (uf.parent[x] # x => uf.rank[x] < uf.rank[uf.parent[x]])
  BY DEF Ranked
<1>. SUFFICES ASSUME D \ P # {} PROVE FALSE
  OBVIOUS
<1>. DEFINE T == {B - uf.rank[x] : x \in D \ P}
<1>3. T \subseteq Nat /\ T # {}
  BY <1>1, <1>2
<1>4. PICK t \in T : \A u \in T : t <= u
  <2>. HIDE DEF T
  <2>. QED
    BY <1>3, LeastElement
<1>5. PICK x \in D \ P : t = B - uf.rank[x]
  OBVIOUS
<1>6. uf.parent[x] \in D \ P /\ uf.parent[x] # x
  BY <1>2, <1>5
<1>7. B - uf.rank[uf.parent[x]] \in T
  BY <1>6
<1>8. t <= B - uf.rank[uf.parent[x]]
  BY <1>4, <1>7
<1>9. uf.rank[x] \in Nat /\ uf.rank[uf.parent[x]] \in Nat /\ uf.rank[x] < uf.rank[uf.parent[x]]
  BY <1>2, <1>5, <1>6
<1>. QED
  BY <1>5, <1>8, <1>9

\* The recursive definition in Find has a solution.
LEMMA RootsExist ==
    ASSUME NEW D, NEW uf, Ranked(uf, D)
    PROVE  \E f : f = [x \in D |-> IF uf.parent[x] = x THEN x ELSE f[uf.parent[x]]]
<1>1. PICK B \in Nat : \A x \in D : uf.rank[x] <= B
  BY DEF Ranked
<1>2. \A x \in D : uf.parent[x] \in D /\ uf.rank[x] \in Nat
                   /\ (uf.parent[x] # x => uf.rank[x] < uf.rank[uf.parent[x]])
  BY DEF Ranked
<1>. DEFINE Up(f, x) == IF uf.parent[x] = x THEN x ELSE f[uf.parent[x]]
            Good(k, f) == \A x \in D : uf.rank[x] >= B - k => f[x] = Up(f, x)
            T == {k \in 0..B : \E f \in [D -> D] : Good(k, f)}
<1>3. 0 \in T
  <2>. DEFINE f == [x \in D |-> x]
  <2>1. f \in [D -> D]
    OBVIOUS
  <2>2. ASSUME NEW x \in D, uf.rank[x] >= B - 0 PROVE f[x] = Up(f, x)
    <3>1. uf.parent[x] = x
      BY <1>1, <1>2, <2>2
    <3>. QED
      BY <3>1
  <2>3. Good(0, f) /\ 0 \in 0..B
    BY <2>2
  <2>. HIDE DEF f, Good
  <2>. QED
    BY <2>1, <2>3
<1>4. ASSUME NEW k \in 0..B, k \in T, k + 1 <= B PROVE k + 1 \in T
  <2>1. PICK f \in [D -> D] : Good(k, f)
    BY <1>4
  <2>. DEFINE g == [x \in D |-> Up(f, x)]
  <2>2. g \in [D -> D]
    BY <1>2
  <2>3. ASSUME NEW x \in D, uf.rank[x] >= B - (k + 1) PROVE g[x] = Up(g, x)
    <3>1. CASE uf.parent[x] = x
      BY <3>1
    <3>2. CASE uf.parent[x] # x
      <4>1. uf.parent[x] \in D /\ uf.rank[uf.parent[x]] >= B - k
        BY <1>2, <2>3, <3>2
      <4>2. f[uf.parent[x]] = Up(f, uf.parent[x])
        BY <2>1, <4>1
      <4>. QED
        BY <3>2, <4>1, <4>2
    <3>. QED
      BY <3>1, <3>2
  <2>4. Good(k + 1, g)
    BY <2>3
  <2>5. k + 1 \in 0..B
    BY <1>4
  <2>. QED
    BY <2>2, <2>4, <2>5
<1>. HIDE DEF T
<1>5. 0..B \subseteq T
  BY <1>3, <1>4, Loop
<1>6. PICK f \in [D -> D] : Good(B, f)
  BY <1>5 DEF T
<1>7. \A x \in D : f[x] = Up(f, x)
  BY <1>2, <1>6
<1>8. f = [x \in D |-> Up(f, x)]
  BY <1>7
<1>. QED
  BY <1>8

\* Find goes up to a root.
LEMMA FindIs ==
    ASSUME NEW D, NEW uf, Ranked(uf, D)
    PROVE  \A x \in D :
              /\ Find(uf, x) = IF uf.parent[x] = x THEN x ELSE Find(uf, uf.parent[x])
              /\ Find(uf, x) \in D /\ uf.parent[Find(uf, x)] = Find(uf, x)
<1>1. D = DOMAIN uf.parent /\ \A x \in D : uf.parent[x] \in D
  BY DEF Ranked
<1>. DEFINE Is(f) == f = [x \in D |-> IF uf.parent[x] = x THEN x ELSE f[uf.parent[x]]]
            root == CHOOSE f : Is(f)
<1>2. Is(root)
  <2>1. \E f : Is(f)
    BY RootsExist
  <2>. HIDE DEF Is
  <2>. QED
    BY <2>1, Zenon
<1>3. \A x : Find(uf, x) = root[x]
  BY <1>1 DEF Find
<1>. HIDE DEF root
<1>4. \A x \in D : Find(uf, x) = IF uf.parent[x] = x THEN x ELSE Find(uf, uf.parent[x])
  BY <1>1, <1>2, <1>3
<1>. DEFINE P == {x \in D : Find(uf, x) \in D /\ uf.parent[Find(uf, x)] = Find(uf, x)}
<1>5. ASSUME NEW x \in D, uf.parent[x] = x \/ uf.parent[x] \in P PROVE x \in P
  BY <1>4, <1>5
<1>6. D \subseteq P
  <2>. HIDE DEF P
  <2>. QED
    BY <1>5, FromTheRoots
<1>. QED
  BY <1>4, <1>6

\* What had the root low in uf has the root high in new; no other root moves.
Moves(uf, new, D, low, high) ==
    \A x \in D : Find(new, x) = IF Find(uf, x) = low THEN high ELSE Find(uf, x)

Joins(uf, new, D, a, b) ==
    \E low, high \in {Find(uf, a), Find(uf, b)} :
        {low, high} = {Find(uf, a), Find(uf, b)} /\ Moves(uf, new, D, low, high)

\* Linking a and b sends what is under one of their roots to the other, and nothing else.
LEMMA LinkIs ==
    ASSUME NEW D, NEW uf, Ranked(uf, D), NEW a \in D, NEW b \in D
    PROVE  /\ Ranked(Link(uf, a, b), D)
           /\ Joins(uf, Link(uf, a, b), D, a, b)
<1>. DEFINE ra == Find(uf, a)
            rb == Find(uf, b)
            low == IF uf.rank[ra] < uf.rank[rb] THEN ra ELSE rb
            high == IF uf.rank[ra] < uf.rank[rb] THEN rb ELSE ra
            new == Link(uf, a, b)
<1>1. ra \in D /\ rb \in D /\ uf.parent[ra] = ra /\ uf.parent[rb] = rb
  BY FindIs
<1>2. CASE ra = rb
  <2>1. new = uf
    BY <1>2 DEF Link
  <2>2. Moves(uf, uf, D, ra, ra)
    BY DEF Moves
  <2>. HIDE DEF new
  <2>. QED
    BY <1>2, <2>1, <2>2 DEF Joins, new
<1>3. CASE ra # rb
  <2>. DEFINE rank == IF uf.rank[ra] = uf.rank[rb] THEN uf.rank[high] + 1 ELSE uf.rank[high]
  <2>0. uf.parent \in [D -> D] /\ uf.rank \in [D -> Nat]
        /\ uf = [parent |-> uf.parent, rank |-> uf.rank]
    BY DEF Ranked
  <2>1. low \in D /\ high \in D /\ low # high /\ {low, high} = {ra, rb}
        /\ uf.parent[low] = low /\ uf.parent[high] = high
    BY <1>1, <1>3
  <2>2. /\ rank \in Nat /\ uf.rank[low] < rank /\ uf.rank[high] <= rank /\ rank <= uf.rank[high] + 1
    <3>1. uf.rank[ra] \in Nat /\ uf.rank[rb] \in Nat
      BY <1>1, <2>0
    <3>. QED
      BY <3>1
  <2>3. new = [uf EXCEPT !.parent[low] = high, !.rank[high] = rank]
    BY <1>3 DEF Link
  <2>. HIDE DEF low, high, rank, ra, rb
  <2>4. /\ new.parent = [uf.parent EXCEPT ![low] = high]
        /\ new.rank = [uf.rank EXCEPT ![high] = rank]
        /\ new = [parent |-> [uf.parent EXCEPT ![low] = high],
                  rank |-> [uf.rank EXCEPT ![high] = rank]]
    BY <2>0, <2>3
  <2>. HIDE DEF new
  <2>5. new \in [parent : [D -> D], rank : [D -> Nat]]
    BY <2>0, <2>1, <2>2, <2>4
  <2>6. \A x \in D : /\ new.parent[x] = IF x = low THEN high ELSE uf.parent[x]
                     /\ new.rank[x] = IF x = high THEN rank ELSE uf.rank[x]
    BY <2>0, <2>1, <2>4
  <2>7. \E B \in Nat : \A x \in D : new.rank[x] <= B
    <3>1. PICK B \in Nat : \A x \in D : uf.rank[x] <= B
      BY DEF Ranked
    <3>2. \A x \in D : new.rank[x] <= B + 1
      BY <2>0, <2>1, <2>2, <2>6, <3>1
    <3>. QED
      BY <3>2
  <2>8. ASSUME NEW x \in D, new.parent[x] # x
        PROVE  new.rank[x] < new.rank[new.parent[x]]
    <3>1. CASE x = low
      BY <2>1, <2>2, <2>6, <3>1
    <3>2. CASE x # low
      <4>1. new.parent[x] = uf.parent[x] /\ uf.parent[x] \in D /\ uf.parent[x] # x
        BY <2>0, <2>6, <2>8, <3>2
      <4>2. uf.rank[x] < uf.rank[uf.parent[x]] /\ uf.rank[x] \in Nat /\ uf.rank[uf.parent[x]] \in Nat
        BY <2>0, <4>1 DEF Ranked
      <4>3. x # high
        BY <2>1, <4>1
      <4>4. new.rank[x] = uf.rank[x] /\ new.rank[uf.parent[x]] >= uf.rank[uf.parent[x]]
        BY <2>0, <2>1, <2>2, <2>6, <4>1, <4>2, <4>3
      <4>5. new.rank[uf.parent[x]] \in Nat
        BY <2>5, <4>1
      <4>. QED
        BY <4>1, <4>2, <4>4, <4>5
    <3>. QED
      BY <3>1, <3>2
  <2>9. Ranked(new, D)
    BY <2>5, <2>7, <2>8 DEF Ranked
  <2>10. \A x \in D : Find(new, x) = IF Find(uf, x) = low THEN high ELSE Find(uf, x)
    <3>. DEFINE P == {x \in D : Find(new, x) = IF Find(uf, x) = low THEN high ELSE Find(uf, x)}
    <3>1. \A x \in D : Find(uf, x) = IF uf.parent[x] = x THEN x ELSE Find(uf, uf.parent[x])
      BY FindIs
    <3>2. \A x \in D : Find(new, x) = IF new.parent[x] = x THEN x ELSE Find(new, new.parent[x])
      BY <2>9, FindIs
    <3>3. Find(new, high) = high
      BY <2>1, <2>6, <3>2
    <3>4. ASSUME NEW x \in D, uf.parent[x] = x \/ uf.parent[x] \in P PROVE x \in P
      <4>1. CASE x = low
        BY <2>1, <2>6, <3>1, <3>2, <3>3, <4>1
      <4>2. CASE x # low
        BY <2>6, <3>1, <3>2, <3>4, <4>2
      <4>. QED
        BY <4>1, <4>2
    <3>5. D \subseteq P
      <4>. HIDE DEF P
      <4>. QED
        BY <3>4, FromTheRoots
    <3>. QED
      BY <3>5
  <2>. QED
    BY <2>1, <2>9, <2>10 DEF new, ra, rb, Joins, Moves
<1>. QED
  BY <1>2, <1>3

\* SetToSeq lists each element of a finite set.
LEMMA SetToSeqLists ==
    ASSUME NEW S, IsFiniteSet(S)
    PROVE  /\ Cardinality(S) \in Nat /\ Len(SetToSeq(S)) = Cardinality(S)
           /\ SetToSeq(S) \in [1..Cardinality(S) -> S]
           /\ \A x \in S : \E i \in 1..Cardinality(S) : SetToSeq(S)[i] = x
<1>. DEFINE n == Cardinality(S)
            N == 1..n
            s == SetToSeq(S)
<1>1. n \in Nat /\ ExistsBijection(N, S)
  BY FS_CardinalityType
<1>2. \E f \in [N -> S] : IsInjective(f)
  BY <1>1 DEF ExistsBijection, Bijection, Injection
<1>3. s \in [N -> S] /\ IsInjective(s)
  BY <1>2 DEF SetToSeq
<1>4. IsFiniteSet(N) /\ Cardinality(N) = n
  BY <1>1, FS_Interval
<1>. HIDE DEF s
<1>5. s \in Surjection(N, S)
  <2>1. s \in Injection(N, S)
    BY <1>3 DEF Injection
  <2>. HIDE DEF N
  <2>. QED
    BY <1>4, <2>1, FS_Injection DEF n
<1>6. Len(s) = n
  BY <1>1, <1>3
<1>. QED
  BY <1>1, <1>3, <1>5, <1>6 DEF s, Surjection

-----------------------------------------------------------------------------
\* The forest new keeps together what uf keeps together, ...
Keeps(uf, new, D) ==
    Ranked(new, D) /\ \A x, y \in D : Find(uf, x) = Find(uf, y) => Find(new, x) = Find(new, y)

\* ... and apart what P keeps apart.
Respects(uf, D, P) == \A x, y \in D : Find(uf, x) = Find(uf, y) => (x \in P <=> y \in P)

Together(uf, S) == \A x, y \in S : Find(uf, x) = Find(uf, y)

\* link joins the trees of its two identifiers and keeps all others.
LEMMA LinkJoins ==
    ASSUME NEW D, NEW uf, Ranked(uf, D), NEW a \in D, NEW b \in D
    PROVE  /\ Keeps(uf, Link(uf, a, b), D)
           /\ Find(Link(uf, a, b), a) = Find(Link(uf, a, b), b)
<1>. DEFINE new == Link(uf, a, b)
<1>2. Ranked(new, D) /\ Joins(uf, new, D, a, b)
  BY LinkIs
<1>. HIDE DEF new
<1>1. PICK low, high \in {Find(uf, a), Find(uf, b)} :
        /\ {low, high} = {Find(uf, a), Find(uf, b)}
        /\ \A x \in D : Find(new, x) = IF Find(uf, x) = low THEN high ELSE Find(uf, x)
  BY <1>2 DEF Joins, Moves
<1>3. \A x, y \in D : Find(uf, x) = Find(uf, y) => Find(new, x) = Find(new, y)
  BY <1>1
<1>4. Find(new, a) = Find(new, b)
  BY <1>1
<1>. QED
  BY <1>2, <1>3, <1>4 DEF Keeps, new

\* link joins nothing else.
LEMMA LinkRespects ==
    ASSUME NEW D, NEW uf, Ranked(uf, D), NEW a \in D, NEW b \in D,
           NEW P, Respects(uf, D, P), a \in P <=> b \in P
    PROVE  Respects(Link(uf, a, b), D, P)
<1>. DEFINE new == Link(uf, a, b)
            ra == Find(uf, a)
            rb == Find(uf, b)
<1>0. Joins(uf, new, D, a, b)
  BY LinkIs
<1>. HIDE DEF new
<1>1. PICK low, high \in {ra, rb} :
        /\ {low, high} = {ra, rb}
        /\ \A x \in D : Find(new, x) = IF Find(uf, x) = low THEN high ELSE Find(uf, x)
  BY <1>0 DEF Joins, Moves
<1>. HIDE DEF ra, rb
<1>. SUFFICES ASSUME NEW x \in D, NEW y \in D, Find(new, x) = Find(new, y), x \in P
              PROVE  y \in P
  BY DEF Respects, new
<1>2. \A z \in D : (Find(uf, z) = ra \/ Find(uf, z) = rb) => (z \in P <=> a \in P)
  BY DEF Respects, ra, rb
<1>3. CASE Find(uf, x) = Find(uf, y)
  BY <1>3 DEF Respects
<1>4. CASE Find(uf, x) # Find(uf, y)
  BY <1>1, <1>2, <1>4
<1>. QED
  BY <1>3, <1>4

\* A record's identifiers end up in one tree, and nothing else is joined.
LEMMA LinkRecordIs ==
    ASSUME NEW D, D \subseteq 1..6, NEW uf, Ranked(uf, D), NEW record, record.ids \subseteq D,
           NEW P, Respects(uf, D, P), record.ids \subseteq P \/ record.ids \intersect P = {}
    PROVE  /\ Keeps(uf, LinkRecord(uf, record), D)
           /\ Together(LinkRecord(uf, record), record.ids)
           /\ Respects(LinkRecord(uf, record), D, P)
<1>. DEFINE S == {u \in [parent : [D -> D], rank : [D -> Nat]] : Ranked(u, D)}
            ids == SetToSeq(record.ids)
            n == Cardinality(record.ids)
            first == SmallestOf(record.ids)
            step == [x \in S \X (1..n) |-> Link(x[1], first, ids[x[2]])]
<1>1. IsFiniteSet(record.ids)
  <2>1. 1 \in Int /\ 6 \in Int
    OBVIOUS
  <2>2. IsFiniteSet(1..6)
    BY <2>1, FS_Interval, Zenon
  <2>. QED
    BY <2>2, FS_Subset
<1>2. /\ n \in Nat /\ Len(ids) = n /\ ids \in [1..n -> record.ids]
      /\ \A x \in record.ids : \E i \in 1..n : ids[i] = x
  BY <1>1, SetToSeqLists
<1>3. record.ids # {} => first \in record.ids
  <2>1. record.ids \subseteq Nat
    <3>1. record.ids \subseteq 1..6
      BY Zenon
    <3>2. 1..6 \subseteq Nat
      OBVIOUS
    <3>. QED
      BY <3>1, <3>2, Zenon
  <2>. QED
    BY <2>1, LeastElement DEF SmallestOf
<1>4. uf \in S /\ \A u : u \in S <=> Ranked(u, D)
  BY DEF Ranked
<1>. HIDE DEF S, ids, n, first
<1>5. \A i \in 1..n : ids[i] \in record.ids /\ first \in record.ids /\ ids[i] \in D /\ first \in D
  BY <1>2, <1>3
<1>6. OneStep(step, n, S)
  <2>. SUFFICES ASSUME NEW u \in S, NEW i \in 1..n PROVE Link(u, first, ids[i]) \in S
    BY DEF OneStep
  <2>1. Ranked(u, D) /\ first \in D /\ ids[i] \in D
    BY <1>4, <1>5
  <2>2. Ranked(Link(u, first, ids[i]), D)
    BY <2>1, LinkIs
  <2>. QED
    BY <1>4, <2>2
<1>. DEFINE Is(f) == f = [i \in 0..Len(ids) |->
                            IF i = 0 THEN uf ELSE Link(f[i - 1], first, ids[i])]
            after == CHOOSE f : Is(f)
<1>7. PICK f \in [0..n -> S] : StepsFrom(f, uf, n, step)
  <2>. HIDE DEF step
  <2>. QED
    BY <1>2, <1>4, <1>6, StepsExist
<1>8. \A i \in 1..n : f[i] = Link(f[i - 1], first, ids[i])
  <2>. SUFFICES ASSUME NEW i \in 1..n PROVE f[i] = Link(f[i - 1], first, ids[i])
    OBVIOUS
  <2>1. <<f[i - 1], i>> \in S \X (1..n)
    <3>1. i - 1 \in 0..n
      BY <1>2
    <3>. QED
      BY <1>7, <3>1
  <2>2. f[i] = step[<<f[i - 1], i>>]
    BY <1>7 DEF StepsFrom
  <2>. QED
    BY <2>1, <2>2
<1>9. Is(after)
  <2>1. Is(f)
    <3>1. DOMAIN f = 0..Len(ids)
      BY <1>2, <1>7
    <3>2. \A i \in 0..Len(ids) : f[i] = IF i = 0 THEN uf ELSE Link(f[i - 1], first, ids[i])
      BY <1>2, <1>7, <1>8 DEF StepsFrom
    <3>. QED
      BY <1>7, <3>1, <3>2
  <2>. HIDE DEF Is
  <2>. QED
    BY <2>1, Zenon
<1>10. LinkRecord(uf, record) = after[n]
  BY <1>2 DEF LinkRecord, ids, first, n
<1>11. after[0] = uf /\ \A i \in 1..n : after[i] = Link(after[i - 1], first, ids[i])
  <2>. HIDE DEF after
  <2>1. after = [i \in 0..n |-> IF i = 0 THEN uf ELSE Link(after[i - 1], first, ids[i])]
    BY <1>2, <1>9
  <2>. QED
    BY <1>2, <2>1
<1>. HIDE DEF after
<1>. DEFINE Good(i) == /\ Keeps(uf, after[i], D) /\ Respects(after[i], D, P)
                       /\ \A k \in 1..i : Find(after[i], ids[k]) = Find(after[i], first)
            T == {i \in 0..n : Good(i)}
<1>12. 0 \in T
  <2>1. Good(0)
    BY <1>11 DEF Keeps
  <2>. QED
    BY <1>2, <2>1
<1>13. ASSUME NEW i \in 0..n, i \in T, i + 1 <= n PROVE i + 1 \in T
  <2>. DEFINE u == after[i]
              v == after[i + 1]
  <2>1. i + 1 \in 1..n /\ (i + 1) - 1 = i
    BY <1>2, <1>13
  <2>2. v = Link(u, first, ids[i + 1]) /\ ids[i + 1] \in D /\ first \in D
        /\ ids[i + 1] \in record.ids /\ first \in record.ids
    BY <1>5, <1>11, <2>1
  <2>3. Keeps(uf, u, D) /\ Respects(u, D, P) /\ Ranked(u, D)
        /\ \A k \in 1..i : Find(u, ids[k]) = Find(u, first)
    BY <1>13 DEF Keeps
  <2>. HIDE DEF u, v
  <2>4. Keeps(u, v, D) /\ Find(v, first) = Find(v, ids[i + 1])
    BY <2>2, <2>3, LinkJoins
  <2>5. Respects(v, D, P)
    BY <2>2, <2>3, LinkRespects
  <2>6. Keeps(uf, v, D)
    BY <2>3, <2>4 DEF Keeps
  <2>7. \A k \in 1..(i + 1) : Find(v, ids[k]) = Find(v, first)
    <3>. SUFFICES ASSUME NEW k \in 1..(i + 1) PROVE Find(v, ids[k]) = Find(v, first)
      OBVIOUS
    <3>1. CASE k = i + 1
      BY <2>4, <3>1
    <3>2. CASE k \in 1..i
      <4>1. k \in 1..n
        BY <1>2, <1>13, <3>2
      <4>. QED
        BY <1>5, <2>2, <2>3, <2>4, <3>2, <4>1 DEF Keeps
    <3>. QED
      BY <1>13, <3>1, <3>2
  <2>. QED
    BY <1>13, <2>1, <2>5, <2>6, <2>7 DEF v
<1>14. n \in T
  <2>. HIDE DEF T
  <2>1. 0..n \subseteq T
    BY <1>2, <1>12, <1>13, Loop
  <2>. QED
    BY <1>2, <2>1
<1>15. Together(after[n], record.ids)
  BY <1>2, <1>14 DEF Together
<1>. QED
  BY <1>10, <1>14, <1>15

\* At first every identifier is a tree of its own.
LEMMA NewIs ==
    ASSUME NEW D, NEW P
    PROVE  Ranked(NewUnionFind(D), D) /\ Respects(NewUnionFind(D), D, P)
<1>. DEFINE uf == NewUnionFind(D)
<1>1. /\ uf \in [parent : [D -> D], rank : [D -> Nat]]
      /\ \A x \in D : uf.rank[x] <= 0 /\ uf.parent[x] = x
  BY DEF NewUnionFind
<1>. HIDE DEF uf
<1>2. Ranked(uf, D)
  BY <1>1 DEF Ranked
<1>3. \A x \in D : Find(uf, x) = x
  BY <1>1, <1>2, FindIs
<1>. QED
  BY <1>2, <1>3 DEF Respects, uf

\* The forest of some records: each record's identifiers in one tree, and what no record
\* connects apart.
LEMMA ForestIs ==
    ASSUME NEW records \in Seq(EventType), NEW P,
           \A e \in ToSet(records) : e.ids \subseteq P \/ e.ids \intersect P = {}
    PROVE  /\ Ranked(Forest(records), Identifiers(records))
           /\ \A e \in ToSet(records) : Together(Forest(records), e.ids)
           /\ Respects(Forest(records), Identifiers(records), P)
<1>. DEFINE D == Identifiers(records)
            S == {u \in [parent : [D -> D], rank : [D -> Nat]] : Ranked(u, D)}
            n == Len(records)
            base == NewUnionFind(D)
            step == [x \in S \X (1..n) |-> LinkRecord(x[1], records[x[2]])]
<1>1. n \in Nat /\ DOMAIN records = 1..n /\ \A i \in 1..n : records[i] \in EventType
  OBVIOUS
<1>2. D \subseteq 1..6 /\ \A i \in 1..n : records[i].ids \subseteq D
  <2>1. \A i \in 1..n : records[i].ids \subseteq 1..6
    BY <1>1 DEF EventType
  <2>. QED
    BY <1>1, <2>1 DEF Identifiers
<1>3. \A i \in 1..n : records[i].ids \subseteq P \/ records[i].ids \intersect P = {}
  BY <1>1 DEF ToSet
<1>4. \A u : u \in S <=> Ranked(u, D)
  BY DEF Ranked
<1>5. base \in S /\ Ranked(base, D) /\ Respects(base, D, P)
  BY <1>4, NewIs
<1>. HIDE DEF D, S, base, n
<1>6. ASSUME NEW u, Ranked(u, D), Respects(u, D, P), NEW i \in 1..n
      PROVE  /\ Keeps(u, LinkRecord(u, records[i]), D)
             /\ Together(LinkRecord(u, records[i]), records[i].ids)
             /\ Respects(LinkRecord(u, records[i]), D, P)
  <2>1. records[i].ids \subseteq D /\ D \subseteq 1..6
        /\ (records[i].ids \subseteq P \/ records[i].ids \intersect P = {})
    BY <1>2, <1>3
  <2>. QED
    BY <1>6, <2>1, LinkRecordIs
<1>7. ASSUME NEW u, Ranked(u, D), NEW i \in 1..n
      PROVE  Ranked(LinkRecord(u, records[i]), D)
  <2>1. records[i].ids \subseteq D /\ D \subseteq 1..6 /\ records[i].ids \intersect {} = {}
    BY <1>2
  <2>2. Respects(u, D, {})
    BY DEF Respects
  <2>3. Keeps(u, LinkRecord(u, records[i]), D)
    BY <1>7, <2>1, <2>2, LinkRecordIs
  <2>. QED
    BY <2>3 DEF Keeps
<1>8. OneStep(step, n, S)
  <2>. SUFFICES ASSUME NEW u \in S, NEW i \in 1..n PROVE LinkRecord(u, records[i]) \in S
    BY DEF OneStep
  <2>. QED
    BY <1>4, <1>7
<1>. DEFINE Is(f) == f = [i \in 0..Len(records) |->
                            IF i = 0 THEN base ELSE LinkRecord(f[i - 1], records[i])]
            after == CHOOSE f : Is(f)
<1>9. PICK f \in [0..n -> S] : StepsFrom(f, base, n, step)
  <2>. HIDE DEF step
  <2>. QED
    BY <1>1, <1>5, <1>8, StepsExist
<1>10. \A i \in 1..n : f[i] = LinkRecord(f[i - 1], records[i])
  <2>. SUFFICES ASSUME NEW i \in 1..n PROVE f[i] = LinkRecord(f[i - 1], records[i])
    OBVIOUS
  <2>1. <<f[i - 1], i>> \in S \X (1..n)
    <3>1. i - 1 \in 0..n
      BY <1>1
    <3>. QED
      BY <1>9, <3>1
  <2>2. f[i] = step[<<f[i - 1], i>>]
    BY <1>9 DEF StepsFrom
  <2>. QED
    BY <2>1, <2>2
<1>11. Is(after)
  <2>1. Is(f)
    <3>1. DOMAIN f = 0..Len(records)
      BY <1>9 DEF n
    <3>2. \A i \in 0..Len(records) : f[i] = IF i = 0 THEN base ELSE LinkRecord(f[i - 1], records[i])
      BY <1>1, <1>9, <1>10 DEF StepsFrom, n
    <3>. QED
      BY <1>9, <3>1, <3>2
  <2>. HIDE DEF Is
  <2>. QED
    BY <2>1, Zenon
<1>12. Forest(records) = after[n]
  BY DEF Forest, base, D, n
<1>13. after[0] = base /\ \A i \in 1..n : after[i] = LinkRecord(after[i - 1], records[i])
  <2>. HIDE DEF after
  <2>1. after = [i \in 0..n |-> IF i = 0 THEN base ELSE LinkRecord(after[i - 1], records[i])]
    BY <1>11 DEF n
  <2>. QED
    BY <1>1, <2>1
<1>. HIDE DEF after
<1>. DEFINE Good(i) == /\ Ranked(after[i], D) /\ Respects(after[i], D, P)
                       /\ \A k \in 1..i : Together(after[i], records[k].ids)
            T == {i \in 0..n : Good(i)}
<1>14. 0 \in T
  BY <1>1, <1>5, <1>13
<1>15. ASSUME NEW i \in 0..n, i \in T, i + 1 <= n PROVE i + 1 \in T
  <2>. DEFINE u == after[i]
              v == after[i + 1]
  <2>1. i + 1 \in 1..n /\ (i + 1) - 1 = i
    BY <1>1, <1>15
  <2>2. v = LinkRecord(u, records[i + 1])
    BY <1>13, <2>1
  <2>3. Ranked(u, D) /\ Respects(u, D, P) /\ \A k \in 1..i : Together(u, records[k].ids)
    BY <1>15
  <2>. HIDE DEF u, v
  <2>4. Keeps(u, v, D) /\ Together(v, records[i + 1].ids) /\ Respects(v, D, P)
    BY <1>6, <2>1, <2>2, <2>3
  <2>5. \A k \in 1..(i + 1) : Together(v, records[k].ids)
    <3>. SUFFICES ASSUME NEW k \in 1..(i + 1) PROVE Together(v, records[k].ids)
      OBVIOUS
    <3>1. CASE k = i + 1
      BY <2>4, <3>1
    <3>2. CASE k \in 1..i
      <4>1. records[k].ids \subseteq D /\ Together(u, records[k].ids)
        <5>1. k \in 1..n
          BY <1>1, <1>15, <3>2
        <5>. QED
          BY <1>2, <2>3, <3>2, <5>1
      <4>. QED
        BY <2>4, <4>1 DEF Together, Keeps
    <3>. QED
      BY <1>15, <3>1, <3>2
  <2>6. Ranked(v, D)
    BY <2>4 DEF Keeps
  <2>. QED
    BY <1>15, <2>1, <2>4, <2>5, <2>6 DEF v
<1>16. n \in T
  <2>. HIDE DEF T
  <2>1. 0..n \subseteq T
    BY <1>1, <1>14, <1>15, Loop
  <2>. QED
    BY <1>1, <2>1
<1>17. \A e \in ToSet(records) : Together(after[n], e.ids)
  BY <1>1, <1>16 DEF ToSet
<1>. QED
  BY <1>12, <1>16, <1>17 DEF D

-----------------------------------------------------------------------------
(* Verdicts, and the events of each kind of record.                        *)

VerdictOK(v) ==
    /\ v.action \in Action
    /\ v.terminating \in BOOLEAN /\ (v.terminating <=> v.action \in Terminal)
    /\ v.mapped \in BOOLEAN

\* What a verdict says; a verdict terminates by Action.Terminal.
LEMMA VerdictIs ==
    ASSUME NEW a, NEW k \in BOOLEAN
    PROVE  /\ Verdict(a, k).action = a
           /\ Verdict(a, k).terminating \in BOOLEAN
           /\ Verdict(a, k).terminating <=> a \in Terminal
           /\ Verdict(a, k).mapped \in BOOLEAN
<1>1. Verdict(a, k).terminating <=> a \in Terminal
  BY Zenon DEF Verdict
<1>2. Verdict(a, k).action = a /\ Verdict(a, k).terminating \in BOOLEAN
  BY DEF Verdict
<1>3. Verdict(a, k).mapped \in BOOLEAN
  BY DEF Verdict
<1>. QED
  BY <1>1, <1>2, <1>3, Zenon

LEMMA DecidedIs ==
    ASSUME NEW a
    PROVE  /\ Decided(a).action = a
           /\ Decided(a).terminating \in BOOLEAN
           /\ Decided(a).terminating <=> a \in Terminal
           /\ Decided(a).mapped \in BOOLEAN
  BY VerdictIs, Zenon DEF Decided

LEMMA UnrecognisedIs ==
    /\ Unrecognised.action = "unknown"
    /\ Unrecognised.terminating \in BOOLEAN
    /\ ~ Unrecognised.terminating
    /\ Unrecognised.mapped \in BOOLEAN
<1>1. "unknown" \notin Terminal
  BY DEF Terminal
<1>. QED
  BY <1>1, VerdictIs, Zenon DEF Unrecognised

LEMMA DecidedOK == ASSUME NEW a \in Action PROVE VerdictOK(Decided(a))
  BY DecidedIs, Zenon DEF VerdictOK

LEMMA UnrecognisedOK == VerdictOK(Unrecognised)
  BY UnrecognisedIs DEF VerdictOK, Action, Terminal

\* The vocabularies name actions of the schema.
LEMMA WordsAreActions ==
    /\ \A w \in DOMAIN CloudflareAction : CloudflareAction[w] \in Action
    /\ \A w \in DOMAIN LegacyWAFAction : LegacyWAFAction[w] \in Action
    /\ \A w \in DOMAIN ExportAction : ExportAction[w] \in Action
    /\ \A w \in DOMAIN RequestStatus : RequestStatus[w] \in Action
<1>1. \A w \in DOMAIN CloudflareAction : CloudflareAction[w] \in Action
  BY DEF CloudflareAction, Action
<1>2. \A w \in DOMAIN LegacyWAFAction : LegacyWAFAction[w] \in Action
  BY DEF LegacyWAFAction, Action
<1>3. \A w \in DOMAIN ExportAction : ExportAction[w] \in Action
  BY DEF ExportAction, Action
<1>4. \A w \in DOMAIN RequestStatus : RequestStatus[w] \in Action
  BY DEF RequestStatus, Action
<1>. QED
  BY <1>1, <1>2, <1>3, <1>4

\* A translated word is a verdict.
LEMMA TranslatedOK ==
    ASSUME NEW vocabulary, \A w \in DOMAIN vocabulary : vocabulary[w] \in Action, NEW word
    PROVE  VerdictOK(Translated(vocabulary, word))
  BY DecidedOK, UnrecognisedOK DEF Translated

\* Whatever a provider answers, its parser gives a verdict.
LEMMA CloudflareVerdictOK == ASSUME NEW r PROVE VerdictOK(CloudflareVerdict(r))
<1>1. VerdictOK(Translated(CloudflareAction, r.security))
  BY WordsAreActions, TranslatedOK
<1>2. VerdictOK(Translated(CloudflareAction, r.firewall))
  BY WordsAreActions, TranslatedOK
<1>3. VerdictOK(Translated(LegacyWAFAction, r.wafAction))
  BY WordsAreActions, TranslatedOK
<1>4. VerdictOK(Decided("allowed"))
  BY DecidedOK DEF Action
<1>. QED
  BY <1>1, <1>2, <1>3, <1>4, Zenon DEF CloudflareVerdict

\* An answer that DataDome did not enforce does not terminate the request.
LEMMA DataDomeVerdictOK ==
    ASSUME NEW s, NEW t
    PROVE  /\ VerdictOK(DataDomeVerdict(s, t))
           /\ s = 200 => ~ DataDomeVerdict(s, t).terminating
<1>1. /\ VerdictOK(Decided("logged")) /\ VerdictOK(Decided("blocked"))
      /\ VerdictOK(Verdict("allowed", t \in {"authorize", ""}))
      /\ VerdictOK(Verdict("challenged", t \in {"interstitial", "block", ""}))
  <2>1. /\ VerdictOK(Decided("logged")) /\ VerdictOK(Decided("blocked"))
    BY DecidedOK DEF Action
  <2>2. "allowed" \in Action /\ "challenged" \in Action
    BY DEF Action
  <2>3. ASSUME NEW a \in Action, NEW k \in BOOLEAN PROVE VerdictOK(Verdict(a, k))
    <3>1. /\ Verdict(a, k).action = a
          /\ Verdict(a, k).terminating \in BOOLEAN
          /\ Verdict(a, k).terminating <=> a \in Terminal
          /\ Verdict(a, k).mapped \in BOOLEAN
      BY VerdictIs
    <3>. QED
      BY <3>1, Zenon DEF VerdictOK
  <2>4. /\ (t \in {"authorize", ""}) \in BOOLEAN
        /\ (t \in {"interstitial", "block", ""}) \in BOOLEAN
    OBVIOUS
  <2>. QED
    BY <2>1, <2>2, <2>3, <2>4, Zenon
<1>2. ~Decided("logged").terminating
  <2>1. "logged" \notin Terminal
    BY DEF Terminal
  <2>. QED
    BY <2>1, DecidedIs, Zenon
<1>3. ~ Verdict("allowed", t \in {"authorize", ""}).terminating
  <2>1. "allowed" \notin Terminal /\ (t \in {"authorize", ""}) \in BOOLEAN
    BY DEF Terminal
  <2>. QED
    BY <2>1, VerdictIs, Zenon
<1>. QED
  BY <1>1, <1>2, <1>3, UnrecognisedOK DEF DataDomeVerdict

\* The application's answer terminates nothing.
LEMMA StatusVerdictIs ==
    ASSUME NEW s
    PROVE  /\ StatusVerdict(s).action \in Action
           /\ StatusVerdict(s).terminating = FALSE
           /\ StatusVerdict(s).mapped = TRUE
<1>1. StatusAction(s) \in {"rate_limited", "blocked", "allowed"}
  BY ZenonT(60) DEF StatusAction
<1>. QED
  BY <1>1 DEF StatusVerdict, Action

\* The two words of the export that terminate a request.
LEMMA ExportStops ==
    ASSUME NEW w, Translated(ExportAction, w).terminating
    PROVE  w \in {"block", "hard_block"}
<1>1. w \in DOMAIN ExportAction /\ ExportAction[w] \in Terminal
  BY DecidedIs, UnrecognisedIs DEF Translated
<1>. QED
  BY <1>1 DEF ExportAction, Terminal

\* F5's one word that does.
LEMMA StatusStops ==
    /\ Translated(RequestStatus, "blocked").terminating
    /\ \A w \in STRING : w # "blocked" => ~ Translated(RequestStatus, w).terminating
<1>1. Translated(RequestStatus, "blocked").terminating
  BY DecidedIs DEF Translated, RequestStatus, Terminal
<1>2. ASSUME NEW w \in STRING, w # "blocked" PROVE ~ Translated(RequestStatus, w).terminating
  BY <1>2, DecidedIs, UnrecognisedIs DEF Translated, RequestStatus, Terminal
<1>. QED
  BY <1>1, <1>2

LEMMA TimeFlagsAre ==
    ASSUME NEW t \in Int, NEW at
    PROVE  TimeFlags(t, at) \subseteq {"implausible_time", "clock_skew"}
<1>1. TimeFlags(t, at) \in {{"implausible_time"}, {"clock_skew"}, {}}
  BY Zenon DEF TimeFlags
<1>. QED
  BY <1>1

\* What the parsers fill in.
Seen(e, id, provider, layer, ids, v) ==
    /\ e \in EventType
    /\ e.id = id /\ e.provider = provider /\ e.layer = layer /\ e.ids = ids
    /\ e.action = v.action /\ e.terminating = v.terminating

\* Observed is an event.
LEMMA ObservedIs ==
    ASSUME NEW id \in (1..4) \X Nat, NEW l \in Layer,
           NEW p \in {"cloudflare", "datadome", "f5asm", "nginx"},
           NEW ids, Usable(ids) \subseteq 1..6,
           NEW v, v.action \in Action, v.terminating \in BOOLEAN, v.mapped \in BOOLEAN,
           NEW r, r.time \in Int, r.attributes \in {0, 1}, NEW at
    PROVE  Seen(Observed(id, p, l, ids, v, r, at), id, p, l, Usable(ids), v)
<1>. DEFINE flags == (IF v.mapped THEN {} ELSE {"unmapped_values"}) \union TimeFlags(r.time, at)
            e == Observed(id, p, l, ids, v, r, at)
<1>1. flags \subseteq {"implausible_time", "clock_skew", "fields_masked",
                     "unmapped_values", "datadome_fields_absent", "no_correlation_key"}
  BY TimeFlagsAre
<1>2. e = [id |-> id, provider |-> p, layer |-> l, ids |-> Usable(ids),
     action |-> v.action, terminating |-> v.terminating,
     mapped |-> v.mapped, time |-> r.time, cacheHit |-> FALSE,
     suspicious |-> FALSE, readable |-> {}, attributes |-> r.attributes,
     flags |-> flags]
  BY DEF Observed
<1>. HIDE DEF flags, e
<1>3. e \in EventType
  BY <1>1, <1>2 DEF EventType
<1>. QED
  BY <1>2, <1>3 DEF e, Seen

-----------------------------------------------------------------------------
(* Changes of one field.                                                    *)

SameBut(e, f) ==
    /\ f.id = e.id /\ f.provider = e.provider /\ f.layer = e.layer /\ f.ids = e.ids
    /\ f.action = e.action /\ f.terminating = e.terminating

\* An event stays one, and the same but for the field, when a field changes in its type.
LEMMA FieldSet ==
    ASSUME NEW e \in EventType
    PROVE  /\ \A x \in BOOLEAN : LET f == [e EXCEPT !.cacheHit = x] IN
               f \in EventType /\ SameBut(e, f) /\ f.cacheHit = x /\ f.readable = e.readable
           /\ \A x \in BOOLEAN : LET f == [e EXCEPT !.suspicious = x] IN
               f \in EventType /\ SameBut(e, f) /\ f.cacheHit = e.cacheHit /\ f.readable = e.readable
           /\ \A x \in SUBSET (Secret \union Sensitive) : LET f == [e EXCEPT !.readable = x] IN
               f \in EventType /\ SameBut(e, f) /\ f.cacheHit = e.cacheHit /\ f.readable = x
           /\ \A x \in SUBSET {"implausible_time", "clock_skew", "fields_masked",
                     "unmapped_values", "datadome_fields_absent", "no_correlation_key"} :
               LET f == [e EXCEPT !.flags = x] IN
               f \in EventType /\ SameBut(e, f) /\ f.cacheHit = e.cacheHit /\ f.readable = e.readable
<1>1. ASSUME NEW x \in BOOLEAN PROVE LET f == [e EXCEPT !.cacheHit = x] IN
               f \in EventType /\ SameBut(e, f) /\ f.cacheHit = x /\ f.readable = e.readable
  BY DEF EventType, SameBut
<1>2. ASSUME NEW x \in BOOLEAN PROVE LET f == [e EXCEPT !.suspicious = x] IN
               f \in EventType /\ SameBut(e, f) /\ f.cacheHit = e.cacheHit /\ f.readable = e.readable
  BY DEF EventType, SameBut
<1>3. ASSUME NEW x \in SUBSET (Secret \union Sensitive) PROVE LET f == [e EXCEPT !.readable = x] IN
               f \in EventType /\ SameBut(e, f) /\ f.cacheHit = e.cacheHit /\ f.readable = x
  BY DEF EventType, SameBut
<1>4. ASSUME NEW x \in SUBSET {"implausible_time", "clock_skew", "fields_masked",
                     "unmapped_values", "datadome_fields_absent", "no_correlation_key"} PROVE
               LET f == [e EXCEPT !.flags = x] IN
               f \in EventType /\ SameBut(e, f) /\ f.cacheHit = e.cacheHit /\ f.readable = e.readable
  BY DEF EventType, SameBut
<1>. QED
  BY <1>1, <1>2, <1>3, <1>4

\* A masked event shows no secret header.
LEMMA MaskIs ==
    ASSUME NEW e \in EventType
    PROVE  /\ Mask(e) \in EventType /\ Mask(e).readable \intersect Secret = {}
           /\ SameBut(e, Mask(e)) /\ Mask(e).cacheHit = e.cacheHit
<1>. DEFINE masked == e.readable \intersect (Secret \union Sensitive)
            m == [e EXCEPT !.readable = e.readable \ masked]
            flags == m.flags \union (IF masked = {} THEN {} ELSE {"fields_masked"})
            n == [m EXCEPT !.flags = flags]
<1>1. m \in EventType /\ m.readable = e.readable \ masked /\ SameBut(e, m) /\ m.cacheHit = e.cacheHit
  <2>1. e.readable \ masked \in SUBSET (Secret \union Sensitive)
    BY DEF EventType
  <2>. QED
    BY <2>1, FieldSet
<1>2. m.flags = e.flags
  BY DEF EventType
<1>3. Mask(e) = n
  <2>1. Mask(e) = [e EXCEPT !.readable = e.readable \ masked,
                    !.flags = e.flags \union (IF masked = {} THEN {} ELSE {"fields_masked"})]
    BY DEF Mask, EventType
  <2>. QED
    BY <1>2, <2>1
<1>. HIDE DEF m
<1>4. flags \in SUBSET {"implausible_time", "clock_skew", "fields_masked",
                     "unmapped_values", "datadome_fields_absent", "no_correlation_key"}
  BY <1>1 DEF EventType
<1>5. n \in EventType /\ SameBut(m, n) /\ n.cacheHit = m.cacheHit /\ n.readable = m.readable
  BY <1>1, <1>4, FieldSet
<1>. HIDE DEF n
<1>6. m.readable \intersect Secret = {}
  BY <1>1 DEF EventType
<1>. QED
  BY <1>1, <1>3, <1>5, <1>6 DEF SameBut

\* Parse, provider by provider.
LEMMA ParseIs ==
    ASSUME NEW r, NEW at
    PROVE  /\ r.provider = "cloudflare" => Parse(r, at) = ParseCloudflare(r, at)
           /\ r.provider = "datadome" => Parse(r, at) = ParseDataDome(r, at)
           /\ r.provider = "f5asm" => Parse(r, at) = ParseF5(r, at)
           /\ r.provider = "nginx" => Parse(r, at) = ParseNginx(r, at)
<1>1. r.provider = "cloudflare" => Parse(r, at) = ParseCloudflare(r, at)
  BY Zenon DEF Parse
<1>2. r.provider = "datadome" => Parse(r, at) = ParseDataDome(r, at)
  BY Zenon DEF Parse
<1>3. r.provider = "f5asm" => Parse(r, at) = ParseF5(r, at)
  BY Zenon DEF Parse
<1>4. r.provider = "nginx" => Parse(r, at) = ParseNginx(r, at)
  BY Zenon DEF Parse
<1>. QED
  BY <1>1, <1>2, <1>3, <1>4

LEMMA CloudflareVerdictIs ==
    ASSUME NEW r, NEW s, r.security = s.security, r.firewall = s.firewall, r.wafAction = s.wafAction
    PROVE  CloudflareVerdict(r) = CloudflareVerdict(s)
  BY Zenon DEF CloudflareVerdict

\* The fields of a Cloudflare row, ...
LEMMA EdgeRowIs ==
    ASSUME NEW j, NEW ray, NEW parent, NEW answer
    PROVE  LET r == EdgeRow(j, ray, parent, answer)
           IN  /\ r.provider = "cloudflare" /\ r.ray = ray /\ r.parent = parent /\ r.host = "site"
               /\ r.security = answer.security /\ r.firewall = answer.firewall
               /\ r.wafAction = answer.wafAction /\ r.cacheHit = answer.cacheHit
               /\ r.lowScore = answer.lowScore /\ r.time = j.clock[Edge]
               /\ r.requestHeaders = {"cookie"} /\ r.requestId = DataDomeId /\ r.attributes = 1
               /\ r.responseHeaders = (IF ray = VisitorRay /\ PassesEdge(j)
                                        THEN {"x-datadome-requestid"} ELSE {})
  BY DEF EdgeRow

IsAnswer(a) == a.cacheHit \in BOOLEAN /\ a.lowScore \in BOOLEAN

EdgeIds(j, ray, parent) ==
    Usable({ray, parent} \union
             (IF ray = VisitorRay /\ PassesEdge(j) THEN {DataDomeId} ELSE {}))

\* ... and of the event made of it.
LEMMA EdgeEventIs ==
    ASSUME NEW j, j.clock[Edge] \in Int, NEW ray \in {VisitorRay, FetchRay},
           NEW parent \in {Absent, VisitorRay},
           NEW answer, IsAnswer(answer), NEW at
    PROVE  LET r == EdgeRow(j, ray, parent, answer)
               e == EdgeEvent(r, at)
           IN  /\ Parse(r, at) = IF j.clock[Edge] = Unreadable THEN {} ELSE {e}
               /\ Seen(e, CF(ray), "cloudflare", Edge,
                       EdgeIds(j, ray, parent),
                       CloudflareVerdict(answer))
               /\ e.cacheHit = answer.cacheHit
<1>. DEFINE r == EdgeRow(j, ray, parent, answer)
            e0 == Observed(CF(r.ray), "cloudflare", Edge, CloudflareIds(r),
                         CloudflareVerdict(r), r, at)
            e1 == [e0 EXCEPT !.cacheHit = r.cacheHit]
            e2 == [e1 EXCEPT !.suspicious = r.lowScore]
            e3 == [e2 EXCEPT !.readable = r.requestHeaders]
            flags == e3.flags \union (IF DataDomePresent(r) THEN {}
                                      ELSE {"datadome_fields_absent"})
            e4 == [e3 EXCEPT !.flags = flags]
            ids == ({ray, parent} \union
                      (IF ray = VisitorRay /\ PassesEdge(j) THEN {DataDomeId} ELSE {}))
            v == CloudflareVerdict(answer)
<1>0. answer.cacheHit \in BOOLEAN /\ answer.lowScore \in BOOLEAN
  BY DEF IsAnswer
<1>1. /\ r.provider = "cloudflare" /\ r.ray = ray /\ r.parent = parent /\ r.host = "site"
      /\ r.cacheHit = answer.cacheHit
      /\ r.lowScore = answer.lowScore /\ r.time = j.clock[Edge]
      /\ r.requestHeaders = {"cookie"} /\ r.requestId = DataDomeId /\ r.attributes = 1
      /\ r.responseHeaders = (IF ray = VisitorRay /\ PassesEdge(j)
                               THEN {"x-datadome-requestid"} ELSE {})
  BY EdgeRowIs
<1>2. CloudflareVerdict(r) = v
  <2>1. r.security = answer.security /\ r.firewall = answer.firewall /\ r.wafAction = answer.wafAction
    BY EdgeRowIs
  <2>. QED
    BY <2>1, CloudflareVerdictIs
<1>. HIDE DEF r
<1>3. CloudflareIds(r) = ids
  BY <1>1 DEF CloudflareIds, Captured
<1>4. Seen(e0, CF(ray), "cloudflare", Edge, Usable(ids), v)
  <2>1. CF(ray) \in (1..4) \X Nat
    BY DEF CF, VisitorRay, FetchRay
  <2>2. Usable(ids) \subseteq 1..6
    BY DEF Absent, Usable, Placeholder, VisitorRay, DataDomeId, FetchRay
  <2>3. v.action \in Action /\ v.terminating \in BOOLEAN /\ v.mapped \in BOOLEAN
    BY CloudflareVerdictOK DEF VerdictOK
  <2>4. r.time \in Int /\ r.attributes \in {0, 1} /\ Edge \in Layer
    BY <1>1 DEF Layer, Edge, Origin
  <2>. HIDE DEF ids, v
  <2>. DEFINE e == Observed(CF(ray), "cloudflare", Edge, ids, v, r, at)
  <2>5. e0 = e
    BY <1>1, <1>2, <1>3
  <2>6. Seen(e, CF(ray), "cloudflare", Edge, Usable(ids), v)
    BY <2>1, <2>2, <2>3, <2>4, ObservedIs
  <2>. HIDE DEF e, e0
  <2>. QED
    BY <2>5, <2>6
<1>. HIDE DEF e0, ids, v
<1>5. e1 \in EventType /\ SameBut(e0, e1) /\ e1.cacheHit = answer.cacheHit
  <2>1. e0 \in EventType
    BY <1>4 DEF Seen
  <2>. QED
    BY <1>0, <1>1, <2>1, FieldSet
<1>. HIDE DEF e1
<1>6. e2 \in EventType /\ SameBut(e1, e2) /\ e2.cacheHit = e1.cacheHit
  BY <1>0, <1>1, <1>5, FieldSet
<1>. HIDE DEF e2
<1>7. e3 \in EventType /\ SameBut(e2, e3) /\ e3.cacheHit = e2.cacheHit
  BY <1>1, <1>6, FieldSet DEF Secret
<1>8. e3.flags = e2.flags
  BY <1>6 DEF EventType
<1>. HIDE DEF e3
<1>9. e4 \in EventType /\ SameBut(e3, e4) /\ e4.cacheHit = e3.cacheHit
  <2>1. flags \in SUBSET {"implausible_time", "clock_skew", "fields_masked",
                     "unmapped_values", "datadome_fields_absent", "no_correlation_key"}
    BY <1>7 DEF EventType
  <2>. QED
    BY <1>7, <2>1, FieldSet
<1>10. EdgeEvent(r, at) = e4
  BY <1>8 DEF EdgeEvent, e0, e1, e2, e3
<1>. HIDE DEF e4
<1>11. Parse(r, at) = IF j.clock[Edge] = Unreadable THEN {} ELSE {EdgeEvent(r, at)}
  <2>1. ~ IsDataDomeCall(r) /\ r.ray # Absent
    BY <1>1 DEF IsDataDomeCall, Absent, Usable, Placeholder, VisitorRay, FetchRay
  <2>. QED
    BY <1>1, <2>1, ParseIs DEF ParseCloudflare
<1>. QED
  BY <1>4, <1>5, <1>6, <1>7, <1>9, <1>10, <1>11 DEF SameBut, Seen, r, ids, v, EdgeIds

\* The row of a Worker's call, ...
LEMMA CallRowIs ==
    ASSUME NEW j, NEW n
    PROVE  LET r == CallRow(j, n)
               when == [r EXCEPT !.time = IF r.time = Unreadable THEN NoTime ELSE @,
                                 !.attributes = Absent]
           IN  /\ r.provider = "cloudflare" /\ r.ray = CallRay + n /\ r.parent = VisitorRay
               /\ r.host = "datadome" /\ r.status = j.bot[n].status /\ r.type = j.bot[n].type
               /\ r.time = j.clock[Bot]
               /\ when.time = (IF j.clock[Bot] = Unreadable THEN NoTime ELSE j.clock[Bot])
               /\ when.attributes = Absent
<1>. DEFINE r0 == EdgeRow(j, CallRay + n, VisitorRay, NoAnswer)
            r1 == [r0 EXCEPT !.host = "datadome"]
            r2 == [r1 EXCEPT !.status = j.bot[n].status]
            r3 == [r2 EXCEPT !.type = j.bot[n].type]
            r4 == [r3 EXCEPT !.time = j.clock[Bot]]
            t == IF r4.time = Unreadable THEN NoTime ELSE r4.time
            w1 == [r4 EXCEPT !.time = t]
            w2 == [w1 EXCEPT !.attributes = Absent]
            Fields == {"provider", "ray", "parent", "host", "security", "firewall", "wafAction",
                       "cacheHit", "lowScore", "status", "type", "time", "requestHeaders",
                       "requestId", "attributes", "responseHeaders"}
<1>1. r0.provider = "cloudflare" /\ r0.ray = CallRay + n /\ r0.parent = VisitorRay
  BY DEF EdgeRow
<1>2. DOMAIN r0 = Fields
  BY DEF EdgeRow
<1>3. CallRow(j, n) = r4
  BY DEF CallRow
<1>. HIDE DEF r0
<1>4. r1.provider = r0.provider /\ r1.ray = r0.ray /\ r1.parent = r0.parent
      /\ r1.host = "datadome" /\ DOMAIN r1 = Fields
  BY <1>2
<1>. HIDE DEF r1
<1>5. r2.provider = r1.provider /\ r2.ray = r1.ray /\ r2.parent = r1.parent
      /\ r2.host = r1.host /\ r2.status = j.bot[n].status /\ DOMAIN r2 = Fields
  BY <1>4
<1>. HIDE DEF r2
<1>6. r3.provider = r2.provider /\ r3.ray = r2.ray /\ r3.parent = r2.parent
      /\ r3.host = r2.host /\ r3.status = r2.status /\ r3.type = j.bot[n].type /\ DOMAIN r3 = Fields
  BY <1>5
<1>. HIDE DEF r3
<1>7. r4.provider = r3.provider /\ r4.ray = r3.ray /\ r4.parent = r3.parent
      /\ r4.host = r3.host /\ r4.status = r3.status /\ r4.type = r3.type
      /\ r4.time = j.clock[Bot] /\ DOMAIN r4 = Fields
  BY <1>6
<1>. HIDE DEF r4
<1>8. w1.time = t /\ DOMAIN w1 = Fields
  BY <1>7
<1>. HIDE DEF w1
<1>9. w2.time = w1.time /\ w2.attributes = Absent
  BY <1>8
<1>10. [r4 EXCEPT !.time = IF r4.time = Unreadable THEN NoTime ELSE @, !.attributes = Absent] = w2
  BY DEF w1
<1>. HIDE DEF w2
<1>. QED
  BY <1>1, <1>3, <1>4, <1>5, <1>6, <1>7, <1>8, <1>9, <1>10

\* ... and the event derived from it.
LEMMA CallEventIs ==
    ASSUME NEW j, j.clock[Bot] \in Int, NEW n, NEW e \in Normalize(CallRow(j, n))
    PROVE  Seen(e, DD(VisitorRay), "datadome", Bot, {VisitorRay},
                DataDomeVerdict(j.bot[n].status, j.bot[n].type))
           /\ e.readable \intersect Secret = {}
<1>. DEFINE r == CallRow(j, n)
            when == [r EXCEPT !.time = IF r.time = Unreadable THEN NoTime ELSE @,
                              !.attributes = Absent]
            v == DataDomeVerdict(j.bot[n].status, j.bot[n].type)
            d == Observed(DD(VisitorRay), "datadome", Bot, {VisitorRay}, v, when, ReceivedAt)
<1>1. /\ r.provider = "cloudflare" /\ r.ray = CallRay + n /\ r.parent = VisitorRay
      /\ r.host = "datadome" /\ r.status = j.bot[n].status /\ r.type = j.bot[n].type
      /\ when.time = (IF j.clock[Bot] = Unreadable THEN NoTime ELSE j.clock[Bot])
      /\ when.attributes = Absent
  BY CallRowIs
<1>2. DeriveDataDome(r, ReceivedAt) = d
  BY <1>1 DEF DeriveDataDome
<1>. HIDE DEF r
<1>3. Parse(r, ReceivedAt) \subseteq {d}
  <2>1. IsDataDomeCall(r)
    BY <1>1 DEF IsDataDomeCall, VisitorRay, Absent, Usable, Placeholder
  <2>. QED
    BY <1>1, <1>2, <2>1, ParseIs DEF ParseCloudflare
<1>4. Seen(d, DD(VisitorRay), "datadome", Bot, {VisitorRay}, v)
  <2>1. DD(VisitorRay) \in (1..4) \X Nat
    BY DEF DD, VisitorRay
  <2>2. Usable({VisitorRay}) \subseteq 1..6 /\ Usable({VisitorRay}) = {VisitorRay}
    BY DEF Absent, Usable, Placeholder, VisitorRay
  <2>3. v.action \in Action /\ v.terminating \in BOOLEAN /\ v.mapped \in BOOLEAN
    BY DataDomeVerdictOK DEF VerdictOK
  <2>4. when.time \in Int /\ when.attributes \in {0, 1} /\ Bot \in Layer
    BY <1>1 DEF Layer, Edge, Bot, Origin, NoTime, Absent, Usable, Placeholder
  <2>. HIDE DEF v, when
  <2>5. Seen(d, DD(VisitorRay), "datadome", Bot, Usable({VisitorRay}), v)
    BY <2>1, <2>2, <2>3, <2>4, ObservedIs
  <2>. QED
    BY <2>2, <2>5
<1>. HIDE DEF d
<1>5. e = Mask(d)
  BY <1>3 DEF Normalize, r
<1>6. d \in EventType
  BY <1>4 DEF Seen
<1>. QED
  BY <1>4, <1>5, <1>6, MaskIs DEF SameBut, Seen

\* DataDome's own record.
LEMMA ExportEventIs ==
    ASSUME NEW j, j.clock[Bot] \in Int, NEW e \in Normalize(ExportRecord(j))
    PROVE  Seen(e, DD(DataDomeId), "datadome", Bot, {DataDomeId},
                Translated(ExportAction, j.bot[1].type))
           /\ e.readable \intersect Secret = {}
<1>. DEFINE r == ExportRecord(j)
            v == Translated(ExportAction, j.bot[1].type)
            o == Observed(DD(DataDomeId), "datadome", Bot, {DataDomeId}, v, r, ReceivedAt)
            d == [o EXCEPT !.suspicious = r.lowScore]
<1>1. /\ r.provider = "datadome" /\ r.requestId = DataDomeId /\ r.type = j.bot[1].type
      /\ r.lowScore = FALSE /\ r.time = j.clock[Bot] /\ r.attributes = 1
  BY DEF ExportRecord
<1>. HIDE DEF r
<1>2. Parse(r, ReceivedAt) \subseteq {d}
  BY <1>1, ParseIs DEF ParseDataDome
<1>3. Seen(o, DD(DataDomeId), "datadome", Bot, {DataDomeId}, v)
  <2>1. DD(DataDomeId) \in (1..4) \X Nat
    BY DEF DD, DataDomeId
  <2>2. Usable({DataDomeId}) \subseteq 1..6 /\ Usable({DataDomeId}) = {DataDomeId}
    BY DEF Absent, Usable, Placeholder, DataDomeId
  <2>3. v.action \in Action /\ v.terminating \in BOOLEAN /\ v.mapped \in BOOLEAN
    BY WordsAreActions, TranslatedOK DEF VerdictOK
  <2>4. r.time \in Int /\ r.attributes \in {0, 1} /\ Bot \in Layer
    BY <1>1 DEF Layer, Edge, Bot, Origin
  <2>. HIDE DEF v
  <2>5. Seen(o, DD(DataDomeId), "datadome", Bot, Usable({DataDomeId}), v)
    BY <2>1, <2>2, <2>3, <2>4, ObservedIs
  <2>. QED
    BY <2>2, <2>5
<1>. HIDE DEF o, v
<1>4. o \in EventType
  BY <1>3 DEF Seen
<1>5. d \in EventType /\ SameBut(o, d)
  BY <1>1, <1>4, FieldSet
<1>. HIDE DEF d
<1>6. e = Mask(d)
  BY <1>2 DEF Normalize, r
<1>. QED
  BY <1>3, <1>5, <1>6, MaskIs DEF SameBut, Seen, v

LEMMA NoKeyFlagIs == \A ray : NoKeyFlag(ray) \subseteq {"no_correlation_key"}
  BY DEF NoKeyFlag

WafRay(j) == IF j.capture \in {"placeholder", "none"} THEN {} ELSE {OriginRay(j)}
WafVerdict(j) ==
    Translated(RequestStatus, IF j.waf = "blocked_response" THEN "blocked" ELSE j.waf)

LEMMA OriginRayIs ==
    ASSUME NEW j
    PROVE  OriginRay(j) \in 1..6 /\ Usable({OriginRay(j)}) = {OriginRay(j)}
  BY DEF OriginRay, FetchRay, VisitorRay, Absent, Usable, Placeholder

\* F5's record.
LEMMA WafEventIs ==
    ASSUME NEW j, j.clock[Waf] \in Int, j.capture \in {"field", "request", "placeholder", "none"},
           NEW e \in Normalize(F5Record(j))
    PROVE  Seen(e, F5(1), "f5asm", Waf, WafRay(j), WafVerdict(j))
           /\ e.readable \intersect Secret = {}
<1>. DEFINE r == F5Record(j)
            v == WafVerdict(j)
            o == Observed(F5(1), "f5asm", Waf, {F5Ray(r)}, v, r, ReceivedAt)
            flags == o.flags \union NoKeyFlag(F5Ray(r))
            d == [o EXCEPT !.flags = flags]
<1>1. /\ r.provider = "f5asm" /\ r.supportId = 1
      /\ r.requestStatus = (IF j.waf = "blocked_response" THEN "blocked" ELSE j.waf)
      /\ r.time = j.clock[Waf] /\ r.attributes = 1
      /\ r.rayField = (IF j.capture = "field" THEN OriginRay(j)
                       ELSE IF j.capture = "placeholder" THEN Placeholder ELSE Absent)
      /\ r.rayText = (IF j.capture \in {"request", "placeholder"} THEN OriginRay(j) ELSE Absent)
  BY DEF F5Record
<1>2. F5Ray(r) \in 0..7 /\ Usable({F5Ray(r)}) = WafRay(j)
  BY <1>1 DEF F5Ray, WafRay, OriginRay, FetchRay, VisitorRay, Absent, Usable, Placeholder
<1>. HIDE DEF r
<1>3. Parse(r, ReceivedAt) \subseteq {d}
  BY <1>1, ParseIs DEF ParseF5, WafVerdict
<1>4. Seen(o, F5(1), "f5asm", Waf, WafRay(j), v)
  <2>1. F5(1) \in (1..4) \X Nat
    BY DEF F5
  <2>2. Usable({F5Ray(r)}) \subseteq 1..6
    BY <1>2 DEF Absent, Usable, Placeholder
  <2>3. v.action \in Action /\ v.terminating \in BOOLEAN /\ v.mapped \in BOOLEAN
    BY WordsAreActions, TranslatedOK DEF VerdictOK, WafVerdict
  <2>4. r.time \in Int /\ r.attributes \in {0, 1} /\ Waf \in Layer
    BY <1>1 DEF Layer, Edge, Waf, Origin
  <2>. HIDE DEF v
  <2>5. Seen(o, F5(1), "f5asm", Waf, Usable({F5Ray(r)}), v)
    BY <2>1, <2>2, <2>3, <2>4, ObservedIs
  <2>. QED
    BY <1>2, <2>5
<1>. HIDE DEF o, v
<1>5. o \in EventType
  BY <1>4 DEF Seen
<1>6. d \in EventType /\ SameBut(o, d)
  <2>1. flags \in SUBSET {"implausible_time", "clock_skew", "fields_masked",
                     "unmapped_values", "datadome_fields_absent", "no_correlation_key"}
    BY <1>5, NoKeyFlagIs DEF EventType
  <2>. HIDE DEF flags
  <2>. QED
    BY <1>5, <2>1, FieldSet
<1>. HIDE DEF d
<1>7. e = Mask(d)
  BY <1>3 DEF Normalize, r
<1>. QED
  BY <1>4, <1>6, <1>7, MaskIs DEF SameBut, Seen, v

\* nginx's record.
LEMMA OriginEventIs ==
    ASSUME NEW j, j.clock[Origin] \in Int, NEW e \in Normalize(NginxRecord(j))
    PROVE  Seen(e, NGX(1), "nginx", Origin, {OriginRay(j)}, StatusVerdict(j.origin))
           /\ e.readable \intersect Secret = {}
<1>. DEFINE r == NginxRecord(j)
            v == StatusVerdict(j.origin)
            o == Observed(NGX(1), "nginx", Origin, {OriginRay(j)}, v, r, ReceivedAt)
            flags == o.flags \union NoKeyFlag(OriginRay(j))
            d == [o EXCEPT !.flags = flags]
<1>1. /\ r.provider = "nginx" /\ r.hash = 1 /\ r.time = j.clock[Origin]
      /\ r.status = j.origin /\ r.ray = OriginRay(j) /\ r.attributes = 1 /\ r.hasURI = TRUE
  BY DEF NginxRecord
<1>. HIDE DEF r
<1>2. OriginRay(j) \in 1..6 /\ Usable({OriginRay(j)}) = {OriginRay(j)}
  BY OriginRayIs
<1>3. Parse(r, ReceivedAt) \subseteq {d}
  <2>1. Parse(r, ReceivedAt) = ParseNginx(r, ReceivedAt)
    BY <1>1, ParseIs
  <2>2. d = [Observed(NGX(r.hash), "nginx", Origin, {r.ray}, StatusVerdict(r.status), r, ReceivedAt)
               EXCEPT !.flags = @ \union NoKeyFlag(r.ray)]
    BY <1>1
  <2>. HIDE DEF d
  <2>3. ParseNginx(r, ReceivedAt) \subseteq {d}
    BY <2>2, Zenon DEF ParseNginx
  <2>. QED
    BY <2>1, <2>3
<1>4. Seen(o, NGX(1), "nginx", Origin, {OriginRay(j)}, v)
  <2>1. NGX(1) \in (1..4) \X Nat
    BY DEF NGX
  <2>2. Usable({OriginRay(j)}) \subseteq 1..6
    BY <1>2
  <2>3. v.action \in Action /\ v.terminating \in BOOLEAN /\ v.mapped \in BOOLEAN
    BY StatusVerdictIs
  <2>4. r.time \in Int /\ r.attributes \in {0, 1} /\ Origin \in Layer
    BY <1>1 DEF Layer, Edge, Origin
  <2>. HIDE DEF v
  <2>5. Seen(o, NGX(1), "nginx", Origin, Usable({OriginRay(j)}), v)
    BY <2>1, <2>2, <2>3, <2>4, ObservedIs
  <2>. QED
    BY <1>2, <2>5
<1>. HIDE DEF o, v
<1>5. o \in EventType
  BY <1>4 DEF Seen
<1>6. d \in EventType /\ SameBut(o, d)
  <2>1. flags \in SUBSET {"implausible_time", "clock_skew", "fields_masked",
                     "unmapped_values", "datadome_fields_absent", "no_correlation_key"}
    BY <1>5, NoKeyFlagIs DEF EventType
  <2>. HIDE DEF flags
  <2>. QED
    BY <1>5, <2>1, FieldSet
<1>. HIDE DEF d
<1>7. e = Mask(d)
  BY <1>3 DEF Normalize, r
<1>. QED
  BY <1>4, <1>6, <1>7, MaskIs DEF SameBut, Seen, v

\* A row of the site gives an event if its time can be read, and only then.
LEMMA RowEventIs ==
    ASSUME NEW j, j.clock[Edge] \in Int, NEW ray \in {VisitorRay, FetchRay},
           NEW parent \in {Absent, VisitorRay},
           NEW answer, IsAnswer(answer)
    PROVE  /\ j.clock[Edge] = Unreadable => Normalize(EdgeRow(j, ray, parent, answer)) = {}
           /\ j.clock[Edge] # Unreadable => Normalize(EdgeRow(j, ray, parent, answer)) # {}
           /\ \A e \in Normalize(EdgeRow(j, ray, parent, answer)) :
                /\ Seen(e, CF(ray), "cloudflare", Edge,
                        EdgeIds(j, ray, parent),
                        CloudflareVerdict(answer))
                /\ e.cacheHit = answer.cacheHit
                /\ e.readable \intersect Secret = {}
<1>. DEFINE r == EdgeRow(j, ray, parent, answer)
            d == EdgeEvent(r, ReceivedAt)
            ids == EdgeIds(j, ray, parent)
            v == CloudflareVerdict(answer)
<1>1. /\ Parse(r, ReceivedAt) = IF j.clock[Edge] = Unreadable THEN {} ELSE {d}
      /\ Seen(d, CF(ray), "cloudflare", Edge, ids, v) /\ d.cacheHit = answer.cacheHit
  BY EdgeEventIs
<1>. HIDE DEF r, d, ids, v
<1>2. Normalize(r) = IF j.clock[Edge] = Unreadable THEN {} ELSE {Mask(d)}
  BY <1>1 DEF Normalize
<1>3. d \in EventType
  BY <1>1 DEF Seen
<1>4. Seen(Mask(d), CF(ray), "cloudflare", Edge, ids, v) /\ Mask(d).cacheHit = answer.cacheHit
      /\ Mask(d).readable \intersect Secret = {}
  BY <1>1, <1>3, MaskIs DEF Seen, SameBut
<1>. QED
  BY <1>2, <1>4 DEF r, ids, v

-----------------------------------------------------------------------------
(* The records of a journey.                                               *)

\* What the assumption says of one journey.
LEMMA JourneyIs ==
    ASSUME NEW j \in Journeys
    PROVE  /\ IsAnswer(j.edge)
           /\ \A l \in Layer : j.clock[l] \in Int
           /\ j.bot \in Seq(BotAnswer) /\ Len(j.bot) \in 1..Calls
           /\ \A a \in BotAnswer : a.status \in Nat /\ a.type \in STRING
           /\ j.waf \in STRING
           /\ j.capture \in {"field", "request", "placeholder", "none"}
           /\ j.deployment \in Deployment
<1>. USE JourneyAssumption
<1>1. IsAnswer(j.edge)
  BY DEF Journeys, IsAnswer
<1>2. \A l \in Layer : j.clock[l] \in Int
  BY DEF Journeys
<1>3. j.bot \in Seq(BotAnswer) /\ Len(j.bot) \in 1..Calls
  <2>1. j.bot \in UNION {[1..n -> BotAnswer] : n \in 1..Calls}
    BY DEF Journeys
  <2>2. PICK n \in 1..Calls : j.bot \in [1..n -> BotAnswer]
    BY <2>1
  <2>. QED
    BY <2>2
<1>4. \A a \in BotAnswer : a.status \in Nat /\ a.type \in STRING
  OBVIOUS
<1>5. j.waf \in STRING /\ j.capture \in {"field", "request", "placeholder", "none"} /\ j.deployment \in Deployment
  BY DEF Journeys
<1>. QED
  BY <1>1, <1>2, <1>3, <1>4, <1>5

\* A record gives one event at most.
LEMMA OneEvent ==
    ASSUME NEW r, r.provider \in {"cloudflare", "datadome", "f5asm", "nginx"},
           NEW e \in Normalize(r), NEW f \in Normalize(r)
    PROVE  e = f
<1>1. \A x, y \in Parse(r, ReceivedAt) : x = y
  <2>1. CASE r.provider = "cloudflare"
    BY <2>1, ParseIs DEF ParseCloudflare
  <2>2. CASE r.provider = "datadome"
    <3>. DEFINE o == Observed(DD(r.requestId), "datadome", Bot, {r.requestId},
                              Translated(ExportAction, r.type), r, ReceivedAt)
                d == [o EXCEPT !.suspicious = r.lowScore]
    <3>1. Parse(r, ReceivedAt) \subseteq {d}
      BY <2>2, ParseIs DEF ParseDataDome
    <3>. QED
      BY <3>1
  <2>3. CASE r.provider = "f5asm"
    <3>. DEFINE o == Observed(F5(r.supportId), "f5asm", Waf, {F5Ray(r)},
                              Translated(RequestStatus, r.requestStatus), r, ReceivedAt)
                flags == o.flags \union NoKeyFlag(F5Ray(r))
                d == [o EXCEPT !.flags = flags]
    <3>1. Parse(r, ReceivedAt) \subseteq {d}
      BY <2>3, ParseIs DEF ParseF5
    <3>. QED
      BY <3>1
  <2>4. CASE r.provider = "nginx"
    <3>. DEFINE o == Observed(NGX(r.hash), "nginx", Origin, {r.ray},
                              StatusVerdict(r.status), r, ReceivedAt)
                flags == o.flags \union NoKeyFlag(r.ray)
                d == [o EXCEPT !.flags = flags]
    <3>1. Parse(r, ReceivedAt) \subseteq {d}
      BY <2>4, ParseIs DEF ParseNginx
    <3>. QED
      BY <3>1
  <2>. QED
    BY <2>1, <2>2, <2>3, <2>4
<1>. QED
  BY <1>1 DEF Normalize

LEMMA NoAnswerIs == IsAnswer(NoAnswer) /\ CloudflareVerdict(NoAnswer) = Decided("allowed")
                    /\ NoAnswer.cacheHit = FALSE
<1>1. IsAnswer(NoAnswer)
  BY DEF NoAnswer, IsAnswer
<1>2. NoAnswer.security = "" /\ NoAnswer.firewall = "" /\ NoAnswer.wafAction = ""
      /\ NoAnswer.cacheHit = FALSE
  BY DEF NoAnswer
<1>3. CloudflareVerdict(NoAnswer) = Decided("allowed")
  BY <1>2, Zenon DEF CloudflareVerdict
<1>. QED
  BY <1>1, <1>2, <1>3

\* The record r of journey j, and the event made of it.
BotVerdict(j, n) == DataDomeVerdict(j.bot[n].status, j.bot[n].type)
ExportVerdict(j) == Translated(ExportAction, j.bot[1].type)

EdgeKind(j, r, e) ==
    /\ r = VisitorRow(j)
    /\ Seen(e, CF(VisitorRay), "cloudflare", Edge, EdgeIds(j, VisitorRay, Absent),
            CloudflareVerdict(j.edge))
    /\ e.cacheHit = j.edge.cacheHit

FetchKind(j, r, e) ==
    /\ r = FetchRow(j) /\ Waf \in Reaches(j) /\ ViaWorker(j)
    /\ Seen(e, CF(FetchRay), "cloudflare", Edge, EdgeIds(j, FetchRay, VisitorRay),
            Decided("allowed"))
    /\ e.cacheHit = FALSE

CallKind(j, r, e) ==
    /\ Bot \in Reaches(j) /\ ViaWorker(j)
    /\ \E n \in 1..Len(j.bot) :
          /\ r = CallRow(j, n)
          /\ Seen(e, DD(VisitorRay), "datadome", Bot, {VisitorRay}, BotVerdict(j, n))

ExportKind(j, r, e) ==
    /\ r = ExportRecord(j) /\ Bot \in Reaches(j) /\ ViaExport(j)
    /\ Seen(e, DD(DataDomeId), "datadome", Bot, {DataDomeId}, ExportVerdict(j))

WafKind(j, r, e) ==
    /\ r = F5Record(j) /\ Waf \in Reaches(j)
    /\ Seen(e, F5(1), "f5asm", Waf, WafRay(j), WafVerdict(j))

OriginKind(j, r, e) ==
    /\ r = NginxRecord(j) /\ Origin \in Reaches(j)
    /\ Seen(e, NGX(1), "nginx", Origin, {OriginRay(j)}, StatusVerdict(j.origin))

Kind(j, r, e) ==
    \/ EdgeKind(j, r, e) \/ FetchKind(j, r, e) \/ CallKind(j, r, e) \/ ExportKind(j, r, e)
    \/ WafKind(j, r, e) \/ OriginKind(j, r, e)

\* The events a journey's records are parsed and masked to.
LEMMA EventIs ==
    ASSUME NEW j \in Journeys, NEW r \in Records(j), NEW e \in Normalize(r)
    PROVE  Kind(j, r, e) /\ e.readable \intersect Secret = {}
           /\ r.provider \in {"cloudflare", "datadome", "f5asm", "nginx"}
<1>. DEFINE Goal == Kind(j, r, e) /\ e.readable \intersect Secret = {}
           /\ r.provider \in {"cloudflare", "datadome", "f5asm", "nginx"}
<1>0. /\ IsAnswer(j.edge) /\ j.capture \in {"field", "request", "placeholder", "none"}
      /\ j.bot \in Seq(BotAnswer)
      /\ j.clock[Edge] \in Int /\ j.clock[Bot] \in Int /\ j.clock[Waf] \in Int
      /\ j.clock[Origin] \in Int
  BY JourneyIs DEF Layer, Edge, Bot, Waf, Origin
<1>1. CASE r = VisitorRow(j)
  <2>1. VisitorRow(j).provider = "cloudflare"
    BY EdgeRowIs DEF VisitorRow
  <2>. QED
    BY <1>0, <1>1, <2>1, RowEventIs DEF VisitorRow, Kind, EdgeKind
<1>2. CASE r = FetchRow(j) /\ Waf \in Reaches(j) /\ ViaWorker(j)
  <2>1. FetchRow(j).provider = "cloudflare"
    BY EdgeRowIs DEF FetchRow
  <2>. QED
    BY <1>0, <1>2, <2>1, RowEventIs, NoAnswerIs DEF FetchRow, Kind, FetchKind
<1>3. ASSUME NEW n \in DOMAIN j.bot, r = CallRow(j, n), Bot \in Reaches(j), ViaWorker(j)
      PROVE  Goal
  <2>1. n \in 1..Len(j.bot)
    BY <1>0
  <2>2. CallRow(j, n).provider = "cloudflare"
    BY CallRowIs
  <2>3. /\ Seen(e, DD(VisitorRay), "datadome", Bot, {VisitorRay}, BotVerdict(j, n))
        /\ e.readable \intersect Secret = {}
    BY <1>0, <1>3, CallEventIs DEF BotVerdict
  <2>. QED
    BY <1>3, <2>1, <2>2, <2>3 DEF Kind, CallKind
<1>4. CASE r = ExportRecord(j) /\ Bot \in Reaches(j) /\ ViaExport(j)
  <2>1. ExportRecord(j).provider = "datadome"
    BY DEF ExportRecord
  <2>. QED
    BY <1>0, <1>4, <2>1, ExportEventIs DEF Kind, ExportKind, ExportVerdict
<1>5. CASE r = F5Record(j) /\ Waf \in Reaches(j)
  <2>1. F5Record(j).provider = "f5asm"
    BY DEF F5Record
  <2>. QED
    BY <1>0, <1>5, <2>1, WafEventIs DEF Kind, WafKind
<1>6. CASE r = NginxRecord(j) /\ Origin \in Reaches(j)
  <2>1. NginxRecord(j).provider = "nginx"
    BY DEF NginxRecord
  <2>. QED
    BY <1>0, <1>6, <2>1, OriginEventIs DEF Kind, OriginKind
<1>7. \/ r = VisitorRow(j)
      \/ r = FetchRow(j) /\ Waf \in Reaches(j) /\ ViaWorker(j)
      \/ \E n \in DOMAIN j.bot : r = CallRow(j, n) /\ Bot \in Reaches(j) /\ ViaWorker(j)
      \/ r = ExportRecord(j) /\ Bot \in Reaches(j) /\ ViaExport(j)
      \/ r = F5Record(j) /\ Waf \in Reaches(j)
      \/ r = NginxRecord(j) /\ Origin \in Reaches(j)
  BY DEF Records
<1>. QED
  BY <1>1, <1>2, <1>3, <1>4, <1>5, <1>6, <1>7

-----------------------------------------------------------------------------
\* The events that the records of a journey are parsed to.
Made(j) == UNION {Normalize(r) : r \in Records(j)}

\* They are events of the schema, without a secret.
LEMMA MadeIs ==
    ASSUME NEW j \in Journeys, NEW e \in Made(j)
    PROVE  e \in EventType /\ e.readable \intersect Secret = {}
<1>1. PICK r \in Records(j) : e \in Normalize(r)
  BY DEF Made
<1>2. Kind(j, r, e) /\ e.readable \intersect Secret = {}
  BY <1>1, EventIs
<1>. QED
  BY <1>2 DEF Kind, EdgeKind, FetchKind, CallKind, ExportKind, WafKind, OriginKind, Seen

\* The prefixes keep the event ids of different sources apart.
LEMMA IdsDiffer ==
    /\ CF(VisitorRay) # CF(FetchRay)
    /\ DD(VisitorRay) # DD(DataDomeId)
    /\ \A m, n, k, l \in Nat : /\ CF(m) # DD(n) /\ CF(m) # F5(k) /\ CF(m) # NGX(l)
                               /\ DD(n) # F5(k) /\ DD(n) # NGX(l) /\ F5(k) # NGX(l)
  BY DEF CF, DD, F5, NGX, VisitorRay, FetchRay, DataDomeId

\* With one answer of DataDome, the events of a journey have ids of their own.
LEMMA MadeNamed ==
    ASSUME Calls = 1, NEW j \in Journeys
    PROVE  Named(Made(j))
<1>. SUFFICES ASSUME NEW e \in Made(j), NEW f \in Made(j), e.id = f.id
              PROVE  e = f
  BY DEF Named
<1>1. PICK r \in Records(j) : e \in Normalize(r)
  BY DEF Made
<1>2. PICK s \in Records(j) : f \in Normalize(s)
  BY DEF Made
<1>3. Kind(j, r, e) /\ Kind(j, s, f) /\ r.provider \in {"cloudflare", "datadome", "f5asm", "nginx"}
  BY <1>1, <1>2, EventIs
<1>4. Len(j.bot) = 1
  <2>1. Len(j.bot) \in 1..Calls
    BY JourneyIs
  <2>. QED
    BY <2>1
<1>5. /\ CF(VisitorRay) # CF(FetchRay)
      /\ DD(VisitorRay) # DD(DataDomeId)
      /\ CF(VisitorRay) # DD(VisitorRay) /\ CF(VisitorRay) # DD(DataDomeId)
      /\ CF(VisitorRay) # F5(1) /\ CF(VisitorRay) # NGX(1)
      /\ CF(FetchRay) # DD(VisitorRay) /\ CF(FetchRay) # DD(DataDomeId)
      /\ CF(FetchRay) # F5(1) /\ CF(FetchRay) # NGX(1)
      /\ DD(VisitorRay) # F5(1) /\ DD(VisitorRay) # NGX(1)
      /\ DD(DataDomeId) # F5(1) /\ DD(DataDomeId) # NGX(1)
      /\ F5(1) # NGX(1)
  BY IdsDiffer DEF VisitorRay, FetchRay, DataDomeId
<1>6. ASSUME NEW q, NEW d, Kind(j, q, d)
      PROVE  \/ d.id = CF(VisitorRay) /\ q = VisitorRow(j)
             \/ d.id = CF(FetchRay) /\ q = FetchRow(j)
             \/ d.id = DD(VisitorRay) /\ q = CallRow(j, 1)
             \/ d.id = DD(DataDomeId) /\ q = ExportRecord(j)
             \/ d.id = F5(1) /\ q = F5Record(j)
             \/ d.id = NGX(1) /\ q = NginxRecord(j)
  <2>1. CallKind(j, q, d) => q = CallRow(j, 1)
    BY <1>4 DEF CallKind
  <2>. QED
    BY <1>6, <2>1 DEF Kind, EdgeKind, FetchKind, CallKind, ExportKind, WafKind, OriginKind, Seen
<1>7. r = s
  <2>. DEFINE Which(q, d) ==
                \/ d.id = CF(VisitorRay) /\ q = VisitorRow(j)
                \/ d.id = CF(FetchRay) /\ q = FetchRow(j)
                \/ d.id = DD(VisitorRay) /\ q = CallRow(j, 1)
                \/ d.id = DD(DataDomeId) /\ q = ExportRecord(j)
                \/ d.id = F5(1) /\ q = F5Record(j)
                \/ d.id = NGX(1) /\ q = NginxRecord(j)
  <2>1. Which(r, e)
    BY <1>3, <1>6
  <2>2. Which(s, f)
    BY <1>3, <1>6
  <2>3. CASE e.id = CF(VisitorRay)
    BY <1>5, <2>1, <2>2, <2>3
  <2>4. CASE e.id = CF(FetchRay)
    BY <1>5, <2>1, <2>2, <2>4
  <2>5. CASE e.id = DD(VisitorRay)
    BY <1>5, <2>1, <2>2, <2>5
  <2>6. CASE e.id = DD(DataDomeId)
    BY <1>5, <2>1, <2>2, <2>6
  <2>7. CASE e.id = F5(1)
    BY <1>5, <2>1, <2>2, <2>7
  <2>8. CASE e.id = NGX(1)
    BY <1>5, <2>1, <2>2, <2>8
  <2>. QED
    BY <2>1, <2>3, <2>4, <2>5, <2>6, <2>7, <2>8
<1>. QED
  BY <1>1, <1>2, <1>3, <1>7, OneEvent

-----------------------------------------------------------------------------
(* Reading a flow off its events.                                          *)

Opts(bridged) == [expected |-> Layer, method |-> "exact", bridged |-> bridged]
ReadOff(key, events, bridged) == Materialize(key, events, Opts(bridged))

FlowFields ==
    {"key", "events", "method", "bridged", "outcome", "stoppedBy", "missing", "completeness",
     "confidence", "firstSeen", "flags", "amended"}

\* What is read off a flow's events.
Says(f, o) ==
    /\ f.method = "exact"
    /\ f.outcome = Outcome(o) /\ f.stoppedBy = TerminatingLayer(o)
    /\ f.missing = LayersMissing(o, Layer)
    /\ f.completeness = (IF f.missing = {} THEN "complete" ELSE "partial")

\* The fields of a flow that is read off, ...
LEMMA ReadOffIs ==
    ASSUME NEW key, NEW events, NEW bridged
    PROVE  /\ ReadOff(key, events, bridged).key = key
           /\ ReadOff(key, events, bridged).events = OrderEvents(events)
           /\ ReadOff(key, events, bridged).bridged = bridged
           /\ DOMAIN ReadOff(key, events, bridged) = FlowFields
  BY DEF ReadOff, Materialize, Opts, FlowFields

\* ... with what they say, ...
LEMMA ReadOffSays ==
    ASSUME NEW key, NEW events, NEW bridged
    PROVE  Says(ReadOff(key, events, bridged), OrderEvents(events))
<1>. DEFINE opts == Opts(bridged)
            m == ReadOff(key, events, bridged)
            o == OrderEvents(events)
<1>1. opts.expected = Layer /\ opts.method = "exact" /\ opts.bridged = bridged
  BY DEF Opts
<1>. HIDE DEF opts
<1>2. m.method = "exact"
      /\ m.outcome = Outcome(o) /\ m.stoppedBy = TerminatingLayer(o)
      /\ m.missing = LayersMissing(o, Layer)
      /\ m.completeness = (IF m.missing = {} THEN "complete" ELSE "partial")
  BY <1>1 DEF ReadOff, Materialize, opts
<1>. HIDE DEF m
<1>. QED
  BY <1>2 DEF Says, m

\* ... depend on the order of the events only.
LEMMA ReadOffDepends ==
    ASSUME NEW key, NEW s, NEW t, NEW bridged, OrderEvents(s) = OrderEvents(t)
    PROVE  ReadOff(key, s, bridged) = ReadOff(key, t, bridged)
  BY DEF ReadOff, Materialize

\* A flow says what is read off its events.
Faithful(f) ==
    /\ f = [ReadOff(f.key, f.events, f.bridged) EXCEPT !.amended = f.amended]
    /\ f.amended \in BOOLEAN

EventsOK(s) ==
    /\ s \in Seq(EventType) /\ s # << >> /\ Sorted(s)
    /\ ToSet(s) \subseteq Made(journey) /\ Named(ToSet(s))
    /\ \A e \in ToSet(s) : e.ids # {}

\* A faithful flow says what its events do.
LEMMA FaithfulIs ==
    ASSUME NEW f, Faithful(f), EventsOK(f.events)
    PROVE  Says(f, f.events)
<1>. DEFINE m == ReadOff(f.key, f.events, f.bridged)
            x == f.amended
<1>1. f = [m EXCEPT !.amended = x]
  BY DEF Faithful
<1>2. OrderEvents(f.events) = f.events
  BY SortedIsDistinct DEF EventsOK
<1>3. Says(m, f.events) /\ DOMAIN m = FlowFields
  BY <1>2, ReadOffIs, ReadOffSays
<1>. HIDE DEF m
<1>4. f.method = m.method /\ f.outcome = m.outcome /\ f.stoppedBy = m.stoppedBy
      /\ f.missing = m.missing /\ f.completeness = m.completeness
  <2>. DEFINE g == [m EXCEPT !.amended = x]
  <2>1. g.method = m.method /\ g.outcome = m.outcome /\ g.stoppedBy = m.stoppedBy
        /\ g.missing = m.missing /\ g.completeness = m.completeness
    BY <1>3 DEF FlowFields
  <2>. QED
    BY <1>1, <2>1
<1>. QED
  BY <1>3, <1>4 DEF Says

MadeOf(f, key, s, bridged) ==
    Faithful(f) /\ f.key = key /\ f.bridged = bridged /\ f.events = OrderEvents(s)

\* A flow that is made or made again of events in any order.
LEMMA ReadOffFaithful ==
    ASSUME NEW key, NEW s \in Seq(EventType), Distinct(s), NEW bridged, NEW x \in BOOLEAN
    PROVE  MadeOf([ReadOff(key, s, bridged) EXCEPT !.amended = x], key, s, bridged)
<1>. DEFINE m == ReadOff(key, s, bridged)
            f == [m EXCEPT !.amended = x]
            o == OrderEvents(s)
<1>1. m.key = key /\ m.events = o /\ m.bridged = bridged /\ DOMAIN m = FlowFields
  BY ReadOffIs
<1>2. m = ReadOff(key, o, bridged)
  <2>1. o \in Seq(EventType) /\ Sorted(o) /\ Named(ToSet(o))
    <3>1. ToSet(o) = ToSet(s) /\ o \in Seq(EventType) /\ Sorted(o)
      BY OrderSorts
    <3>2. Named(ToSet(s))
      BY DEF Named, ToSet, Distinct
    <3>. QED
      BY <3>1, <3>2
  <2>2. OrderEvents(o) = o
    BY <2>1, SortedIsDistinct
  <2>. QED
    BY <2>2, ReadOffDepends
<1>. HIDE DEF m
<1>3. f.key = key /\ f.bridged = bridged /\ f.events = o /\ f.amended = x
  BY <1>1 DEF FlowFields
<1>4. Faithful(f)
  <2>. HIDE DEF o
  <2>1. ReadOff(f.key, f.events, f.bridged) = m
    BY <1>2, <1>3
  <2>2. [ReadOff(f.key, f.events, f.bridged) EXCEPT !.amended = f.amended] = f
    BY <1>3, <2>1
  <2>. QED
    BY <1>3, <2>2 DEF Faithful
<1>. QED
  BY <1>3, <1>4 DEF m, MadeOf

\* An amended flow is as faithful, and has the late event.
LEMMA AmendIs ==
    ASSUME NEW f, Faithful(f), EventsOK(f.events), journey \in Journeys,
           NEW e \in Made(journey), e.ids # {}
    PROVE  LET g == Amend(f, e)
           IN  /\ Faithful(g) /\ EventsOK(g.events) /\ g.key = f.key
               /\ \/ g = f /\ \E d \in ToSet(f.events) : d.id = e.id
                  \/ ToSet(g.events) = ToSet(f.events) \union {e}
<1>. DEFINE s == Append(f.events, e)
            opts == [expected |-> Layer, method |-> f.method, bridged |-> f.bridged]
<1>0. f.events \in Seq(EventType) /\ e \in EventType
  BY MadeIs DEF EventsOK
<1>1. CASE e.id \in {d.id : d \in ToSet(f.events)}
  BY <1>1 DEF Amend
<1>2. CASE e.id \notin {d.id : d \in ToSet(f.events)}
  <2>. DEFINE g == [ReadOff(f.key, s, f.bridged) EXCEPT !.amended = TRUE]
  <2>1. Amend(f, e) = g
    <3>1. opts = Opts(f.bridged)
      BY FaithfulIs DEF Opts, Says
    <3>. QED
      BY <1>2, <3>1 DEF Amend, ReadOff
  <2>2. s \in Seq(EventType) /\ ToSet(s) = ToSet(f.events) \union {e}
    <3>1. s \in Seq(EventType) /\ DOMAIN s = 1..Len(f.events) + 1 /\ s[Len(f.events) + 1] = e
          /\ \A i \in 1..Len(f.events) : s[i] = f.events[i]
      BY <1>0
    <3>2. DOMAIN f.events = 1..Len(f.events) /\ Len(f.events) \in Nat
      BY <1>0
    <3>3. ASSUME NEW y \in ToSet(s) PROVE y \in ToSet(f.events) \union {e}
      BY <3>1, <3>2, <3>3 DEF ToSet
    <3>4. ASSUME NEW y \in ToSet(f.events) PROVE y \in ToSet(s)
      BY <3>1, <3>2, <3>4 DEF ToSet
    <3>5. e \in ToSet(s)
      BY <3>1, <3>2 DEF ToSet
    <3>. HIDE DEF s
    <3>. QED
      BY <3>1, <3>3, <3>4, <3>5
  <2>3. Distinct(s)
    <3>1. Distinct(f.events)
      BY SortedIsDistinct DEF EventsOK
    <3>2. \A i \in 1..Len(f.events) : f.events[i].id # e.id
      BY <1>0, <1>2 DEF ToSet
    <3>. QED
      BY <1>0, <3>1, <3>2 DEF Distinct
  <2>. HIDE DEF s
  <2>3a. Faithful(g) /\ g.key = f.key /\ g.events = OrderEvents(s)
    <3>1. TRUE \in BOOLEAN
      OBVIOUS
    <3>2. MadeOf(g, f.key, s, f.bridged)
      BY <2>2, <2>3, <3>1, ReadOffFaithful, Zenon
    <3>. QED
      BY <3>2 DEF MadeOf
  <2>. HIDE DEF g
  <2>4. ToSet(g.events) = ToSet(f.events) \union {e} /\ g.events \in Seq(EventType) /\ Sorted(g.events)
    BY <2>2, <2>3, <2>3a, OrderSorts
  <2>5. EventsOK(g.events)
    <3>1. Named(ToSet(g.events))
      BY <1>2, <2>4 DEF EventsOK, Named
    <3>2. g.events # << >>
      BY <2>4 DEF ToSet
    <3>. QED
      BY <2>4, <3>1, <3>2 DEF EventsOK
  <2>. QED
    BY <2>1, <2>3a, <2>4, <2>5
<1>. QED
  BY <1>1, <1>2

-----------------------------------------------------------------------------
(* What is held and what is stored.                                        *)

\* A new flow is not amended.
LEMMA ReadOffFresh ==
    ASSUME NEW key, NEW s, NEW bridged
    PROVE  ReadOff(key, s, bridged) = [ReadOff(key, s, bridged) EXCEPT !.amended = FALSE]
<1>. DEFINE no == FALSE
            m == ReadOff(key, s, bridged)
<1>1. \E a, b, c, d, e, f, g, h, i, j, k :
         m = [key |-> a, events |-> b, method |-> c, bridged |-> d, outcome |-> e,
              stoppedBy |-> f, missing |-> g, completeness |-> h, confidence |-> i,
              firstSeen |-> j, flags |-> k, amended |-> no]
  BY ZenonT(60) DEF ReadOff, Materialize
<1>. HIDE DEF no, m
<1>2. m = [m EXCEPT !.amended = no]
  <2>1. PICK a, b, c, d, e, f, g, h, i, j, k :
         m = [key |-> a, events |-> b, method |-> c, bridged |-> d, outcome |-> e,
              stoppedBy |-> f, missing |-> g, completeness |-> h, confidence |-> i,
              firstSeen |-> j, flags |-> k, amended |-> no]
    BY <1>1
  <2>. QED
    BY <2>1
<1>. QED
  BY <1>2 DEF no, m

\* Reverse lists the same elements.
LEMMA ReverseLists ==
    ASSUME NEW s \in Seq(EventType)
    PROVE  /\ Reverse(s) \in Seq(EventType) /\ ToSet(Reverse(s)) = ToSet(s)
           /\ Distinct(s) => Distinct(Reverse(s))
<1>. DEFINE n == Len(s)
            r == [i \in 1..n |-> s[(n - i) + 1]]
<1>1. Reverse(s) = r
  BY DEF Reverse
<1>2. n \in Nat /\ DOMAIN s = 1..n /\ \A i \in 1..n : (n - i) + 1 \in 1..n
  OBVIOUS
<1>3. r \in Seq(EventType) /\ Len(r) = n /\ DOMAIN r = 1..n
  BY <1>2
<1>4. \A i \in 1..n : r[i] = s[(n - i) + 1] /\ s[i] = r[(n - i) + 1]
  BY <1>2
<1>. HIDE DEF r
<1>5. ToSet(r) = ToSet(s)
  <2>1. \A i \in 1..n : \E k \in 1..n : r[i] = s[k]
    BY <1>2, <1>4
  <2>2. \A i \in 1..n : \E k \in 1..n : s[i] = r[k]
    BY <1>2, <1>4
  <2>3. ToSet(r) = {r[i] : i \in 1..n} /\ ToSet(s) = {s[i] : i \in 1..n}
    BY <1>2, <1>3 DEF ToSet
  <2>. HIDE DEF n
  <2>. QED
    BY <2>1, <2>2, <2>3
<1>6. Distinct(s) => Distinct(r)
  <2>. SUFFICES ASSUME Distinct(s), NEW i \in 1..n, NEW j \in 1..n, r[i].id = r[j].id
                PROVE  i = j
    BY <1>3 DEF Distinct
  <2>1. s[(n - i) + 1].id = s[(n - j) + 1].id
    BY <1>4
  <2>2. (n - i) + 1 = (n - j) + 1
    BY <1>2, <2>1 DEF Distinct
  <2>. QED
    BY <1>2, <2>2
<1>. QED
  BY <1>1, <1>3, <1>5, <1>6

\* ByKey lists events with different ids.
LEMMA ByKeyDistinct ==
    ASSUME NEW S, IsFiniteSet(S), S \subseteq EventType, Named(S)
    PROVE  ByKey(S) \in Seq(EventType) /\ Distinct(ByKey(S)) /\ ToSet(ByKey(S)) = S
<1>1. /\ ByKey(S) \in Seq(S) /\ ToSet(ByKey(S)) = S
      /\ \A i, j \in 1..Len(ByKey(S)) : ByKey(S)[i] = ByKey(S)[j] => i = j
  BY ByKeyLists
<1>2. ByKey(S) \in Seq(EventType)
  BY <1>1
<1>3. \A i, j \in 1..Len(ByKey(S)) : ByKey(S)[i].id = ByKey(S)[j].id => ByKey(S)[i] = ByKey(S)[j]
  <2>1. \A i \in 1..Len(ByKey(S)) : ByKey(S)[i] \in S
    BY <1>1
  <2>. QED
    BY <2>1 DEF Named
<1>. QED
  BY <1>1, <1>2, <1>3 DEF Distinct

\* So does either order of arrival.
LEMMA ArrivalsAre ==
    ASSUME NEW S, IsFiniteSet(S), S \subseteq EventType, Named(S), NEW s \in Arrivals(S)
    PROVE  s \in Seq(EventType) /\ Distinct(s) /\ ToSet(s) = S
  BY ByKeyDistinct, ReverseLists DEF Arrivals

Keyed(records) == {e \in ToSet(records) : e.ids # {}}
RootIn(records, e) == Find(Forest(records), SmallestOf(e.ids))

\* The components that Exact makes.
LEMMA ExactIs ==
    ASSUME NEW records, NEW c
    PROVE  c \in Exact(records) <=>
             \E e \in Keyed(records) :
                c = Component({f \in Keyed(records) : RootIn(records, f) = RootIn(records, e)})
  BY DEF Exact, Keyed, RootIn

\* They are of the records, and none is empty.
LEMMA ExactMembers ==
    ASSUME NEW records, NEW c \in Exact(records)
    PROVE  /\ c.events \subseteq Keyed(records) /\ c.events # {}
           /\ c = Component(c.events)
<1>1. PICK e \in Keyed(records) :
         c = Component({f \in Keyed(records) : RootIn(records, f) = RootIn(records, e)})
  BY ExactIs
<1>2. c.events = {f \in Keyed(records) : RootIn(records, f) = RootIn(records, e)}
  BY <1>1 DEF Component
<1>. QED
  BY <1>1, <1>2

-----------------------------------------------------------------------------
HeldOK ==
    /\ journey \in Journeys
    /\ IsFiniteSet(open) /\ Named(open)
    /\ open \union loose \subseteq Made(journey)
    /\ \A e \in open : e.ids # {}
    /\ \A e \in loose : e.ids = {}
    /\ dead \subseteq Records(journey) /\ delivered \subseteq Records(journey)

FlowsOK ==
    /\ \A f \in flows : Faithful(f) /\ EventsOK(f.events)
    /\ \A f, g \in flows : f.key = g.key => f = g
    /\ early \subseteq {f.key : f \in flows}

BaseInv == HeldOK /\ FlowsOK

\* The invariant holds at first, ...
LEMMA BaseInit == Init => BaseInv
<1>. SUFFICES ASSUME Init PROVE BaseInv
  OBVIOUS
<1>1. IsFiniteSet({})
  BY FS_EmptySet
<1>. QED
  BY <1>1 DEF Init, BaseInv, HeldOK, FlowsOK, Named

\* What is said of events does not change.
LEMMA EventsStay ==
    ASSUME NEW s, EventsOK(s), journey' = journey
    PROVE  EventsOK(s)'
  BY DEF EventsOK

\* ... is kept by an event that waits, ...
LEMMA AcceptKeeps ==
    ASSUME BaseInv, NEW r \in Records(journey), NEW e \in Normalize(r), Accept(e),
           delivered' = delivered \union {r}, UNCHANGED <<dead, journey, early>>
    PROVE  BaseInv'
<1>1. e \in Made(journey) /\ e \in EventType
  BY MadeIs DEF Made, BaseInv, HeldOK
<1>2. HeldOK'
  <2>1. open' \in {open, open \union {e}} /\ loose' \in {loose, loose \union {e}}
        /\ (open' # open => e.ids # {} /\ \A d \in open : d.id # e.id)
        /\ (loose' # loose => e.ids = {})
    BY DEF Accept, Held
  <2>2. IsFiniteSet(open') /\ Named(open')
    <3>1. IsFiniteSet(open \union {e})
      BY FS_AddElement DEF BaseInv, HeldOK
    <3>. QED
      BY <2>1, <3>1 DEF BaseInv, HeldOK, Named
  <2>. QED
    BY <1>1, <2>1, <2>2 DEF BaseInv, HeldOK
<1>3. FlowsOK'
  <2>1. flows' = flows /\ early' = early
    BY DEF Accept
  <2>. QED
    BY <2>1, EventsStay DEF BaseInv, FlowsOK
<1>. QED
  BY <1>2, <1>3 DEF BaseInv

\* ... by one that amends a flow, ...
LEMMA AcceptLateKeeps ==
    ASSUME BaseInv, NEW r \in Records(journey), NEW e \in Normalize(r), AcceptLate(e),
           delivered' = delivered \union {r}, UNCHANGED <<dead, journey, early>>
    PROVE  BaseInv'
<1>1. e \in Made(journey) /\ journey \in Journeys
  BY DEF Made, BaseInv, HeldOK
<1>2. HeldOK'
  BY DEF AcceptLate, BaseInv, HeldOK
<1>3. PICK f \in flows : f.key \in e.ids /\ flows' = (flows \ {f}) \union {Amend(f, e)}
  BY DEF AcceptLate
<1>4. Faithful(Amend(f, e)) /\ EventsOK(Amend(f, e).events) /\ Amend(f, e).key = f.key
  <2>1. Faithful(f) /\ EventsOK(f.events)
    BY DEF BaseInv, FlowsOK
  <2>2. e.ids # {}
    BY <1>3
  <2>. QED
    BY <1>1, <2>1, <2>2, AmendIs
<1>5. \A g \in flows' : g = Amend(f, e) \/ (g \in flows /\ g # f)
  BY <1>3
<1>6. \A g \in flows : g # f => g.key # f.key
  BY DEF BaseInv, FlowsOK
<1>7. FlowsOK'
  <2>1. \A g \in flows' : Faithful(g) /\ EventsOK(g.events)
    BY <1>4, <1>5 DEF BaseInv, FlowsOK
  <2>2. \A g \in flows' : Faithful(g)' /\ EventsOK(g.events)'
    BY <2>1, EventsStay DEF Faithful
  <2>3. \A g, h \in flows' : g.key = h.key => g = h
    BY <1>4, <1>5, <1>6 DEF BaseInv, FlowsOK
  <2>4. \A g \in flows : \E h \in flows' : h.key = g.key
    BY <1>3, <1>4
  <2>. HIDE DEF Faithful
  <2>. QED
    BY <2>2, <2>3, <2>4 DEF BaseInv, FlowsOK
<1>. QED
  BY <1>2, <1>7 DEF BaseInv

\* ... so by every delivery, ...
LEMMA DeliverKeeps ==
    ASSUME BaseInv, NEW r \in Records(journey), Deliver(r)
    PROVE  BaseInv'
<1>1. CASE Normalize(r) = {} /\ dead' = dead \union {r} /\ UNCHANGED <<open, loose, flows>>
  BY <1>1, EventsStay DEF Deliver, BaseInv, HeldOK, FlowsOK
<1>2. CASE (\E e \in Normalize(r) : Accept(e) \/ AcceptLate(e)) /\ UNCHANGED dead
  BY <1>2, AcceptKeeps, AcceptLateKeeps DEF Deliver
<1>. QED
  BY <1>1, <1>2 DEF Deliver

\* What a window that closes comes to.
LEMMA FlowIs ==
    ASSUME BaseInv, NEW c \in Exact(ByKey(open)), NEW arrived \in Arrivals(c.events)
    PROVE  /\ c.events \subseteq open /\ c.events # {}
           /\ Faithful(Flow(c, arrived)) /\ EventsOK(Flow(c, arrived).events)
           /\ Flow(c, arrived).key = c.key
           /\ ToSet(Flow(c, arrived).events) = c.events
<1>1. IsFiniteSet(open) /\ open \subseteq EventType /\ Named(open) /\ open \subseteq Made(journey)
      /\ \A e \in open : e.ids # {}
  BY MadeIs DEF BaseInv, HeldOK
<1>2. c.events \subseteq open /\ c.events # {}
  BY <1>1, ExactMembers, ByKeyDistinct DEF Keyed
<1>3. IsFiniteSet(c.events) /\ c.events \subseteq EventType /\ Named(c.events)
  BY <1>1, <1>2, FS_Subset DEF Named
<1>4. arrived \in Seq(EventType) /\ Distinct(arrived) /\ ToSet(arrived) = c.events
  BY <1>3, ArrivalsAre
<1>. DEFINE f == Flow(c, arrived)
<1>5. f = [ReadOff(c.key, arrived, c.bridged) EXCEPT !.amended = FALSE]
  <2>1. f = ReadOff(c.key, arrived, c.bridged)
    BY DEF Flow, ReadOff, Opts
  <2>. QED
    BY <2>1, ReadOffFresh
<1>6. Faithful(f) /\ f.key = c.key /\ f.events = OrderEvents(arrived)
  <2>1. FALSE \in BOOLEAN
    OBVIOUS
  <2>. DEFINE g == [ReadOff(c.key, arrived, c.bridged) EXCEPT !.amended = FALSE]
  <2>2. MadeOf(g, c.key, arrived, c.bridged)
    BY <1>4, <2>1, ReadOffFaithful, Zenon
  <2>. HIDE DEF f, g
  <2>3. f = g
    BY <1>5 DEF g
  <2>. QED
    BY <2>2, <2>3 DEF MadeOf
<1>. HIDE DEF f
<1>7. f.events \in Seq(EventType) /\ ToSet(f.events) = c.events /\ Sorted(f.events)
  BY <1>4, <1>6, OrderSorts
<1>8. f.events # << >>
  BY <1>2, <1>7 DEF ToSet
<1>9. EventsOK(f.events)
  BY <1>1, <1>2, <1>3, <1>7, <1>8 DEF EventsOK
<1>. QED
  BY <1>2, <1>6, <1>7, <1>9 DEF f

\* ... and by a window that closes.
LEMMA CloseKeeps ==
    ASSUME BaseInv, NEW c \in Exact(ByKey(open)), Close(c)
    PROVE  BaseInv'
<1>1. PICK arrived \in Arrivals(c.events) : flows' = flows \union {Flow(c, arrived)}
  BY DEF Close
<1>2. /\ c.events \subseteq open
      /\ Faithful(Flow(c, arrived)) /\ EventsOK(Flow(c, arrived).events)
      /\ Flow(c, arrived).key = c.key
  BY FlowIs
<1>3. open' \subseteq open /\ UNCHANGED <<loose, dead, journey, delivered>>
      /\ (early' = early \/ early' = early \union {c.key}) /\ ~\E f \in flows : f.key = c.key
  BY DEF Close
<1>4. HeldOK'
  <2>1. IsFiniteSet(open') /\ Named(open')
    BY <1>3, FS_Subset DEF BaseInv, HeldOK, Named
  <2>. QED
    BY <1>3, <2>1 DEF BaseInv, HeldOK
<1>. DEFINE new == Flow(c, arrived)
<1>. HIDE DEF new
<1>5. FlowsOK'
  <2>1. flows' = flows \union {new} /\ Faithful(new) /\ EventsOK(new.events) /\ new.key = c.key
    BY <1>1, <1>2 DEF new
  <2>2. \A g \in flows' : Faithful(g) /\ EventsOK(g.events)
    BY <2>1 DEF BaseInv, FlowsOK
  <2>3. \A g \in flows' : Faithful(g)' /\ EventsOK(g.events)'
    BY <1>3, <2>2, EventsStay DEF Faithful
  <2>4. \A g, h \in flows' : g.key = h.key => g = h
    BY <1>3, <2>1 DEF BaseInv, FlowsOK
  <2>5. early' \subseteq {f.key : f \in flows'}
    BY <1>3, <2>1 DEF BaseInv, FlowsOK
  <2>. QED
    BY <2>3, <2>4, <2>5 DEF FlowsOK
<1>. QED
  BY <1>4, <1>5 DEF BaseInv

\* Every step keeps it.
LEMMA BaseStep == BaseInv /\ [Next]_vars => BaseInv'
<1>. SUFFICES ASSUME BaseInv, [Next]_vars PROVE BaseInv'
  OBVIOUS
<1>1. CASE \E r \in Records(journey) : Deliver(r)
  BY <1>1, DeliverKeeps
<1>2. CASE \E c \in Exact(ByKey(open)) : Close(c)
  BY <1>2, CloseKeeps
<1>3. CASE UNCHANGED vars
  BY <1>3, EventsStay DEF vars, BaseInv, HeldOK, FlowsOK
<1>. QED
  BY <1>1, <1>2, <1>3 DEF Next

\* It holds always.
LEMMA BaseHolds == Spec => []BaseInv
  BY BaseInit, BaseStep, PTL DEF Spec

\* Whatever arrives in whatever order, what is kept of it is an event of the schema and
\* shows no secret header, and no two flows have one key (JourneyTypeOK).  For any
\* answers, clocks, captures, deployments and numbers of calls.
THEOREM JourneyTypes == Spec => []JourneyTypeOK
<1>1. BaseInv => JourneyTypeOK
  <2>. SUFFICES ASSUME BaseInv PROVE JourneyTypeOK
    OBVIOUS
  <2>1. Parsed \union loose \subseteq Made(journey)
    BY DEF Parsed, EventsOf, BaseInv, HeldOK, FlowsOK, EventsOK
  <2>2. \A e \in Parsed \union loose : e \in EventType /\ e.readable \intersect Secret = {}
    BY <2>1, MadeIs DEF BaseInv, HeldOK
  <2>. QED
    BY <2>2 DEF JourneyTypeOK, BaseInv, HeldOK, FlowsOK
<1>. QED
  BY <1>1, BaseHolds, PTL

\* A flow is what Materialize makes of its events in any order, after any amendments
\* (SameFlowWhateverOrder): it is Faithful, and its events are sorted by a strict order.
THEOREM OrderDoesNotMatter == Spec => []SameFlowWhateverOrder
<1>1. BaseInv => SameFlowWhateverOrder
  <2>. SUFFICES ASSUME BaseInv, NEW f \in flows
                PROVE  f = [Materialize(f.key, ByKey(EventsOf(f)),
                              [expected |-> Layer, method |-> f.method, bridged |-> f.bridged])
                              EXCEPT !.amended = f.amended]
    BY Zenon DEF SameFlowWhateverOrder
  <2>1. Faithful(f) /\ EventsOK(f.events)
    BY DEF BaseInv, FlowsOK
  <2>. DEFINE S == EventsOf(f)
              b == ByKey(S)
  <2>2. S \subseteq EventType /\ Named(S) /\ IsFiniteSet(S)
    <3>1. S = {f.events[i] : i \in DOMAIN f.events}
      BY DEF EventsOf, ToSet
    <3>2. f.events \in Seq(EventType) /\ DOMAIN f.events = 1..Len(f.events) /\ Len(f.events) \in Nat
      BY <2>1 DEF EventsOK
    <3>3. IsFiniteSet(DOMAIN f.events)
      BY <3>2, FS_Interval
    <3>4. IsFiniteSet(S)
      <4>1. f.events \in Surjection(DOMAIN f.events, S)
        BY <3>1, <3>2 DEF Surjection
      <4>. QED
        BY <3>3, <4>1, FS_Surjection
    <3>5. Named(S)
      BY <2>1 DEF EventsOK, EventsOf
    <3>. QED
      BY <3>1, <3>2, <3>4, <3>5
  <2>3. b \in Seq(EventType) /\ Distinct(b) /\ ToSet(b) = S
    BY <2>2, ByKeyDistinct
  <2>4. OrderEvents(b) = f.events /\ OrderEvents(f.events) = f.events
    <3>1. OrderEvents(b) \in Seq(EventType) /\ Sorted(OrderEvents(b)) /\ ToSet(OrderEvents(b)) = S
      BY <2>3, OrderSorts
    <3>2. f.events \in Seq(EventType) /\ Sorted(f.events) /\ ToSet(f.events) = S /\ Named(ToSet(f.events))
      BY <2>1 DEF EventsOK, EventsOf
    <3>. QED
      BY <3>1, <3>2, SortedIsUnique, SortedIsDistinct
  <2>5. ReadOff(f.key, b, f.bridged) = ReadOff(f.key, f.events, f.bridged)
    BY <2>4, ReadOffDepends
  <2>6. [expected |-> Layer, method |-> f.method, bridged |-> f.bridged] = Opts(f.bridged)
    BY <2>1, FaithfulIs DEF Opts, Says
  <2>. HIDE DEF b
  <2>7. Materialize(f.key, b, [expected |-> Layer, method |-> f.method, bridged |-> f.bridged])
          = ReadOff(f.key, f.events, f.bridged)
    BY <2>5, <2>6 DEF ReadOff
  <2>. QED
    BY <2>1, <2>7 DEF Faithful, b
<1>. QED
  BY <1>1, BaseHolds, PTL

-----------------------------------------------------------------------------
(* The heuristic tier.                                                     *)

\* SmallestOf, on integers that are bounded from below.
LEMMA SmallestExists ==
    ASSUME NEW T, T \subseteq Int, NEW low \in Int, \A u \in T : low <= u, T # {}
    PROVE  SmallestOf(T) \in T /\ \A u \in T : SmallestOf(T) <= u
<1>. DEFINE N == {n \in Nat : low + n \in T}
<1>1. N \subseteq Nat /\ N # {}
  <2>1. PICK u \in T : TRUE
    OBVIOUS
  <2>2. u - low \in Nat /\ low + (u - low) = u
    BY <2>1
  <2>. QED
    BY <2>1, <2>2
<1>2. PICK n \in N : \A m \in N : n <= m
  <2>. HIDE DEF N
  <2>. QED
    BY <1>1, LeastElement
<1>3. low + n \in T /\ n \in Nat
  OBVIOUS
<1>4. ASSUME NEW y \in T PROVE low + n <= y
  <2>1. y \in Int /\ low <= y
    OBVIOUS
  <2>2. y - low \in Nat /\ low + (y - low) = y
    BY <2>1
  <2>3. y - low \in N
    BY <2>2
  <2>4. n <= y - low
    BY <1>2, <2>3
  <2>. QED
    BY <1>3, <2>1, <2>4
<1>. QED
  BY <1>3, <1>4 DEF SmallestOf

\* The next time in a bucket comes no later than any other time behind.
LEMMA NextTime ==
    ASSUME NEW times, times \subseteq Int, NEW t \in Int, NEW u \in times, u > t
    PROVE  /\ SmallestOf({v \in times : v > t}) \in Int
           /\ SmallestOf({v \in times : v > t}) <= u
<1>. DEFINE T == {v \in times : v > t}
<1>a. \A v \in T : v \in times /\ v > t
  OBVIOUS
<1>b. u \in T
  OBVIOUS
<1>1. T \subseteq Int /\ u \in T /\ \A v \in T : t <= v
  <2>. HIDE DEF T
  <2>1. \A v \in T : v \in Int
    BY <1>a
  <2>. QED
    BY <1>a, <1>b, <2>1
<1>. HIDE DEF T
<1>2. SmallestOf(T) \in T /\ \A v \in T : SmallestOf(T) <= v
  BY <1>1, SmallestExists
<1>. QED
  BY <1>1, <1>2 DEF T

\* A run goes on to an event within the window of one of its events.
LEMMA RunGoesOn ==
    ASSUME NEW bucket, \A x \in bucket : x.time \in Int, NEW W \in Int,
           NEW e \in bucket, NEW g \in bucket, NEW f \in bucket,
           SameRun(bucket, e, g, W), g.time - f.time <= W, f.time - g.time <= W
    PROVE  SameRun(bucket, e, f, W)
<1>. DEFINE times == {x.time : x \in bucket}
            After(t) == SmallestOf({u \in times : u > t})
<1>1. times \subseteq Int /\ e.time \in times /\ f.time \in times /\ g.time \in times
  OBVIOUS
<1>2. SameRun(bucket, e, g, W) =
        (\A t \in times : (IF e.time < g.time THEN e.time ELSE g.time) <= t
                          /\ t < (IF e.time < g.time THEN g.time ELSE e.time) => After(t) - t <= W)
  BY DEF SameRun
<1>3. SameRun(bucket, e, f, W) =
        (\A t \in times : (IF e.time < f.time THEN e.time ELSE f.time) <= t
                          /\ t < (IF e.time < f.time THEN f.time ELSE e.time) => After(t) - t <= W)
  BY DEF SameRun
<1>. HIDE DEF times
<1>4. \A t \in times, u \in times : t < u => After(t) \in Int /\ After(t) <= u
  BY <1>1, NextTime
<1>. HIDE DEF After
<1>5. SUFFICES ASSUME NEW t \in times,
                      (IF e.time < f.time THEN e.time ELSE f.time) <= t,
                      t < (IF e.time < f.time THEN f.time ELSE e.time)
               PROVE  After(t) - t <= W
  BY <1>3
<1>6. CASE (IF e.time < g.time THEN e.time ELSE g.time) <= t
           /\ t < (IF e.time < g.time THEN g.time ELSE e.time)
  BY <1>2, <1>6
<1>7. CASE /\ (IF f.time < g.time THEN f.time ELSE g.time) <= t
           /\ t < (IF f.time < g.time THEN g.time ELSE f.time)
  <2>1. \E u \in times : t < u /\ u - t <= W
    BY <1>1, <1>7
  <2>. QED
    BY <1>1, <1>4, <2>1
<1>. QED
  BY <1>1, <1>5, <1>6, <1>7

\* A record that would make a cluster ambiguous is further away than the window.
LEMMA NoGuess ==
    ASSUME NEW R, R \subseteq EventType, NEW W \in Int, NEW cluster \in Heuristic(R, W),
           NEW f \in R, Joinable(f), NEW e \in cluster, e # f, e.provider = f.provider,
           NEW g \in cluster
    PROVE  g.time - f.time > W \/ f.time - g.time > W
<1>. DEFINE joinable == {x \in R : Joinable(x)}
            B(a) == {x \in joinable : x.attributes = a}
<1>a. PICK a \in {x.attributes : x \in joinable} : cluster \in Clusters(B(a), W)
  <2>1. cluster \in UNION {Clusters(b, W) : b \in {B(a) : a \in {x.attributes : x \in joinable}}}
    BY DEF Heuristic
  <2>. QED
    BY <2>1
<1>1. PICK m \in B(a) : cluster = {x \in B(a) : SameRun(B(a), m, x, W)}
  BY <1>a DEF Clusters
<1>2. ~ TwoFromOneProvider(cluster)
  BY DEF Heuristic
<1>3. \A x \in R : x.time \in Int /\ x.attributes \in {0, 1}
  BY DEF EventType
<1>4. \A x \in joinable : x \in R /\ x.attributes = 1
  BY <1>3 DEF Joinable
<1>5. f \in B(a) /\ g \in B(a) /\ SameRun(B(a), m, g, W) /\ \A x \in B(a) : x.time \in Int
  BY <1>1, <1>3, <1>4
<1>6. f \notin cluster
  BY <1>2 DEF TwoFromOneProvider
<1>7. ~ SameRun(B(a), m, f, W)
  BY <1>1, <1>5, <1>6
<1>. HIDE DEF B
<1>8. ~ (g.time - f.time <= W /\ f.time - g.time <= W)
  BY <1>1, <1>5, <1>7, RunGoesOn
<1>. QED
  BY <1>5, <1>8

\* The heuristic tier joins no record while another one of its provider is within the
\* window of any of the cluster (NeverGuesses): clusterByTime would have put both into
\* one run, and the run would have been left unjoined.
THEOREM NoGuesses == Spec => []NeverGuesses
<1>1. BaseInv => NeverGuesses
  <2>. SUFFICES ASSUME BaseInv PROVE NeverGuesses
    OBVIOUS
  <2>1. loose \union Stranger \subseteq EventType /\ JoinWindow \in Int
    BY MadeIs, JourneyAssumption DEF BaseInv, HeldOK
  <2>. QED
    BY <2>1, NoGuess DEF NeverGuesses
<1>. QED
  BY <1>1, BaseHolds, PTL

-----------------------------------------------------------------------------
(* The verdict on a request.                                               *)

\* What the searches of resolveOutcome and Analyse find.
LEMMA FirstStopIs ==
    ASSUME NEW T, NEW s \in Seq(T)
    PROVE  LET n == FirstStop(s)
           IN  \/ n = 0 /\ \A k \in 1..Len(s) : ~ s[k].terminating
               \/ /\ n \in 1..Len(s) /\ s[n].terminating
                  /\ \A k \in 1..Len(s) : s[k].terminating => n <= k
<1>. DEFINE I == {i \in 1..Len(s) : s[i].terminating}
<1>1. I \subseteq Nat /\ FirstStop(s) = IF I # {} THEN Min(I) ELSE 0
  BY DEF FirstStop, SelectInSeq
<1>2. I # {} => Min(I) \in I /\ \A k \in I : Min(I) <= k
  <2>. HIDE DEF I
  <2>. QED
    BY <1>1, LeastElement DEF Min
<1>. QED
  BY <1>1, <1>2

LEMMA AllowedIs ==
    ASSUME NEW T, NEW s \in Seq(T)
    PROVE  LET n == Allowed(s)
           IN  \/ n = 0 /\ \A k \in 1..Len(s) : s[k].action # "allowed"
               \/ /\ n \in 1..Len(s) /\ s[n].action = "allowed"
                  /\ \A k \in 1..Len(s) : s[k].action = "allowed" => n <= k
<1>. DEFINE I == {i \in 1..Len(s) : s[i].action = "allowed"}
<1>1. I \subseteq Nat /\ Allowed(s) = IF I # {} THEN Min(I) ELSE 0
  BY DEF Allowed, SelectInSeq
<1>2. I # {} => Min(I) \in I /\ \A k \in I : Min(I) <= k
  <2>. HIDE DEF I
  <2>. QED
    BY <1>1, LeastElement DEF Min
<1>. QED
  BY <1>1, <1>2

LEMMA BlockedIs ==
    ASSUME NEW T, NEW s \in Seq(T)
    PROVE  LET n == Blocked(s)
           IN  \/ n = 0 /\ \A k \in 1..Len(s) : s[k].action \notin {"blocked", "challenge_failed"}
               \/ /\ n \in 1..Len(s) /\ s[n].action \in {"blocked", "challenge_failed"}
                  /\ \A k \in 1..Len(s) : s[k].action \in {"blocked", "challenge_failed"} => n <= k
<1>. DEFINE I == {i \in 1..Len(s) : s[i].action \in {"blocked", "challenge_failed"}}
<1>1. I \subseteq Nat /\ Blocked(s) = IF I # {} THEN Min(I) ELSE 0
  BY DEF Blocked, SelectInSeq
<1>2. I # {} => Min(I) \in I /\ \A k \in I : Min(I) <= k
  <2>. HIDE DEF I
  <2>. QED
    BY <1>1, LeastElement DEF Min
<1>. QED
  BY <1>1, <1>2

LEMMA FirstOfLayerIs ==
    ASSUME NEW T, NEW s \in Seq(T), NEW i \in 1..Len(s)
    PROVE  LET n == FirstOfLayer(s, i)
           IN  n \in 1..Len(s) /\ s[n].layer = s[i].layer /\ n <= i
<1>. DEFINE I == {k \in 1..Len(s) : s[k].layer = s[i].layer}
<1>1. I \subseteq Nat /\ i \in I /\ FirstOfLayer(s, i) = IF I # {} THEN Min(I) ELSE 0
  BY DEF FirstOfLayer, SelectInSeq
<1>2. Min(I) \in I /\ \A k \in I : Min(I) <= k
  <2>. HIDE DEF I
  <2>. QED
    BY <1>1, LeastElement DEF Min
<1>. QED
  BY <1>1, <1>2

-----------------------------------------------------------------------------
\* One layer gives one verdict: DataDome is asked once, over one channel.
OneVerdict == Calls = 1 /\ "both" \notin Deployment

\* What the way of a request and the verdicts on it have to do with each other.
LEMMA ReachesIs ==
    ASSUME NEW j
    PROVE  /\ Reaches(j) \in {{Edge}, {Edge, Bot}, {Edge, Bot, Waf}, Layer}
           /\ Bot \in Reaches(j) => PassesEdge(j)
           /\ Waf \in Reaches(j) => PassesEdge(j) /\ LetThrough(j)
           /\ Origin \in Reaches(j) => Reaches(j) = Layer
           /\ Waf \in Reaches(j) /\ Origin \notin Reaches(j) => Reaches(j) = {Edge, Bot, Waf}
  BY DEF Reaches, Layer, Edge, Bot, Waf, Origin

\* The layer that stopped the request is one that it reached, and the last if it is not
\* the WAF.
LEMMA StoppedAtIs ==
    ASSUME NEW j
    PROVE  /\ StoppedAt(j) \in Layer \union {Nowhere} /\ StoppedAt(j) # Origin
           /\ StoppedAt(j) = Edge <=> CloudflareVerdict(j.edge).terminating
           /\ PassesEdge(j) => ~ CloudflareVerdict(j.edge).terminating
           /\ StoppedAt(j) # Nowhere => StoppedAt(j) \in Reaches(j)
           /\ StoppedAt(j) = Edge => Reaches(j) = {Edge}
           /\ StoppedAt(j) = Bot => Reaches(j) = {Edge, Bot}
<1>1. CloudflareVerdict(j.edge).terminating \in BOOLEAN
      /\ (CloudflareVerdict(j.edge).terminating <=> CloudflareVerdict(j.edge).action \in Terminal)
  BY CloudflareVerdictOK DEF VerdictOK
<1>2. PassesEdge(j) => CloudflareVerdict(j.edge).action \notin Terminal
  BY DEF PassesEdge
<1>3. PassesEdge(j) => ~ CloudflareVerdict(j.edge).terminating
  BY <1>1, <1>2
<1>4. ~ PassesEdge(j) => Reaches(j) = {Edge}
  BY DEF Reaches
<1>. QED
  BY <1>1, <1>3, <1>4, ReachesIs DEF StoppedAt, Layer, Edge, Bot, Waf, Origin, Nowhere

\* What an event says of the journey.
TellsTrue(j, e) ==
    /\ e.layer \in Reaches(j) /\ e.layer \in Layer
    /\ e.terminating <=> e.layer = StoppedAt(j)
    /\ e.action \in {"blocked", "challenge_failed"} /\ e.layer # Origin => e.terminating
    /\ e.layer = Edge => Waf \in Reaches(j) \/ e.cacheHit = j.edge.cacheHit

\* A verdict that blocks ends the request, but at the origin.
LEMMA Ends ==
    ASSUME NEW e, NEW id, NEW p, NEW l, NEW ids, NEW v, Seen(e, id, p, l, ids, v), VerdictOK(v)
    PROVE  /\ e.layer = l /\ e.terminating \in BOOLEAN /\ (e.terminating <=> v.terminating)
           /\ e.action \in {"blocked", "challenge_failed"} => e.terminating
<1>1. e.layer = l /\ e.terminating = v.terminating /\ e.action = v.action
      /\ v.terminating \in BOOLEAN /\ (v.terminating <=> v.action \in Terminal)
  BY DEF Seen, VerdictOK
<1>. QED
  BY <1>1 DEF Terminal

\* With one verdict for each layer, every record tells what happened.
LEMMA TellsTrueIs ==
    ASSUME OneVerdict, NEW j \in Journeys, NEW r, NEW e, Kind(j, r, e)
    PROVE  TellsTrue(j, e)
<1>0. /\ Len(j.bot) = 1 /\ j.deployment # "both"
      /\ j.waf \in STRING
  <2>1. Len(j.bot) \in 1..Calls /\ j.deployment \in Deployment
    BY JourneyIs
  <2>. QED
    BY <2>1, JourneyIs DEF OneVerdict
<1>1. CASE EdgeKind(j, r, e)
  <2>1. e.layer = Edge /\ e.terminating \in BOOLEAN
        /\ (e.terminating <=> CloudflareVerdict(j.edge).terminating)
        /\ (e.action \in {"blocked", "challenge_failed"} => e.terminating)
        /\ e.cacheHit = j.edge.cacheHit
    BY <1>1, CloudflareVerdictOK, Ends DEF EdgeKind
  <2>. QED
    BY <2>1, StoppedAtIs, ReachesIs DEF TellsTrue, Layer, Edge, Bot, Waf, Origin
<1>2. CASE FetchKind(j, r, e)
  <2>1. VerdictOK(Decided("allowed")) /\ ~ Decided("allowed").terminating
    BY DecidedOK, DecidedIs DEF Action, Terminal
  <2>2. e.layer = Edge /\ e.terminating \in BOOLEAN /\ ~ e.terminating
        /\ (e.action \in {"blocked", "challenge_failed"} => e.terminating)
        /\ Waf \in Reaches(j)
    BY <1>2, <2>1, Ends DEF FetchKind
  <2>. QED
    BY <2>2, StoppedAtIs, ReachesIs DEF TellsTrue, Layer, Edge, Bot, Waf, Origin
<1>3. CASE CallKind(j, r, e)
  <2>1. /\ Bot \in Reaches(j) /\ ViaWorker(j)
        /\ Seen(e, DD(VisitorRay), "datadome", Bot, {VisitorRay}, BotVerdict(j, 1))
    BY <1>0, <1>3 DEF CallKind
  <2>2. VerdictOK(BotVerdict(j, 1)) /\ (j.bot[1].status = 200 => ~ BotVerdict(j, 1).terminating)
    BY DataDomeVerdictOK DEF BotVerdict
  <2>3. e.layer = Bot /\ e.terminating \in BOOLEAN
        /\ (e.terminating <=> BotVerdict(j, 1).terminating)
        /\ (e.action \in {"blocked", "challenge_failed"} => e.terminating)
    BY <2>1, <2>2, Ends
  <2>4. BotStops(j) <=> BotVerdict(j, 1).terminating
    BY <1>0, <2>1, <2>2 DEF BotStops, BotVerdict, VerdictOK
  <2>5. BotVerdict(j, 1).terminating => Waf \notin Reaches(j)
    BY <1>0, <2>1, <2>2, ReachesIs DEF LetThrough
  <2>6. StoppedAt(j) = Bot <=> BotVerdict(j, 1).terminating
    BY <2>1, <2>4, <2>5, ReachesIs, StoppedAtIs DEF StoppedAt, Edge, Bot, Waf, Nowhere
  <2>. QED
    BY <2>1, <2>3, <2>6 DEF TellsTrue, Layer, Edge, Bot, Waf, Origin
<1>4. CASE ExportKind(j, r, e)
  <2>1. /\ Bot \in Reaches(j) /\ ~ ViaWorker(j)
        /\ Seen(e, DD(DataDomeId), "datadome", Bot, {DataDomeId}, ExportVerdict(j))
    BY <1>0, <1>4 DEF ExportKind, ViaExport, ViaWorker
  <2>2. VerdictOK(ExportVerdict(j))
    BY WordsAreActions, TranslatedOK DEF ExportVerdict
  <2>3. e.layer = Bot /\ e.terminating \in BOOLEAN
        /\ (e.terminating <=> ExportVerdict(j).terminating)
        /\ (e.action \in {"blocked", "challenge_failed"} => e.terminating)
    BY <2>1, <2>2, Ends
  <2>4. BotStops(j) <=> ExportVerdict(j).terminating
    BY <2>1, <2>2 DEF BotStops, ExportVerdict, VerdictOK
  <2>5. ExportVerdict(j).terminating => Waf \notin Reaches(j)
    BY <1>0, <2>1, ExportStops, ReachesIs DEF LetThrough, ExportVerdict
  <2>6. StoppedAt(j) = Bot <=> ExportVerdict(j).terminating
    BY <2>1, <2>4, <2>5, ReachesIs, StoppedAtIs DEF StoppedAt, Edge, Bot, Waf, Nowhere
  <2>. QED
    BY <2>1, <2>3, <2>6 DEF TellsTrue, Layer, Edge, Bot, Waf, Origin
<1>5. CASE WafKind(j, r, e)
  <2>1. VerdictOK(WafVerdict(j))
    BY WordsAreActions, TranslatedOK DEF WafVerdict
  <2>2. e.layer = Waf /\ e.terminating \in BOOLEAN /\ Waf \in Reaches(j)
        /\ (e.terminating <=> WafVerdict(j).terminating)
        /\ (e.action \in {"blocked", "challenge_failed"} => e.terminating)
    BY <1>5, <2>1, Ends DEF WafKind
  <2>3. WafVerdict(j).terminating <=> j.waf \in {"blocked", "blocked_response"}
    BY <1>0, StatusStops DEF WafVerdict
  <2>4. StoppedAt(j) = Waf <=> j.waf \in {"blocked", "blocked_response"}
    BY <2>2, ReachesIs, StoppedAtIs DEF StoppedAt, Edge, Bot, Waf, Nowhere
  <2>. QED
    BY <2>2, <2>3, <2>4 DEF TellsTrue, Layer, Edge, Bot, Waf, Origin
<1>6. CASE OriginKind(j, r, e)
  <2>1. e.layer = Origin /\ e.terminating = FALSE /\ Origin \in Reaches(j)
    BY <1>6, StatusVerdictIs DEF OriginKind, Seen
  <2>. QED
    BY <2>1, StoppedAtIs DEF TellsTrue, Layer, Edge, Bot, Waf, Origin
<1>. QED
  BY <1>1, <1>2, <1>3, <1>4, <1>5, <1>6 DEF Kind

LEMMA MadeTellsTrue ==
    ASSUME OneVerdict, NEW j \in Journeys, NEW e \in Made(j)
    PROVE  TellsTrue(j, e)
<1>1. PICK r \in Records(j) : e \in Normalize(r)
  BY DEF Made
<1>2. Kind(j, r, e)
  BY <1>1, EventIs
<1>. QED
  BY <1>2, TellsTrueIs

\* The events of a flow, one by one.
LEMMA OfTheFlow ==
    ASSUME OneVerdict, BaseInv, NEW f \in flows
    PROVE  /\ Says(f, f.events) /\ f.events \in Seq(EventType) /\ journey \in Journeys
           /\ \A i \in 1..Len(f.events) : TellsTrue(journey, f.events[i])
           /\ \A i, k \in 1..Len(f.events) : i < k => f.events[i].layer <= f.events[k].layer
           /\ LayersOf(f.events) = {f.events[i].layer : i \in 1..Len(f.events)}
           /\ LayersOf(f.events) \subseteq Reaches(journey) /\ LayersOf(f.events) # {}
<1>1. Faithful(f) /\ EventsOK(f.events) /\ journey \in Journeys
  BY DEF BaseInv, FlowsOK, HeldOK
<1>2. f.events \in Seq(EventType) /\ Sorted(f.events) /\ f.events # << >>
  BY <1>1 DEF EventsOK
<1>3. ToSet(f.events) = {f.events[i] : i \in 1..Len(f.events)}
  BY <1>2 DEF ToSet
<1>4. \A i \in 1..Len(f.events) : TellsTrue(journey, f.events[i])
  BY <1>1, <1>3, MadeTellsTrue DEF EventsOK
<1>5. \A i, k \in 1..Len(f.events) : i < k => f.events[i].layer <= f.events[k].layer
  <2>. SUFFICES ASSUME NEW i \in 1..Len(f.events), NEW k \in 1..Len(f.events), i < k
                PROVE  f.events[i].layer <= f.events[k].layer
    OBVIOUS
  <2>1. Before(f.events[i], f.events[k])
    BY <1>2 DEF Sorted
  <2>2. f.events[i].layer \in Int /\ f.events[k].layer \in Int
    BY <1>4 DEF TellsTrue, Layer, Edge, Origin
  <2>. QED
    BY <2>1, <2>2 DEF Before
<1>6. LayersOf(f.events) = {f.events[i].layer : i \in 1..Len(f.events)}
  BY <1>3 DEF LayersOf
<1>7. 1 \in 1..Len(f.events)
  BY <1>2
<1>8. LayersOf(f.events) \subseteq Reaches(journey)
  BY <1>4, <1>6 DEF TellsTrue
<1>. QED
  BY <1>1, <1>2, <1>4, <1>5, <1>6, <1>7, <1>8, FaithfulIs

\* A flow blames the layer that stopped the request.
LEMMA Blame ==
    ASSUME OneVerdict, BaseInv, NEW f \in flows
    PROVE  /\ f.stoppedBy \in {Nowhere, StoppedAt(journey)}
           /\ StoppedAt(journey) \in LayersOf(f.events) => f.stoppedBy = StoppedAt(journey)
<1>1. f.events \in Seq(EventType) /\ f.stoppedBy = TerminatingLayer(f.events)
      /\ LayersOf(f.events) = {f.events[i].layer : i \in 1..Len(f.events)}
      /\ \A i \in 1..Len(f.events) :
            f.events[i].terminating <=> f.events[i].layer = StoppedAt(journey)
  BY OfTheFlow DEF Says, TellsTrue
<1>2. \/ FirstStop(f.events) = 0 /\ \A k \in 1..Len(f.events) : ~ f.events[k].terminating
      \/ FirstStop(f.events) \in 1..Len(f.events) /\ f.events[FirstStop(f.events)].terminating
  BY <1>1, FirstStopIs
<1>. QED
  BY <1>1, <1>2 DEF TerminatingLayer

\* Layers have a greatest.
LEMMA GreatestLayer ==
    ASSUME NEW S, S \subseteq Layer \union {Nowhere}, S # {}
    PROVE  LET m == CHOOSE l \in S : \A k \in S : k <= l
           IN  m \in S /\ \A k \in S : k <= m
<1>. DEFINE T == {n \in Nat : 3 - n \in S}
<1>1. \A l \in S : l \in Int /\ 3 - l \in Nat /\ 3 - (3 - l) = l
  BY DEF Layer, Edge, Origin, Nowhere
<1>2. T \subseteq Nat /\ T # {} /\ \A l \in S : 3 - l \in T
  BY <1>1
<1>3. \A n \in T : 3 - n \in S
  OBVIOUS
<1>. HIDE DEF T
<1>4. PICK n \in T : \A k \in T : n <= k
  BY <1>2, LeastElement
<1>5. 3 - n \in S /\ \A k \in S : k <= 3 - n
  BY <1>1, <1>2, <1>3, <1>4
<1>. QED
  BY <1>5

\* The boundary of a flow that does not expect the origin.
LEMMA BoundaryIs ==
    ASSUME NEW o, LayersOf(o) \subseteq Layer, LayersOf(o) # {},
           TerminatingLayer(o) \in Layer \union {Nowhere}
    PROVE  /\ \A l \in LayersMissing(o, Layer) :
                l \in Layer /\ l <= CompletenessBoundary(o) /\ l \notin LayersOf(o)
           /\ TerminatingLayer(o) # Nowhere \/ EdgeServedFromCache(o) =>
                CompletenessBoundary(o) \in LayersOf(o) \union {TerminatingLayer(o)}
           /\ CompletenessBoundary(o) \in Layer \union {Nowhere}
           /\ \A l \in LayersOf(o) : l <= CompletenessBoundary(o)
<1>. DEFINE reached == LayersOf(o) \union {TerminatingLayer(o)}
            greatest == CHOOSE l \in reached : \A m \in reached : m <= l
<1>1. greatest \in reached /\ \A l \in reached : l <= greatest
  <2>1. reached \subseteq Layer \union {Nowhere} /\ reached # {}
    OBVIOUS
  <2>. HIDE DEF reached
  <2>. QED
    BY <2>1, GreatestLayer
<1>2. CompletenessBoundary(o) = IF TerminatingLayer(o) = Nowhere /\ ~EdgeServedFromCache(o)
                                THEN Origin ELSE greatest
  BY DEF CompletenessBoundary
<1>. HIDE DEF greatest
<1>3. \A l \in LayersMissing(o, Layer) :
                l \in Layer /\ l <= CompletenessBoundary(o) /\ l \notin LayersOf(o)
  BY DEF LayersMissing
<1>. QED
  BY <1>1, <1>2, <1>3 DEF Layer, Edge, Origin

\* The boundary of a flow, and the layers it misses.
LEMMA BoundaryOf ==
    ASSUME OneVerdict, BaseInv, NEW f \in flows
    PROVE  /\ \A l \in f.missing :
                l \in Layer /\ l <= CompletenessBoundary(f.events) /\ l \notin LayersOf(f.events)
           /\ f.stoppedBy # Nowhere \/ EdgeServedFromCache(f.events) =>
                CompletenessBoundary(f.events) \in LayersOf(f.events) \union {f.stoppedBy}
           /\ \A l \in LayersOf(f.events) : l <= CompletenessBoundary(f.events)
           /\ CompletenessBoundary(f.events) \in Layer \union {Nowhere}
<1>1. f.stoppedBy = TerminatingLayer(f.events) /\ f.missing = LayersMissing(f.events, Layer)
      /\ LayersOf(f.events) \subseteq Reaches(journey) /\ LayersOf(f.events) # {}
  BY OfTheFlow DEF Says
<1>2. LayersOf(f.events) \subseteq Layer
  BY <1>1, ReachesIs DEF Layer, Edge, Bot, Waf, Origin
<1>3. f.stoppedBy \in Layer \union {Nowhere}
  BY Blame, StoppedAtIs
<1>. QED
  BY <1>1, <1>2, <1>3, BoundaryIs

\* What a flow misses above the boundary was passed.
LEMMA Gaps ==
    ASSUME OneVerdict, BaseInv, NEW f \in flows,
           Answered(journey), LastLayer(journey) \in LayersOf(f.events)
    PROVE  f.missing \subseteq Reaches(journey)
<1>. DEFINE R == Reaches(journey)
<1>1. R \in {{Edge}, {Edge, Bot}, {Edge, Bot, Waf}, Layer}
      /\ LayersOf(f.events) \subseteq R /\ f.missing \subseteq Layer
  BY ReachesIs, OfTheFlow, BoundaryOf
<1>2. CASE Origin \in R
  BY <1>1, <1>2, ReachesIs
<1>3. CASE Origin \notin R
  <2>1. LastLayer(journey) \in R /\ \A k \in R : k <= LastLayer(journey)
    <3>1. R \subseteq Layer \union {Nowhere} /\ R # {}
      BY <1>1 DEF Layer, Edge, Bot, Waf, Origin
    <3>. QED
      BY <3>1, GreatestLayer DEF LastLayer
  <2>2. \A l \in Layer : l <= LastLayer(journey) => l \in R
    BY <1>1, <1>3, <2>1 DEF Layer, Edge, Bot, Waf, Origin
  <2>3. CASE StoppedAt(journey) # Nowhere
    <3>1. StoppedAt(journey) \in R
      BY <2>3, StoppedAtIs
    <3>2. StoppedAt(journey) = LastLayer(journey)
      <4>1. StoppedAt(journey) \in {Edge, Bot, Waf}
        BY <2>3, StoppedAtIs DEF Layer, Edge, Bot, Waf, Origin
      <4>2. StoppedAt(journey) = Waf => R = {Edge, Bot, Waf}
        BY <1>1, <1>3, <3>1 DEF Layer, Edge, Bot, Waf, Origin
      <4>3. StoppedAt(journey) \in R /\ \A k \in R : k <= StoppedAt(journey)
        BY <3>1, <4>1, <4>2, StoppedAtIs DEF Edge, Bot, Waf
      <4>. QED
        BY <1>1, <2>1, <4>3 DEF Layer, Edge, Bot, Waf, Origin
    <3>3. f.stoppedBy = StoppedAt(journey)
      BY <3>2, Blame
    <3>4. CompletenessBoundary(f.events) \in R
      BY <1>1, <2>3, <3>1, <3>3, BoundaryOf
    <3>. QED
      BY <1>1, <2>1, <2>2, <3>4, BoundaryOf DEF Layer, Edge, Bot, Waf, Origin
  <2>4. CASE StoppedAt(journey) = Nowhere
    <3>1. journey.edge.cacheHit
      BY <1>3, <2>4 DEF Answered
    <3>2. R = {Edge}
      BY <3>1, ReachesIs DEF PassesEdge, Reaches
    <3>3. EdgeServedFromCache(f.events)
      <4>1. Edge \in LayersOf(f.events)
        BY <2>1, <3>2
      <4>2. PICK i \in 1..Len(f.events) : f.events[i].layer = Edge
        BY <4>1, OfTheFlow
      <4>3. TellsTrue(journey, f.events[i]) /\ f.events \in Seq(EventType)
        BY OfTheFlow
      <4>4. f.events[i].cacheHit
        <5>1. Waf \notin R
          BY <3>2 DEF Edge, Waf
        <5>2. f.events[i].cacheHit = journey.edge.cacheHit
          BY <4>2, <4>3, <5>1 DEF TellsTrue
        <5>. QED
          BY <3>1, <5>2, Zenon
      <4>5. f.events[i] \in ToSet(f.events)
        BY <4>3 DEF ToSet
      <4>. QED
        BY <4>2, <4>4, <4>5 DEF EdgeServedFromCache
    <3>4. f.stoppedBy = Nowhere
      BY <2>4, Blame
    <3>5. CompletenessBoundary(f.events) \in {Edge, Nowhere}
      BY <1>1, <3>2, <3>3, <3>4, BoundaryOf
    <3>. QED
      BY <1>1, <3>2, <3>5, BoundaryOf DEF Layer, Edge, Bot, Waf, Origin, Nowhere
  <2>. QED
    BY <2>3, <2>4
<1>. QED
  BY <1>2, <1>3

\* What the request passed and the flow lacks is missing.
LEMMA NoneHidden ==
    ASSUME OneVerdict, BaseInv, NEW f \in flows, LastLayer(journey) \in LayersOf(f.events)
    PROVE  Reaches(journey) \ LayersOf(f.events) \subseteq f.missing
<1>. DEFINE R == Reaches(journey)
            B == CompletenessBoundary(f.events)
<1>1. R \in {{Edge}, {Edge, Bot}, {Edge, Bot, Waf}, Layer}
  BY ReachesIs
<1>2. R \subseteq Layer \union {Nowhere} /\ R # {} /\ R \subseteq Layer
  BY <1>1 DEF Layer, Edge, Bot, Waf, Origin
<1>3. LastLayer(journey) \in R /\ \A k \in R : k <= LastLayer(journey)
  BY <1>2, GreatestLayer DEF LastLayer
<1>4. LastLayer(journey) <= B /\ B \in Layer \union {Nowhere}
  BY BoundaryOf
<1>5. \A l \in R : l <= B
  BY <1>2, <1>3, <1>4 DEF Layer, Edge, Origin, Nowhere
<1>6. f.missing = {l \in Layer : l <= B} \ LayersOf(f.events)
  BY OfTheFlow DEF Says, LayersMissing
<1>. QED
  BY <1>2, <1>5, <1>6

\* The block comes after the allow in causal order.
LEMMA Disagreement ==
    ASSUME OneVerdict, BaseInv, NEW f \in flows,
           StoppedAt(journey) \in LayersOf(f.events), f.outcome = "blocked",
           NEW e \in EventsOf(f), e.layer < StoppedAt(journey), e.action = "allowed"
    PROVE  "blocked_after_allow" \in Analyse(f.events)
<1>. DEFINE s == f.events
            N == 1..Len(f.events)
            stop == FirstStop(s)
            a == Allowed(s)
            b == Blocked(s)
<1>1. /\ s \in Seq(EventType) /\ f.outcome = Outcome(s)
      /\ \A i \in N : TellsTrue(journey, s[i]) /\ s[i].layer \in Layer
                      /\ (s[i].terminating <=> s[i].layer = StoppedAt(journey))
      /\ \A i, k \in N : i < k => s[i].layer <= s[k].layer
      /\ LayersOf(s) = {s[i].layer : i \in N}
  BY OfTheFlow DEF Says, TellsTrue
<1>2. PICK x \in N : s[x] = e
  <2>1. \A d \in ToSet(s) : \E i \in N : s[i] = d
    BY <1>1 DEF ToSet
  <2>. QED
    BY <2>1 DEF EventsOf
<1>3. stop \in N /\ s[stop].terminating
  BY <1>1, FirstStopIs
<1>4. s[stop].layer = StoppedAt(journey) /\ s[stop].action = "blocked"
  <2>1. stop # 0
    BY <1>3
  <2>. QED
    BY <1>1, <1>3, <2>1 DEF Outcome
<1>5. a \in N /\ a <= x
  BY <1>1, <1>2, AllowedIs
<1>6. b \in N /\ b <= stop /\ s[b].action \in {"blocked", "challenge_failed"}
  BY <1>1, <1>3, <1>4, BlockedIs
<1>. HIDE DEF stop, a, b, s
<1>7. s[a].layer <= e.layer
  BY <1>1, <1>2, <1>5 DEF Layer, Edge, Origin
<1>8. s[b].layer = StoppedAt(journey)
  <2>1. s[b].layer <= s[stop].layer
    BY <1>1, <1>3, <1>6 DEF Layer, Edge, Origin
  <2>2. s[b].layer # Origin
    <3>1. StoppedAt(journey) # Origin /\ s[stop].layer \in Layer
      BY <1>1, <1>3, StoppedAtIs
    <3>. QED
      BY <1>4, <2>1, <3>1 DEF Layer, Edge, Origin
  <2>. QED
    BY <1>1, <1>6, <2>2 DEF TellsTrue
<1>9. FirstOfLayer(s, a) \in N /\ s[FirstOfLayer(s, a)].layer = s[a].layer
      /\ FirstOfLayer(s, b) \in N /\ s[FirstOfLayer(s, b)].layer = s[b].layer
  <2>1. N = 1..Len(s)
    BY DEF s
  <2>. QED
    BY <1>1, <1>5, <1>6, <2>1, FirstOfLayerIs
<1>10. FirstOfLayer(s, b) > FirstOfLayer(s, a)
  <2>. DEFINE p == FirstOfLayer(s, a)
              q == FirstOfLayer(s, b)
  <2>1. p \in N /\ q \in N /\ s[p].layer < s[q].layer /\ s[p].layer \in Layer /\ s[q].layer \in Layer
    <3>1. s[a].layer \in Layer /\ e.layer \in Layer /\ StoppedAt(journey) \in Layer
      BY <1>1, <1>2, <1>3, <1>4, <1>5
    <3>. QED
      <4>1. s[p].layer = s[a].layer /\ s[q].layer = StoppedAt(journey) /\ p \in N /\ q \in N
        BY <1>8, <1>9
      <4>2. e.layer < StoppedAt(journey)
        OBVIOUS
      <4>. HIDE DEF p, q
      <4>. QED
        BY <1>7, <3>1, <4>1, <4>2 DEF Layer, Edge, Origin
  <2>. HIDE DEF p, q
  <2>2. q < p => s[q].layer <= s[p].layer
    BY <1>1, <2>1
  <2>3. p # q
    BY <2>1 DEF Layer, Edge, Origin
  <2>4. q > p
    BY <2>1, <2>2, <2>3 DEF Layer, Edge, Origin
  <2>. QED
    BY <2>4 DEF p, q
<1>11. BlockedAfterAllow(s)
  BY <1>5, <1>6, <1>10 DEF BlockedAfterAllow, a, b
<1>. QED
  BY <1>11 DEF Analyse, s

\* With one verdict for each layer, a flow is blamed on the layer that stopped the
\* request and on no other (BlamesTheStop).  Without, a later answer of DataDome may
\* contradict the one in the flow, see UnknownNeverMasks.
THEOREM BlamesTheRightLayer ==
    ASSUME OneVerdict PROVE Spec => []BlamesTheStop
<1>1. BaseInv => BlamesTheStop
  BY Blame DEF BlamesTheStop
<1>. QED
  BY <1>1, BaseHolds, PTL

\* With one verdict for each layer, a flow that has the record of the layer that answered
\* misses the layers that the request passed and that did not report, and no others
\* (GapsAreReal).
THEOREM MissingLayersWerePassed ==
    ASSUME OneVerdict PROVE Spec => []GapsAreReal
<1>1. BaseInv => GapsAreReal
  <2>. SUFFICES ASSUME BaseInv, NEW f \in flows,
                       Answered(journey), LastLayer(journey) \in LayersOf(f.events)
                PROVE  f.missing = Reaches(journey) \ LayersOf(f.events)
    BY DEF GapsAreReal
  <2>1. f.missing \subseteq Reaches(journey) /\ Reaches(journey) \ LayersOf(f.events) \subseteq f.missing
    BY Gaps, NoneHidden
  <2>2. f.missing \intersect LayersOf(f.events) = {}
    BY BoundaryOf
  <2>. QED
    BY <2>1, <2>2
<1>. QED
  BY <1>1, BaseHolds, PTL

\* With one verdict for each layer, a block behind an allow is shown as one
\* (DisagreementSurfaced).
THEOREM DisagreementsShow ==
    ASSUME OneVerdict PROVE Spec => []DisagreementSurfaced
<1>1. BaseInv => DisagreementSurfaced
  BY Disagreement DEF DisagreementSurfaced
<1>. QED
  BY <1>1, BaseHolds, PTL

-----------------------------------------------------------------------------
(* Flows that close early.                                                 *)

\* The layers of a request that is done: all, or all down to the one that stopped it.
Done(layers) ==
    \/ layers = Layer
    \/ StoppedAt(journey) # Nowhere /\ Edge..StoppedAt(journey) \subseteq layers

EarlyInv == \A f \in flows : f.key \in early => Done(LayersOf(f.events))

\* Such a flow is complete.
LEMMA DoneIsComplete ==
    ASSUME OneVerdict, BaseInv, NEW f \in flows, Done(LayersOf(f.events))
    PROVE  f.completeness = "complete"
<1>. DEFINE L == LayersOf(f.events)
            S == StoppedAt(journey)
            C == CompletenessBoundary(f.events)
<1>1. /\ f.completeness = (IF f.missing = {} THEN "complete" ELSE "partial")
      /\ L \subseteq Reaches(journey)
      /\ \A l \in f.missing : l \in Layer /\ l <= C /\ l \notin L
      /\ f.stoppedBy # Nowhere => C \in L \union {f.stoppedBy}
      /\ S \in L => f.stoppedBy = S
      /\ S \in Layer \union {Nowhere} /\ S # Origin
      /\ Reaches(journey) \in {{Edge}, {Edge, Bot}, {Edge, Bot, Waf}, Layer}
      /\ Done(L)
  BY OfTheFlow, BoundaryOf, Blame, StoppedAtIs, ReachesIs DEF Says
<1>2. CASE L = Layer
  BY <1>1, <1>2
<1>3. CASE S # Nowhere /\ Edge..S \subseteq L
  <2>1. S \in L /\ S \in {Edge, Bot, Waf}
    BY <1>1, <1>3 DEF Layer, Edge, Bot, Waf, Origin
  <2>2. C \in L
    BY <1>1, <1>3, <2>1
  <2>3. L \subseteq Layer
    BY <1>1 DEF Layer, Edge, Bot, Waf, Origin
  <2>. HIDE DEF L, C
  <2>4. S = Edge => Reaches(journey) = {Edge}
    BY StoppedAtIs
  <2>5. S = Bot => Reaches(journey) = {Edge, Bot}
    BY StoppedAtIs
  <2>6. \A l \in Layer : l <= C => l \in L
    <3>1. CASE S = Waf
      BY <1>3, <2>2, <2>3, <3>1 DEF Layer, Edge, Bot, Waf, Origin
    <3>2. CASE S = Bot
      BY <1>1, <1>3, <2>2, <2>5, <3>2 DEF Layer, Edge, Bot, Waf, Origin, L
    <3>3. CASE S = Edge
      BY <1>1, <1>3, <2>2, <2>4, <3>3 DEF Layer, Edge, Bot, Waf, Origin, L
    <3>. QED
      BY <2>1, <3>1, <3>2, <3>3
  <2>7. f.missing = {}
    BY <1>1, <2>6 DEF L, C
  <2>. QED
    BY <1>1, <2>7
<1>. QED
  BY <1>1, <1>2, <1>3 DEF Done

\* What closes early is done.
LEMMA EarlyIsDone ==
    ASSUME OneVerdict, NEW S, S \subseteq Made(journey), journey \in Journeys,
           HasAllLayers(S, 4) \/ TerminallyComplete(S)
    PROVE  Done({e.layer : e \in S})
<1>. DEFINE L == {e.layer : e \in S}
<1>1. \A e \in S : e.layer \in Layer /\ (e.terminating <=> e.layer = StoppedAt(journey))
  BY MadeTellsTrue DEF TellsTrue
<1>2. L \subseteq Layer
  BY <1>1
<1>3. CASE HasAllLayers(S, 4)
  <2>1. Cardinality(L) >= 4
    BY <1>3 DEF HasAllLayers
  <2>2. IsFiniteSet(Layer) /\ Cardinality(Layer) = 4
    <3>1. IsFiniteSet(0..3) /\ Cardinality(0..3) = 4
      <4>1. IsFiniteSet(0..3) /\ Cardinality(0..3) = IF 0 > 3 THEN 0 ELSE 3 - 0 + 1
        <5>1. 0 \in Int /\ 3 \in Int
          OBVIOUS
        <5>. QED
          BY <5>1, FS_Interval, Zenon
      <4>. QED
        BY <4>1
    <3>. QED
      BY <3>1 DEF Layer, Edge, Origin
  <2>. HIDE DEF L
  <2>3. L = Layer
    <3>1. Cardinality(L) <= 4 /\ (L # Layer => Cardinality(L) < 4) /\ Cardinality(L) \in Nat
      BY <1>2, <2>2, FS_Subset, FS_CardinalityType
    <3>. QED
      BY <2>1, <3>1
  <2>. QED
    BY <2>3 DEF Done, L
<1>4. CASE TerminallyComplete(S)
  <2>. DEFINE stops == {e.layer : e \in {f \in S : f.terminating}}
              stop == CHOOSE l \in stops : \A m \in stops : l <= m
  <2>1. stops # {} /\ Edge..stop \subseteq L
    BY <1>4 DEF TerminallyComplete
  <2>2. stops \subseteq {StoppedAt(journey)}
    BY <1>1
  <2>3. stops = {StoppedAt(journey)} /\ StoppedAt(journey) \in Layer
    BY <1>1, <2>1, <2>2
  <2>. HIDE DEF stops
  <2>4. stop = StoppedAt(journey)
    BY <2>3 DEF Layer, Edge, Origin
  <2>. QED
    BY <2>1, <2>3, <2>4 DEF Done, Layer, Edge, Origin, Nowhere
<1>. QED
  BY <1>3, <1>4

\* More events have no fewer layers.
LEMMA LayersGrow ==
    ASSUME NEW s, NEW t, ToSet(s) \subseteq ToSet(t)
    PROVE  LayersOf(s) \subseteq LayersOf(t)
  BY DEF LayersOf

\* What is done stays done.
LEMMA DoneStays ==
    ASSUME NEW L, NEW M, Done(L), L \subseteq M, M \subseteq Layer
    PROVE  Done(M)
  BY DEF Done

\* A flow that closed early stays done, whatever amends it.
LEMMA EarlyStep ==
    ASSUME OneVerdict, BaseInv, EarlyInv, [Next]_vars
    PROVE  EarlyInv'
<1>0. journey' = journey
  BY DEF Next, Deliver, Close, vars
<1>1. SUFFICES ASSUME NEW f \in flows', f.key \in early'
               PROVE  Done(LayersOf(f.events))
  BY <1>0 DEF EarlyInv, Done
<1>2. CASE f \in flows /\ early' = early
  BY <1>1, <1>2 DEF EarlyInv
<1>3. ASSUME NEW r \in Records(journey), NEW e \in Normalize(r), AcceptLate(e), early' = early
      PROVE  Done(LayersOf(f.events))
  <2>1. PICK g \in flows : g.key \in e.ids /\ flows' = (flows \ {g}) \union {Amend(g, e)}
    BY <1>3 DEF AcceptLate
  <2>2. CASE f = Amend(g, e)
    <3>1. Faithful(g) /\ EventsOK(g.events) /\ journey \in Journeys /\ e \in Made(journey) /\ e.ids # {}
      BY <2>1 DEF BaseInv, FlowsOK, HeldOK, Made
    <3>2. f.key = g.key /\ EventsOK(f.events)
          /\ (f = g \/ ToSet(f.events) = ToSet(g.events) \union {e})
      BY <2>2, <3>1, AmendIs
    <3>3. Done(LayersOf(g.events))
      BY <1>1, <1>3, <3>2 DEF EarlyInv
    <3>4. ToSet(g.events) \subseteq ToSet(f.events)
      BY <3>2
    <3>5. LayersOf(f.events) \subseteq Layer
      BY <3>1, <3>2, MadeIs DEF LayersOf, EventsOK, EventType
    <3>. QED
      BY <3>3, <3>4, <3>5, LayersGrow, DoneStays
  <2>3. CASE f \in flows
    BY <1>2, <1>3, <2>3
  <2>. QED
    BY <1>1, <2>1, <2>2, <2>3
<1>4. ASSUME NEW r \in Records(journey), Deliver(r)
      PROVE  Done(LayersOf(f.events))
  <2>1. early' = early
    BY <1>4 DEF Deliver
  <2>2. flows' = flows \/ \E e \in Normalize(r) : AcceptLate(e)
    BY <1>4 DEF Deliver, Accept
  <2>. QED
    BY <1>1, <1>2, <1>3, <2>1, <2>2
<1>5. ASSUME NEW c \in Exact(ByKey(open)), Close(c)
      PROVE  Done(LayersOf(f.events))
  <2>1. PICK arrived \in Arrivals(c.events) : flows' = flows \union {Flow(c, arrived)}
    BY <1>5 DEF Close
  <2>2. /\ ~\E g \in flows : g.key = c.key
        /\ early' = IF ClosesEarly(c) THEN early \union {c.key} ELSE early
    BY <1>5 DEF Close
  <2>3. c.events \subseteq open /\ Flow(c, arrived).key = c.key
        /\ ToSet(Flow(c, arrived).events) = c.events
    BY FlowIs
  <2>4. CASE f \in flows
    BY <1>1, <2>2, <2>4 DEF EarlyInv
  <2>5. CASE f = Flow(c, arrived)
    <3>1. f.key = c.key
      BY <2>3, <2>5
    <3>2. c.key \notin early
      BY <2>2 DEF BaseInv, FlowsOK
    <3>3. ClosesEarly(c)
      BY <1>1, <2>2, <3>1, <3>2
    <3>4. LayersOf(f.events) = {e.layer : e \in c.events}
      BY <2>3, <2>5 DEF LayersOf
    <3>5. c.events \subseteq Made(journey) /\ journey \in Journeys
      BY <2>3 DEF BaseInv, HeldOK
    <3>. QED
      BY <3>3, <3>4, <3>5, EarlyIsDone DEF ClosesEarly
  <2>. QED
    BY <1>1, <2>1, <2>4, <2>5
<1>6. CASE UNCHANGED vars
  BY <1>1, <1>2, <1>6 DEF vars
<1>. QED
  BY <1>4, <1>5, <1>6 DEF Next

\* With one verdict for each layer, a window that closes early closes a complete flow,
\* and it stays complete whatever late record amends it (EarlyCloseIsComplete).
THEOREM EarlyIsComplete ==
    ASSUME OneVerdict PROVE Spec => []EarlyCloseIsComplete
<1>1. Init => EarlyInv
  BY DEF Init, EarlyInv
<1>2. BaseInv /\ EarlyInv /\ [Next]_vars => EarlyInv'
  BY EarlyStep
<1>3. BaseInv /\ EarlyInv => EarlyCloseIsComplete
  BY DoneIsComplete DEF EarlyInv, EarlyCloseIsComplete
<1>. QED
  BY <1>1, <1>2, <1>3, BaseHolds, PTL DEF Spec

-----------------------------------------------------------------------------
(* The components of a request.                                            *)

\* There are six event ids, so finitely many events.
LEMMA MadeIsFinite ==
    ASSUME Calls = 1, NEW j \in Journeys
    PROVE  IsFiniteSet(Made(j))
<1>. DEFINE names == {CF(VisitorRay), CF(FetchRay), DD(VisitorRay), DD(DataDomeId), F5(1), NGX(1)}
            M == Made(j)
            name == [e \in M |-> e.id]
<1>1. IsFiniteSet(names)
  <2>1. IsFiniteSet({})
    BY FS_EmptySet
  <2>2. names = {} \union {CF(VisitorRay)} \union {CF(FetchRay)} \union {DD(VisitorRay)}
                \union {DD(DataDomeId)} \union {F5(1)} \union {NGX(1)}
    OBVIOUS
  <2>3. IsFiniteSet({} \union {CF(VisitorRay)})
    BY <2>1, FS_AddElement
  <2>4. IsFiniteSet({} \union {CF(VisitorRay)} \union {CF(FetchRay)})
    BY <2>3, FS_AddElement
  <2>5. IsFiniteSet({} \union {CF(VisitorRay)} \union {CF(FetchRay)} \union {DD(VisitorRay)})
    BY <2>4, FS_AddElement
  <2>6. IsFiniteSet({} \union {CF(VisitorRay)} \union {CF(FetchRay)} \union {DD(VisitorRay)}
                \union {DD(DataDomeId)})
    BY <2>5, FS_AddElement
  <2>7. IsFiniteSet({} \union {CF(VisitorRay)} \union {CF(FetchRay)} \union {DD(VisitorRay)}
                \union {DD(DataDomeId)} \union {F5(1)})
    BY <2>6, FS_AddElement
  <2>. HIDE DEF names
  <2>. QED
    BY <2>2, <2>7, FS_AddElement
<1>2. \A e \in M : e.id \in names
  <2>. SUFFICES ASSUME NEW e \in Made(j) PROVE e.id \in names
    OBVIOUS
  <2>1. PICK r \in Records(j) : e \in Normalize(r)
    BY DEF Made
  <2>2. Kind(j, r, e)
    BY <2>1, EventIs
  <2>. QED
    BY <2>2 DEF Kind, EdgeKind, FetchKind, CallKind, ExportKind, WafKind, OriginKind, Seen
<1>3. Named(M)
  BY MadeNamed
<1>. HIDE DEF names, M
<1>4. name \in Injection(M, names)
  BY <1>2, <1>3 DEF Injection, IsInjective, Named
<1>. HIDE DEF name
<1>. QED
  BY <1>1, <1>4, FS_Injection DEF M

\* The events that ExactIsConnectivity and WholeJourney group.
LEMMA ParsedIs ==
    ASSUME Calls = 1, BaseInv
    PROVE  /\ Parsed \subseteq Made(journey) /\ Parsed \subseteq EventType /\ Named(Parsed)
           /\ ByKey(Parsed) \in Seq(EventType) /\ ToSet(ByKey(Parsed)) = Parsed
           /\ Keyed(ByKey(Parsed)) = {e \in Parsed : e.ids # {}}
<1>1. journey \in Journeys /\ Parsed \subseteq Made(journey)
  BY DEF Parsed, EventsOf, BaseInv, HeldOK, FlowsOK, EventsOK
<1>2. IsFiniteSet(Parsed) /\ Named(Parsed)
  <2>1. IsFiniteSet(Made(journey)) /\ Named(Made(journey))
    BY <1>1, MadeIsFinite, MadeNamed
  <2>. QED
    BY <1>1, <2>1, FS_Subset DEF Named
<1>3. Parsed \subseteq EventType
  BY <1>1, MadeIs
<1>4. ByKey(Parsed) \in Seq(EventType) /\ ToSet(ByKey(Parsed)) = Parsed
  BY <1>2, <1>3, ByKeyDistinct
<1>. QED
  BY <1>1, <1>2, <1>3, <1>4 DEF Keyed

-----------------------------------------------------------------------------
\* A record's root is the root of each of its identifiers.
LEMMA RootOfIds ==
    ASSUME NEW records \in Seq(EventType), NEW e \in Keyed(records)
    PROVE  /\ SmallestOf(e.ids) \in e.ids /\ e.ids \subseteq Identifiers(records)
           /\ \A x \in e.ids : Find(Forest(records), x) = RootIn(records, e)
<1>1. e \in ToSet(records) /\ e.ids # {}
  BY DEF Keyed
<1>2. PICK i \in DOMAIN records : e = records[i]
  BY <1>1 DEF ToSet
<1>3. e \in EventType
  BY <1>2
<1>4. e.ids \subseteq Nat
  <2>1. e.ids \subseteq 1..6
    BY <1>3 DEF EventType
  <2>. QED
    BY <2>1
<1>5. SmallestOf(e.ids) \in e.ids
  BY <1>1, <1>4, LeastElement DEF SmallestOf
<1>6. e.ids \subseteq Identifiers(records)
  BY <1>2 DEF Identifiers
<1>7. Together(Forest(records), e.ids)
  <2>1. \A d \in ToSet(records) : d.ids \intersect {} = {}
    OBVIOUS
  <2>. QED
    BY <1>1, <2>1, ForestIs
<1>. QED
  BY <1>5, <1>6, <1>7 DEF Together, RootIn

Linked(e, f) == e.ids \intersect f.ids # {}

\* Records with a common identifier have one root.
LEMMA LinkedIsTogether ==
    ASSUME NEW records \in Seq(EventType), NEW e \in Keyed(records), NEW f \in Keyed(records),
           Linked(e, f)
    PROVE  RootIn(records, e) = RootIn(records, f)
  BY RootOfIds DEF Linked

\* What has one root hangs together.
LEMMA TogetherIsLinked ==
    ASSUME NEW records \in Seq(EventType), NEW r,
           NEW part, part # {}, NEW rest, rest # {},
           part \intersect rest = {},
           part \union rest = {e \in Keyed(records) : RootIn(records, e) = r}
    PROVE  \E e \in part, f \in rest : Linked(e, f)
<1>. SUFFICES ASSUME \A e \in part, f \in rest : ~ Linked(e, f) PROVE FALSE
  OBVIOUS
<1>. DEFINE P == UNION {e.ids : e \in part}
            uf == Forest(records)
<1>0. \A e \in part \union rest : e \in Keyed(records) /\ RootIn(records, e) = r
  OBVIOUS
<1>1. ASSUME NEW d \in ToSet(records) PROVE d.ids \subseteq P \/ d.ids \intersect P = {}
  <2>1. CASE d.ids = {}
    BY <2>1
  <2>2. CASE d \in part
    BY <2>2
  <2>3. CASE d \in rest
    BY <2>3 DEF Linked
  <2>4. CASE d.ids # {} /\ d \notin part \union rest
    <3>1. d \in Keyed(records) /\ RootIn(records, d) # r
      BY <2>4 DEF Keyed
    <3>2. \A e \in part : ~ Linked(d, e)
      BY <1>0, <3>1, LinkedIsTogether
    <3>. QED
      BY <3>2 DEF Linked
  <2>. QED
    BY <2>1, <2>2, <2>3, <2>4
<1>2. PICK e \in part, f \in rest : TRUE
  OBVIOUS
<1>3. /\ SmallestOf(e.ids) \in e.ids /\ SmallestOf(f.ids) \in f.ids
      /\ SmallestOf(e.ids) \in Identifiers(records) /\ SmallestOf(f.ids) \in Identifiers(records)
      /\ Find(uf, SmallestOf(e.ids)) = r /\ Find(uf, SmallestOf(f.ids)) = r
  BY <1>0, RootOfIds DEF RootIn
<1>4. SmallestOf(e.ids) \in P
  BY <1>3
<1>5. SmallestOf(f.ids) \notin P
  BY <1>3 DEF Linked
<1>. HIDE DEF P
<1>6. Respects(uf, Identifiers(records), P)
  BY <1>1, ForestIs
<1>. HIDE DEF uf
<1>. QED
  BY <1>3, <1>4, <1>5, <1>6 DEF Respects

\* Union-find finds the components of the graph of shared identifiers.
LEMMA ExactFindsComponents ==
    ASSUME NEW records \in Seq(EventType)
    PROVE  /\ UNION {c.events : c \in Exact(records)} = Keyed(records)
           /\ \A c \in Exact(records) : \A part \in SUBSET c.events :
                part # {} /\ part # c.events =>
                    \E e \in part, f \in c.events \ part : Linked(e, f)
           /\ \A c, d \in Exact(records) : c # d =>
                \A e \in c.events, f \in d.events : ~ Linked(e, f)
<1>. DEFINE Of(e) == {f \in Keyed(records) : RootIn(records, f) = RootIn(records, e)}
<1>1. \A c : c \in Exact(records) <=> \E e \in Keyed(records) : c = Component(Of(e))
  BY ExactIs
<1>2. \A m : Component(m).events = m
  BY DEF Component
<1>3. UNION {c.events : c \in Exact(records)} = Keyed(records)
  <2>0. \A e \in Keyed(records) : Of(e) \subseteq Keyed(records) /\ e \in Of(e)
    OBVIOUS
  <2>. HIDE DEF Of
  <2>1. ASSUME NEW c \in Exact(records) PROVE c.events \subseteq Keyed(records)
    <3>1. PICK e \in Keyed(records) : c = Component(Of(e))
      BY <1>1
    <3>2. c.events = Of(e)
      BY <1>2, <3>1
    <3>. QED
      BY <2>0, <3>2
  <2>2. ASSUME NEW e \in Keyed(records) PROVE \E c \in Exact(records) : e \in c.events
    <3>1. Component(Of(e)) \in Exact(records)
      BY <1>1
    <3>2. e \in Component(Of(e)).events
      BY <1>2, <2>0
    <3>. QED
      BY <3>1, <3>2
  <2>. QED
    BY <2>1, <2>2
<1>4. ASSUME NEW c \in Exact(records), NEW part \in SUBSET c.events, part # {}, part # c.events
      PROVE  \E e \in part, f \in c.events \ part : Linked(e, f)
  <2>1. PICK e \in Keyed(records) : c = Component(Of(e))
    BY <1>1
  <2>2. c.events = Of(e)
    BY <1>2, <2>1
  <2>. DEFINE rest == c.events \ part
              r == RootIn(records, e)
  <2>3. /\ rest # {} /\ part \intersect rest = {}
        /\ part \union rest = {f \in Keyed(records) : RootIn(records, f) = r}
    BY <1>4, <2>2
  <2>. HIDE DEF rest, r
  <2>4. \E d \in part, f \in rest : Linked(d, f)
    <3>1. part # {} /\ rest # {} /\ part \intersect rest = {}
      BY <1>4, <2>3
    <3>. QED
      BY <2>3, <3>1, TogetherIsLinked
  <2>. QED
    BY <2>4 DEF rest
<1>5. ASSUME NEW c \in Exact(records), NEW d \in Exact(records), c # d,
             NEW e \in c.events, NEW f \in d.events, Linked(e, f)
      PROVE  FALSE
  <2>1. PICK x \in Keyed(records) : c = Component(Of(x))
    BY <1>1
  <2>2. PICK y \in Keyed(records) : d = Component(Of(y))
    BY <1>1
  <2>3. e \in Of(x) /\ f \in Of(y)
    BY <1>2, <2>1, <2>2
  <2>4. RootIn(records, e) = RootIn(records, f)
    BY <1>5, <2>3, LinkedIsTogether
  <2>5. Of(x) = Of(y)
    BY <2>3, <2>4
  <2>. QED
    BY <1>5, <2>1, <2>2, <2>5
<1>. QED
  BY <1>3, <1>4, <1>5

\* Union-find with ranks and recursive roots finds the connected components of the graph
\* of shared identifiers (ExactIsConnectivity), in every state of the request.
THEOREM UnionFindIsConnectivity ==
    ASSUME Calls = 1 PROVE Spec => []ExactIsConnectivity
<1>1. BaseInv => ExactIsConnectivity
  <2>. SUFFICES ASSUME BaseInv PROVE ExactIsConnectivity
    OBVIOUS
  <2>. DEFINE records == ByKey(Parsed)
  <2>1. records \in Seq(EventType) /\ Keyed(records) = {e \in Parsed : e.ids # {}}
    BY ParsedIs
  <2>. HIDE DEF records
  <2>2. /\ UNION {c.events : c \in Exact(records)} = Keyed(records)
        /\ \A c \in Exact(records) : \A part \in SUBSET c.events :
             part # {} /\ part # c.events =>
                 \E e \in part, f \in c.events \ part : Linked(e, f)
        /\ \A c, d \in Exact(records) : c # d =>
             \A e \in c.events, f \in d.events : ~ Linked(e, f)
    BY <2>1, ExactFindsComponents
  <2>. QED
    BY <2>1, <2>2 DEF ExactIsConnectivity, Linked, records
<1>. QED
  BY <1>1, BaseHolds, PTL

-----------------------------------------------------------------------------
(* The rows join the journey.                                              *)

\* No parsed event with an identifier is lost.
Kept == \A r \in delivered : \A e \in Normalize(r) : e.ids # {} => e \in Parsed

\* Parsing does not depend on the state.
LEMMA NormalizeStays == ASSUME NEW r PROVE Normalize(r)' = Normalize(r)
  BY DEF Normalize

\* Every step keeps what is parsed.
LEMMA KeptStep ==
    ASSUME Calls = 1, BaseInv, BaseInv', Kept, [Next]_vars
    PROVE  Kept'
<1>0. journey \in Journeys /\ Named(Made(journey)) /\ Parsed \subseteq Made(journey)
      /\ delivered \subseteq Records(journey)
  <2>1. journey \in Journeys /\ delivered \subseteq Records(journey)
    BY DEF BaseInv, HeldOK
  <2>. QED
    BY <2>1, MadeNamed, ParsedIs
<1>1. ASSUME NEW r \in Records(journey), Deliver(r)
      PROVE  Parsed \subseteq Parsed' /\ \A e \in Normalize(r) : e.ids # {} => e \in Parsed'
  <2>1. CASE Normalize(r) = {} /\ UNCHANGED <<open, loose, flows>>
    BY <2>1 DEF Parsed
  <2>2. ASSUME NEW e \in Normalize(r), Accept(e)
        PROVE  Parsed \subseteq Parsed' /\ (e.ids # {} => e \in Parsed')
    <3>1. open \subseteq open' /\ flows' = flows
      BY <2>2 DEF Accept
    <3>2. Parsed \subseteq Parsed'
      BY <3>1 DEF Parsed
    <3>3. CASE e.ids # {} /\ ~ Held(e)
      <4>1. e \in open'
        BY <2>2, <3>3 DEF Accept
      <4>. QED
        BY <3>2, <4>1 DEF Parsed
    <3>4. CASE e.ids # {} /\ Held(e)
      <4>1. PICK f \in open \union loose : f.id = e.id
        BY <3>4 DEF Held
      <4>2. f \in Made(journey) /\ e \in Made(journey)
        BY DEF BaseInv, HeldOK, Made
      <4>3. f = e
        BY <1>0, <4>1, <4>2 DEF Named
      <4>4. e \in open
        BY <3>4, <4>3 DEF BaseInv, HeldOK
      <4>. QED
        BY <3>1, <3>2, <4>4 DEF Parsed
    <3>. QED
      BY <3>2, <3>3, <3>4
  <2>3. ASSUME NEW e \in Normalize(r), AcceptLate(e)
        PROVE  Parsed \subseteq Parsed' /\ e \in Parsed'
    <3>1. PICK f \in flows : f.key \in e.ids /\ flows' = (flows \ {f}) \union {Amend(f, e)}
      BY <2>3 DEF AcceptLate
    <3>2. Faithful(f) /\ EventsOK(f.events) /\ e \in Made(journey) /\ e.ids # {}
      BY <3>1 DEF BaseInv, FlowsOK, Made
    <3>. DEFINE g == Amend(f, e)
    <3>3. \/ g = f /\ \E d \in ToSet(f.events) : d.id = e.id
          \/ ToSet(g.events) = ToSet(f.events) \union {e}
      BY <1>0, <3>2, AmendIs
    <3>. HIDE DEF g
    <3>4. ToSet(f.events) \subseteq ToSet(g.events) /\ e \in ToSet(g.events)
      <4>1. ToSet(f.events) \subseteq Made(journey)
        BY <3>2 DEF EventsOK
      <4>. QED
        BY <1>0, <3>2, <3>3, <4>1 DEF Named
    <3>5. open' = open /\ flows' = (flows \ {f}) \union {g}
      BY <2>3, <3>1 DEF AcceptLate, g
    <3>. QED
      BY <3>4, <3>5 DEF Parsed, EventsOf
  <2>4. \A d, e \in Normalize(r) : d = e
    <3>1. ASSUME NEW e \in Normalize(r)
          PROVE  r.provider \in {"cloudflare", "datadome", "f5asm", "nginx"}
      BY <1>0, EventIs
    <3>. QED
      BY <3>1, OneEvent
  <2>. QED
    BY <1>1, <2>1, <2>2, <2>3, <2>4 DEF Deliver
<1>2. ASSUME NEW c \in Exact(ByKey(open)), Close(c)
      PROVE  Parsed \subseteq Parsed'
  <2>1. PICK arrived \in Arrivals(c.events) : flows' = flows \union {Flow(c, arrived)}
    BY <1>2 DEF Close
  <2>2. ToSet(Flow(c, arrived).events) = c.events /\ open' = open \ c.events
    BY <1>2, FlowIs DEF Close
  <2>. QED
    BY <2>1, <2>2 DEF Parsed, EventsOf
<1>3. CASE \E r \in Records(journey) : Deliver(r)
  <2>1. PICK r \in Records(journey) : Deliver(r)
    BY <1>3
  <2>2. delivered' = delivered \union {r}
    BY <2>1 DEF Deliver
  <2>. QED
    BY <1>1, <2>1, <2>2, NormalizeStays DEF Kept
<1>4. CASE \E c \in Exact(ByKey(open)) : Close(c)
  <2>1. PICK c \in Exact(ByKey(open)) : Close(c)
    BY <1>4
  <2>2. delivered' = delivered
    BY <2>1 DEF Close
  <2>. QED
    BY <1>2, <2>1, <2>2, NormalizeStays DEF Kept
<1>5. CASE UNCHANGED vars
  BY <1>5, NormalizeStays DEF vars, Kept, Parsed, EventsOf
<1>. QED
  BY <1>3, <1>4, <1>5 DEF Next

\* The rows of the request whose events WholeJourney waits for.
SiteRows == {r \in Records(journey) : r.provider = "cloudflare" /\ r.host = "site"}

\* With those rows, every event that carries an identifier is linked to the visitor's row.
LEMMA RowsLinkAll ==
    ASSUME Calls = 1, BaseInv, Kept, SiteRows \subseteq delivered,
           NEW row \in Parsed, row.provider = "cloudflare"
    PROVE  LET records == ByKey(Parsed)
           IN  \E v \in Keyed(records) :
                  \A e \in Keyed(records) : RootIn(records, e) = RootIn(records, v)
<1>. DEFINE records == ByKey(Parsed)
            j == journey
<1>0. /\ j \in Journeys /\ Parsed \subseteq Made(j) /\ Named(Parsed) /\ Named(Made(j))
      /\ records \in Seq(EventType)
      /\ Keyed(records) = {e \in Parsed : e.ids # {}}
  <2>1. j \in Journeys
    BY DEF BaseInv, HeldOK
  <2>. QED
    BY <2>1, ParsedIs, MadeNamed
<1>. HIDE DEF records
<1>1. ASSUME NEW e \in Parsed PROVE \E r \in Records(j) : e \in Normalize(r) /\ Kind(j, r, e)
  BY <1>0, EventIs DEF Made
<1>2. /\ IsAnswer(j.edge) /\ j.clock[Edge] \in Int
  BY <1>0, JourneyIs DEF Layer, Edge, Origin
<1>3. j.clock[Edge] # Unreadable
  <2>1. PICK r \in Records(j) : row \in Normalize(r) /\ Kind(j, r, row)
    BY <1>1
  <2>2. EdgeKind(j, r, row) \/ FetchKind(j, r, row)
    BY <2>1 DEF Kind, CallKind, ExportKind, WafKind, OriginKind, Seen
  <2>3. CASE r = VisitorRow(j)
    BY <1>2, <2>1, <2>3, RowEventIs DEF VisitorRow
  <2>4. CASE r = FetchRow(j)
    BY <1>2, <2>1, <2>4, RowEventIs, NoAnswerIs DEF FetchRow
  <2>. QED
    BY <2>2, <2>3, <2>4 DEF EdgeKind, FetchKind
\* The visitor's row ...
<1>4. PICK v \in Parsed : v.ids = EdgeIds(j, VisitorRay, Absent) /\ v.id = CF(VisitorRay)
  <2>1. VisitorRow(j) \in SiteRows
    BY EdgeRowIs DEF SiteRows, VisitorRow, Records
  <2>2. PICK e \in Normalize(VisitorRow(j)) : TRUE
    BY <1>2, <1>3, RowEventIs DEF VisitorRow
  <2>3. e.ids = EdgeIds(j, VisitorRay, Absent) /\ e.id = CF(VisitorRay)
    BY <1>2, <2>2, RowEventIs DEF VisitorRow, Seen
  <2>4. VisitorRay \in e.ids
    BY <2>3 DEF EdgeIds, VisitorRay, Absent, Usable, Placeholder
  <2>. QED
    BY <2>1, <2>2, <2>3, <2>4 DEF Kept
<1>5. VisitorRay \in v.ids /\ (PassesEdge(j) => DataDomeId \in v.ids) /\ v \in Keyed(records)
  <2>1. VisitorRay \in v.ids
    BY <1>4 DEF EdgeIds, VisitorRay, Absent, Usable, Placeholder
  <2>2. PassesEdge(j) => DataDomeId \in v.ids
    BY <1>4 DEF EdgeIds, DataDomeId, Absent, Usable, Placeholder
  <2>3. v \in Keyed(records)
    BY <1>0, <1>4, <2>1
  <2>. QED
    BY <2>1, <2>2, <2>3
\* ... and the row of the Worker's fetch, if there is one.
<1>6. ASSUME Waf \in Reaches(j), ViaWorker(j)
      PROVE  \E w \in Keyed(records) : FetchRay \in w.ids /\ VisitorRay \in w.ids
  <2>1. FetchRow(j) \in SiteRows
    BY <1>6, EdgeRowIs DEF SiteRows, FetchRow, Records
  <2>2. PICK e \in Normalize(FetchRow(j)) : TRUE
    BY <1>2, <1>3, RowEventIs, NoAnswerIs DEF FetchRow
  <2>3. e.ids = EdgeIds(j, FetchRay, VisitorRay)
    BY <1>2, <2>2, RowEventIs, NoAnswerIs DEF FetchRow, Seen
  <2>4. FetchRay \in e.ids /\ VisitorRay \in e.ids
    BY <2>3 DEF EdgeIds, VisitorRay, FetchRay, Absent, Usable, Placeholder
  <2>5. e \in Parsed
    BY <2>1, <2>2, <2>4 DEF Kept
  <2>. QED
    BY <1>0, <2>4, <2>5
<1>7. \A e, f \in Keyed(records) : Linked(e, f) => RootIn(records, e) = RootIn(records, f)
  BY <1>0, LinkedIsTogether
<1>8. Waf \in Reaches(j) => \A e \in Keyed(records) :
         OriginRay(j) \in e.ids => RootIn(records, e) = RootIn(records, v)
  <2>. SUFFICES ASSUME Waf \in Reaches(j), NEW e \in Keyed(records), OriginRay(j) \in e.ids
                PROVE  RootIn(records, e) = RootIn(records, v)
    OBVIOUS
  <2>1. CASE ViaWorker(j)
    <3>1. PICK w \in Keyed(records) : FetchRay \in w.ids /\ VisitorRay \in w.ids
      BY <1>6, <2>1
    <3>2. Linked(e, w) /\ Linked(w, v)
      BY <1>5, <2>1, <3>1 DEF Linked, OriginRay
    <3>. QED
      BY <1>5, <1>7, <3>2
  <2>2. CASE ~ ViaWorker(j)
    BY <1>5, <1>7, <2>2 DEF Linked, OriginRay
  <2>. QED
    BY <2>1, <2>2
<1>9. ASSUME NEW e \in Keyed(records) PROVE RootIn(records, e) = RootIn(records, v)
  <2>0. e \in Parsed /\ e.ids # {}
    BY <1>0
  <2>1. PICK r \in Records(j) : Kind(j, r, e)
    BY <1>1, <2>0
  <2>2. CASE EdgeKind(j, r, e) \/ CallKind(j, r, e) \/ FetchKind(j, r, e)
    <3>1. VisitorRay \in e.ids
      BY <2>2 DEF EdgeKind, CallKind, FetchKind, Seen, EdgeIds, VisitorRay, FetchRay, Absent, Usable, Placeholder
    <3>. QED
      BY <1>5, <1>7, <3>1 DEF Linked
  <2>3. CASE ExportKind(j, r, e)
    <3>1. DataDomeId \in e.ids /\ PassesEdge(j)
      BY <2>3, ReachesIs DEF ExportKind, Seen
    <3>. QED
      BY <1>5, <1>7, <3>1 DEF Linked
  <2>4. CASE WafKind(j, r, e)
    <3>1. OriginRay(j) \in e.ids /\ Waf \in Reaches(j)
      BY <2>0, <2>4 DEF WafKind, Seen, WafRay
    <3>. QED
      BY <1>8, <3>1
  <2>5. CASE OriginKind(j, r, e)
    <3>1. OriginRay(j) \in e.ids /\ Waf \in Reaches(j)
      BY <2>5, ReachesIs DEF OriginKind, Seen, Layer, Edge, Waf, Origin
    <3>. QED
      BY <1>8, <3>1
  <2>. QED
    BY <2>1, <2>2, <2>3, <2>4, <2>5 DEF Kind
<1>. QED
  BY <1>5, <1>9 DEF records

\* Records with one root are one component.
LEMMA OneComponent ==
    ASSUME NEW records, NEW v \in Keyed(records),
           \A e \in Keyed(records) : RootIn(records, e) = RootIn(records, v)
    PROVE  Cardinality(Exact(records)) = 1
<1>. DEFINE Of(e) == {f \in Keyed(records) : RootIn(records, f) = RootIn(records, e)}
<1>1. \A c : c \in Exact(records) <=> \E e \in Keyed(records) : c = Component(Of(e))
  BY ExactIs
<1>2. \A e \in Keyed(records) : Of(e) = Of(v)
  OBVIOUS
<1>. HIDE DEF Of
<1>3. Exact(records) = {Component(Of(v))}
  BY <1>1, <1>2
<1>. QED
  BY <1>3, FS_Singleton

\* Once Cloudflare's rows of the site are there, all records with an identifier are one
\* component (WholeJourney), whichever layers the request reached and over whichever
\* channel DataDome's verdict came.
THEOREM RowsJoinTheJourney ==
    ASSUME Calls = 1 PROVE Spec => []WholeJourney
<1>1. Init => Kept
  BY DEF Init, Kept
<1>2. BaseInv /\ BaseInv' /\ Kept /\ [Next]_vars => Kept'
  BY KeptStep
<1>3. BaseInv /\ Kept => WholeJourney
  <2>. DEFINE rows == {e \in Parsed : e.provider = "cloudflare"}
  <2>. SUFFICES ASSUME BaseInv, Kept, SiteRows \subseteq delivered, Cardinality(rows) > 0
                PROVE  Cardinality(Exact(ByKey(Parsed))) = 1
    BY DEF WholeJourney, SiteRows
  <2>1. rows # {}
    BY FS_EmptySet
  <2>2. PICK row \in Parsed : row.provider = "cloudflare"
    BY <2>1
  <2>. DEFINE records == ByKey(Parsed)
  <2>3. \E v \in Keyed(records) :
           \A e \in Keyed(records) : RootIn(records, e) = RootIn(records, v)
    BY <2>2, RowsLinkAll
  <2>. HIDE DEF records
  <2>4. Cardinality(Exact(records)) = 1
    BY <2>3, OneComponent
  <2>. QED
    BY <2>4 DEF records
<1>. QED
  BY <1>1, <1>2, <1>3, BaseHolds, PTL DEF Spec
=============================================================================

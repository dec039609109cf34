--------------------------- MODULE Profiler_proofs ---------------------------
(***************************************************************************)
(* The traffic profiler, for any messages, thresholds, caps, faults and    *)
(* restarts: the type lattice is one, templates settle, merging conserves  *)
(* what endpoints have learned, nothing is acked before it is in the table *)
(* and the table follows the aggregator, but for rows deleted under a live *)
(* endpoint; and such a row there is only where values of two promotable   *)
(* types meet at one depth of the paths.                                   *)
(***************************************************************************)
EXTENDS Profiler, FiniteSetTheorems, SequenceTheorems, WellFoundedInduction, TLAPS

\* types.go:130: Join returns the least upper bound of two types.
THEOREM LeastUpperBound == JoinIsLeastUpperBound
BY SMTT(300) DEF JoinIsLeastUpperBound, ValueType, Join, Below, AlnumCharset

\* The recorded type does not depend on the order of the observations.
THEOREM OrderFree == JoinIsOrderFree
BY SMTT(300) DEF JoinIsOrderFree, ValueType, Join, AlnumCharset

-----------------------------------------------------------------------------
(* Loops.                                                                   *)

LEMMA LeastElement ==
    ASSUME NEW T, T \subseteq Nat, T # {}
    PROVE  \E x \in T : \A y \in T : x <= y
<1>. DEFINE Less == OpToRel(<, Nat)
<1>1. IsWellFoundedOn(Less, Nat)
  BY NatLessThanWellFounded
<1>2. \A y, z \in Nat : y < z => <<y, z>> \in Less
  BY DEF OpToRel
<1>. HIDE DEF Less
<1>3. PICK x \in T : \A y \in T : ~ (<<y, x>> \in Less)
  BY <1>1, WFMin, Zenon
<1>4. \A y \in T : ~ (y < x)
  BY <1>2, <1>3
<1>. QED
  BY <1>4

\* What holds at the start of a loop and is kept by every round holds after each.
LEMMA Loop ==
    ASSUME NEW n \in Nat, NEW T, 0 \in T,
           \A i \in 0..n : i \in T /\ i + 1 <= n => i + 1 \in T
    PROVE  0..n \subseteq T
<1>. DEFINE Bad == {i \in 0..n : i \notin T}
<1>. SUFFICES Bad = {}
  OBVIOUS
<1>. SUFFICES ASSUME Bad # {} PROVE FALSE
  OBVIOUS
<1>1. PICK x \in Bad : \A y \in Bad : x <= y
  <2>. HIDE DEF Bad
  <2>1. Bad \subseteq Nat
    BY DEF Bad
  <2>. QED
    BY <2>1, LeastElement
<1>2. x # 0 /\ x - 1 \in 0..n /\ x - 1 \notin Bad
  BY <1>1
<1>. QED
  BY <1>1, <1>2

-----------------------------------------------------------------------------
(* Templates and decisions.                                                 *)

\* A path in which some segments may be types.
Template == Seq(Segment \union ValueType)

\* Every decision is for a type.
EngineOK(e) ==
    /\ e = [collapses |-> e.collapses, stats |-> e.stats]
    /\ DOMAIN e.collapses \subseteq Template
    /\ \A p \in DOMAIN e.collapses : e.collapses[p] \in ValueType

\* No literal of the template u is under a parameter it matches.
Literal(e, u, j) == Templated(e, SubSeq(u, 1, j - 1), u[j]) = u[j]
Settled(e, u) == \A j \in 1..Len(u) : u[j] \in ValueType \/ Literal(e, u, j)

LEMMA RenormalizeSteps ==
    ASSUME NEW e, NEW u \in Template
    PROVE  \E after :
              /\ after[0] = << >>
              /\ \A i \in 1..Len(u) : after[i] = RenormalizeSegment(e, after[i - 1], u[i])
              /\ Renormalize(e, u) = after[Len(u)]
<1>. DEFINE Rounds(f, n) ==
        f = [i \in 0..n |-> IF i = 0 THEN << >> ELSE RenormalizeSegment(e, f[i - 1], u[i])]
            T == {n \in Nat : \E f : Rounds(f, n)}
<1>0. Len(u) \in Nat
  BY DEF Template
<1>1. 0 \in T
  <2>. DEFINE f == [i \in 0..0 |-> << >>]
  <2>1. Rounds(f, 0)
    OBVIOUS
  <2>. QED
    BY <2>1
<1>2. ASSUME NEW n \in Nat, n \in T
      PROVE  n + 1 \in T
  <2>. PICK f : Rounds(f, n)
    BY <1>2
  <2>. DEFINE g == [i \in 0..(n + 1) |->
                      IF i = n + 1 THEN RenormalizeSegment(e, f[n], u[n + 1]) ELSE f[i]]
  <2>1. \A i \in 0..n : f[i] = IF i = 0 THEN << >> ELSE RenormalizeSegment(e, f[i - 1], u[i])
    OBVIOUS
  <2>2. \A i \in 0..(n + 1) :
           g[i] = IF i = 0 THEN << >> ELSE RenormalizeSegment(e, g[i - 1], u[i])
    BY <2>1
  <2>3. Rounds(g, n + 1)
    BY <2>2
  <2>. HIDE DEF g, Rounds
  <2>. QED
    BY <2>3
<1>3. Len(u) \in T
  <2>1. \A i \in 0..Len(u) : i \in T /\ i + 1 <= Len(u) => i + 1 \in T
    BY <1>2
  <2>. HIDE DEF T
  <2>2. 0..Len(u) \subseteq T
    BY <1>0, <1>1, <2>1, Loop
  <2>. QED
    BY <1>0, <2>2
<1>. DEFINE after == CHOOSE f : Rounds(f, Len(u))
<1>4. Rounds(after, Len(u))
  BY <1>3
<1>5. Renormalize(e, u) = after[Len(u)]
  BY DEF Renormalize
<1>6. \A i \in 0..Len(u) :
        after[i] = IF i = 0 THEN << >> ELSE RenormalizeSegment(e, after[i - 1], u[i])
  <2>. HIDE DEF after
  <2>. QED
    BY <1>4
<1>. HIDE DEF after
<1>. QED
  BY <1>0, <1>5, <1>6

\* The token or the segment itself.
LEMMA TemplatedIs ==
    ASSUME NEW e, EngineOK(e), NEW p, NEW v
    PROVE  Templated(e, p, v) = v \/ Templated(e, p, v) \in ValueType
BY DEF Templated, EngineOK

\* A template stays settled when a token, or a literal that is none, is added.
LEMMA AppendSettled ==
    ASSUME NEW e, NEW w \in Template, Settled(e, w),
           NEW x \in Segment \union ValueType, x \in ValueType \/ Templated(e, w, x) = x
    PROVE  /\ Append(w, x) \in Template /\ Len(Append(w, x)) = Len(w) + 1
           /\ Settled(e, Append(w, x))
<1>. DEFINE i == Len(w)
<1>1. /\ Append(w, x) \in Template /\ Len(Append(w, x)) = i + 1 /\ i \in Nat
      /\ \A j \in 1..i : Append(w, x)[j] = w[j]
      /\ Append(w, x)[i + 1] = x
  BY DEF Template
<1>2. \A j \in 1..(i + 1) : SubSeq(Append(w, x), 1, j - 1) = SubSeq(w, 1, j - 1)
  BY <1>1 DEF Template
<1>3. SubSeq(w, 1, i) = w
  BY DEF Template
<1>4. ASSUME NEW j \in 1..(i + 1)
      PROVE  Append(w, x)[j] \in ValueType \/ Literal(e, Append(w, x), j)
  <2>1. CASE j = i + 1
    <3>1. SubSeq(Append(w, x), 1, j - 1) = w
      BY <1>1, <1>2, <1>3, <2>1
    <3>. QED
      BY <1>1, <2>1, <3>1 DEF Literal
  <2>2. CASE j # i + 1
    <3>1. j \in 1..Len(w)
      BY <1>1, <2>2
    <3>2. w[j] \in ValueType \/ Literal(e, w, j)
      BY <3>1 DEF Settled
    <3>. QED
      BY <1>1, <1>2, <3>1, <3>2 DEF Literal
  <2>. QED
    BY <2>1, <2>2
<1>. QED
  BY <1>1, <1>4 DEF Settled

LEMMA RenormalizeSettles ==
    ASSUME NEW e, EngineOK(e), NEW u \in Template
    PROVE  /\ Renormalize(e, u) \in Template
           /\ Len(Renormalize(e, u)) = Len(u)
           /\ Settled(e, Renormalize(e, u))
           /\ Settled(e, u) => Renormalize(e, u) = u
<1>. PICK after :
       /\ after[0] = << >>
       /\ \A i \in 1..Len(u) : after[i] = RenormalizeSegment(e, after[i - 1], u[i])
       /\ Renormalize(e, u) = after[Len(u)]
  BY RenormalizeSteps
<1>0. Len(u) \in Nat /\ \A i \in 1..Len(u) : u[i] \in Segment \union ValueType
  BY DEF Template
<1>. DEFINE Good(w, i) == w \in Template /\ Len(w) = i /\ Settled(e, w)
            T == {i \in 0..Len(u) : Good(after[i], i)}
            S == {i \in 0..Len(u) : Settled(e, u) => after[i] = SubSeq(u, 1, i)}
<1>1. 0 \in T
  <2>. << >> \in Template /\ Len(<< >>) = 0
    BY DEF Template
  <2>. QED
    BY <1>0 DEF Settled
<1>2. ASSUME NEW i \in 0..Len(u), i \in T, i + 1 <= Len(u)
      PROVE  i + 1 \in T
  <2>. DEFINE w == after[i]
              x == IF u[i + 1] \in ValueType THEN u[i + 1] ELSE Templated(e, w, u[i + 1])
  <2>1. w \in Template /\ Len(w) = i /\ Settled(e, w)
    BY <1>2
  <2>. i + 1 \in 1..Len(u) /\ (i + 1) - 1 = i
    BY <1>0, <1>2
  <2>2. after[i + 1] = Append(w, x)
    BY <1>0 DEF RenormalizeSegment
  <2>3. x \in Segment \union ValueType /\ (x \in ValueType \/ Templated(e, w, x) = x)
    BY <1>0, <1>2, TemplatedIs
  <2>. HIDE DEF w, x
  <2>4. /\ Append(w, x) \in Template /\ Len(Append(w, x)) = i + 1
        /\ Settled(e, Append(w, x))
    BY <2>1, <2>3, AppendSettled
  <2>9. Good(after[i + 1], i + 1)
    BY <2>2, <2>4
  <2>. HIDE DEF Good
  <2>. QED
    BY <2>9
<1>3. Len(u) \in T
  <2>1. \A i \in 0..Len(u) : i \in T /\ i + 1 <= Len(u) => i + 1 \in T
    BY <1>2
  <2>. HIDE DEF T
  <2>2. 0..Len(u) \subseteq T
    BY <1>0, <1>1, <2>1, Loop
  <2>. QED
    BY <1>0, <2>2
<1>4. 0 \in S
  <2>1. SubSeq(u, 1, 0) = << >>
    BY <1>0, SubSeqEmpty
  <2>2. after[0] = SubSeq(u, 1, 0) /\ 0 \in 0..Len(u)
    BY <1>0, <2>1
  <2>. QED
    BY <2>2
<1>5. ASSUME NEW i \in 0..Len(u), i \in S, i + 1 <= Len(u)
      PROVE  i + 1 \in S
  <2>. SUFFICES ASSUME Settled(e, u) PROVE after[i + 1] = SubSeq(u, 1, i + 1)
    BY <1>5
  <2>. i + 1 \in 1..Len(u) /\ (i + 1) - 1 = i
    BY <1>0, <1>5
  <2>1. after[i] = SubSeq(u, 1, i)
    BY <1>5
  <2>2. after[i + 1] = RenormalizeSegment(e, after[i], u[i + 1])
    OBVIOUS
  <2>3. u[i + 1] \in ValueType \/ Templated(e, SubSeq(u, 1, i), u[i + 1]) = u[i + 1]
    BY <1>0, <1>5 DEF Settled, Literal
  <2>4. after[i + 1] = Append(SubSeq(u, 1, i), u[i + 1])
    BY <2>1, <2>2, <2>3 DEF RenormalizeSegment
  <2>. QED
    BY <1>0, <1>5, <2>4 DEF Template
<1>6. Len(u) \in S
  <2>1. \A i \in 0..Len(u) : i \in S /\ i + 1 <= Len(u) => i + 1 \in S
    BY <1>5
  <2>. HIDE DEF S
  <2>2. 0..Len(u) \subseteq S
    BY <1>0, <1>4, <2>1, Loop
  <2>. QED
    BY <1>0, <2>2
<1>7. SubSeq(u, 1, Len(u)) = u
  BY DEF Template
<1>. QED
  BY <1>3, <1>6, <1>7
LEMMA BelowIs ==
    \A a, b \in ValueType :
        Below(a, b) <=> \/ a = "empty" \/ a = b \/ b = "freetext"
                        \/ a = "int" /\ b \in {"float", "hex"}
                        \/ a \in AlnumCharset /\ b = "alnum"
BY SMTT(60) DEF ValueType, Below, Join, AlnumCharset

\* Any types have a join, and one type alone is its own.
LEMMA JoinAllIs ==
    ASSUME NEW T, T \subseteq ValueType
    PROVE  /\ JoinAll(T) \in ValueType
           /\ \A s \in T : Below(s, JoinAll(T))
           /\ \A s : T = {s} => JoinAll(T) = s
<1>. DEFINE Upper(t) == \A s \in T : Below(s, t)
            Least(t) == Upper(t) /\ \A b \in ValueType : Upper(b) => Below(t, b)
<1>1. \E t \in ValueType : Least(t)
  <2>1. CASE T \subseteq {"empty"}
    <3>1. "empty" \in ValueType /\ Least("empty")
      BY <2>1, BelowIs DEF ValueType
    <3>. QED
      BY <3>1
  <2>2. CASE \E s \in T : T \subseteq {"empty", s}
    <3>. PICK s \in T : T \subseteq {"empty", s}
      BY <2>2
    <3>1. s \in ValueType /\ Least(s)
      BY BelowIs DEF ValueType
    <3>. QED
      BY <3>1
  <2>. DEFINE Two == ~ (T \subseteq {"empty"}) /\ ~ (\E s \in T : T \subseteq {"empty", s})
  <2>3. CASE Two /\ T \subseteq {"empty", "int", "float"}
    <3>1. "float" \in ValueType /\ Least("float")
      BY <2>3, BelowIs DEF ValueType, AlnumCharset
    <3>. QED
      BY <3>1
  <2>4. CASE Two /\ T \subseteq {"empty", "int", "hex"}
    <3>1. "hex" \in ValueType /\ Least("hex")
      BY <2>4, BelowIs DEF ValueType, AlnumCharset
    <3>. QED
      BY <3>1
  <2>5. CASE /\ Two /\ T \subseteq AlnumCharset \union {"empty"}
             /\ ~ (T \subseteq {"empty", "int", "hex"})
    <3>1. "alnum" \in ValueType /\ Least("alnum")
      BY <2>5, BelowIs DEF ValueType, AlnumCharset
    <3>. QED
      BY <3>1
  <2>6. CASE /\ Two /\ ~ (T \subseteq AlnumCharset \union {"empty"})
             /\ ~ (T \subseteq {"empty", "int", "float"})
    <3>1. "freetext" \in ValueType /\ Least("freetext")
      BY <2>6, BelowIs DEF ValueType, AlnumCharset
    <3>. QED
      BY <3>1
  <2>. QED
    BY <2>1, <2>2, <2>3, <2>4, <2>5, <2>6
<1>2. JoinAll(T) \in ValueType /\ Least(JoinAll(T))
  BY <1>1 DEF JoinAll
<1>3. ASSUME NEW s, T = {s} PROVE JoinAll(T) = s
  <2>1. s \in ValueType /\ Upper(s)
    BY <1>3, BelowIs
  <2>2. Below(s, JoinAll(T)) /\ Below(JoinAll(T), s)
    BY <1>2, <1>3, <2>1
  <2>. QED
    BY <1>2, <2>1, <2>2, BelowIs DEF ValueType, AlnumCharset
<1>. QED
  BY <1>2, <1>3

LEMMA RekeyedIs ==
    ASSUME NEW key \in Template, NEW prefix \in Template, NEW t \in ValueType
    PROVE  /\ Rekeyed(key, prefix, t) \in Template
           /\ Len(Rekeyed(key, prefix, t)) = Len(key)
           /\ Len(key) <= Len(prefix) => Rekeyed(key, prefix, t) = key
<1>1. CASE IsStrictPrefix(prefix, key) /\ Matches(key[Len(prefix) + 1], t)
  <2>1. Len(prefix) \in Nat /\ Len(key) \in Nat /\ Len(prefix) <= Len(key)
    BY <1>1 DEF IsStrictPrefix, IsPrefix, Template
  <2>2. Len(prefix) # Len(key)
    <3>. SUFFICES ASSUME Len(prefix) = Len(key) PROVE FALSE
      OBVIOUS
    <3>1. SubSeq(prefix, 1, Len(prefix)) = SubSeq(key, 1, Len(key)) /\ prefix # key
      BY <1>1 DEF IsStrictPrefix, IsPrefix
    <3>. QED
      BY <3>1, SubSeqFull DEF Template
  <2>3. Len(prefix) + 1 \in 1..Len(key)
    BY <2>1, <2>2
  <2>. QED
    BY <1>1, <2>1, <2>2, <2>3, ExceptSeq DEF Rekeyed, Template
<1>. QED
  BY <1>1 DEF Rekeyed

\* A collapse changes no decision that comes before its position.
LEMMA CollapseKeeps ==
    ASSUME NEW e, EngineOK(e), NEW prefix \in Template, NEW t \in ValueType,
           NEW c \in Collapse(e, prefix, t)
    PROVE  /\ EngineOK(c)
           /\ \A q \in Template : \A v : Len(q) < Len(prefix) =>
                 Templated(c, q, v) = Templated(e, q, v)
<1>. DEFINE types == [p \in {prefix} \union DOMAIN e.collapses |->
                         IF p = prefix THEN t ELSE e.collapses[p]]
            keys == {Rekeyed(p, prefix, t) : p \in DOMAIN types}
            under(k) == {types[p] : p \in {q \in DOMAIN types : Rekeyed(q, prefix, t) = k}}
<1>1. /\ c.collapses = [k \in keys |-> JoinAll(under(k))]
      /\ c = [collapses |-> c.collapses, stats |-> c.stats]
  <2>1. \E s : c = [collapses |-> [k \in keys |-> JoinAll(under(k))], stats |-> s]
    BY DEF Collapse
  <2>. QED
    BY <2>1
<1>2. \A p \in DOMAIN types : p \in Template /\ types[p] \in ValueType
  BY DEF EngineOK
<1>3. \A p \in DOMAIN types : /\ Rekeyed(p, prefix, t) \in Template
                              /\ Len(Rekeyed(p, prefix, t)) = Len(p)
                              /\ Len(p) <= Len(prefix) => Rekeyed(p, prefix, t) = p
  <2>. HIDE DEF types
  <2>. QED
    BY <1>2, RekeyedIs
<1>4. \A k : under(k) \subseteq ValueType
  BY <1>2
<1>5. \A k \in keys : c.collapses[k] \in ValueType
  <2>. HIDE DEF under, keys
  <2>. QED
    BY <1>1, <1>4, JoinAllIs
<1>6. EngineOK(c)
  <2>1. keys \subseteq Template
    BY <1>3
  <2>. HIDE DEF keys, under
  <2>. QED
    BY <1>1, <1>5, <2>1 DEF EngineOK
<1>7. ASSUME NEW q \in Template, Len(q) < Len(prefix)
      PROVE  /\ q \in keys <=> q \in DOMAIN e.collapses
             /\ q \in keys => c.collapses[q] = e.collapses[q]
  <2>1. \A p \in DOMAIN types : Rekeyed(p, prefix, t) = q => p = q
    <3>. HIDE DEF types
    <3>. QED
      BY <1>2, <1>3, <1>7 DEF Template
  <2>2. q # prefix /\ Rekeyed(q, prefix, t) = q
    BY <1>7, RekeyedIs DEF Template
  <2>3. q \in keys <=> q \in DOMAIN e.collapses
    BY <2>1, <2>2
  <2>4. ASSUME q \in keys PROVE c.collapses[q] = e.collapses[q]
    <3>1. under(q) = {types[q]} /\ types[q] = e.collapses[q]
      BY <2>1, <2>2, <2>3, <2>4
    <3>2. JoinAll(under(q)) = types[q]
      <4>. HIDE DEF under, types
      <4>. QED
        BY <1>4, <3>1, JoinAllIs
    <3>. QED
      BY <1>1, <2>4, <3>1, <3>2
  <2>. QED
    BY <2>3, <2>4
<1>8. ASSUME NEW q \in Template, NEW v, Len(q) < Len(prefix)
      PROVE  Templated(c, q, v) = Templated(e, q, v)
  <2>1. DOMAIN c.collapses = keys
    BY <1>1
  <2>. HIDE DEF keys
  <2>. QED
    BY <1>7, <1>8, <2>1 DEF Templated
<1>. QED
  BY <1>6, <1>8

\* What Normalize knows after i segments, with the engine e at the start.
Outcome(r, e, i) ==
    /\ r = [norm |-> r.norm, engine |-> r.engine, collapsed |-> r.collapsed]
    /\ r.norm \in Template /\ Len(r.norm) = i
    /\ EngineOK(r.engine) /\ Settled(r.engine, r.norm)
    /\ ~ r.collapsed => r.engine.collapses = e.collapses

\* Only the decisions before a template's last segment count for it.
LEMMA SettledDepends ==
    ASSUME NEW e, NEW c, NEW w \in Template, Settled(e, w),
           \A q \in Template : \A v : Len(q) < Len(w) => Templated(c, q, v) = Templated(e, q, v)
    PROVE  Settled(c, w)
<1>. SUFFICES ASSUME NEW j \in 1..Len(w), w[j] \notin ValueType
              PROVE  Literal(c, w, j)
  BY DEF Settled
<1>. DEFINE q == SubSeq(w, 1, j - 1)
<1>1. q \in Template /\ Len(q) < Len(w)
  BY DEF Template
<1>2. Templated(e, q, w[j]) = w[j]
  BY DEF Settled, Literal
<1>. HIDE DEF q
<1>3. Templated(c, q, w[j]) = w[j]
  BY <1>1, <1>2
<1>. QED
  BY <1>3 DEF Literal, q

LEMMA NormalizeSegmentKeeps ==
    ASSUME NEW e, NEW i \in Nat, NEW r, Outcome(r, e, i), NEW v \in Segment,
           NEW s \in NormalizeSegment(r, v)
    PROVE  Outcome(s, e, i + 1)
<1>1. CASE Templated(r.engine, r.norm, v) # v
  <2>. DEFINE x == Templated(r.engine, r.norm, v)
  <2>1. s = [norm |-> Append(r.norm, x), engine |-> r.engine, collapsed |-> r.collapsed]
    BY <1>1 DEF NormalizeSegment, Outcome
  <2>2. x \in ValueType
    BY <1>1, TemplatedIs DEF Outcome
  <2>. HIDE DEF x
  <2>. QED
    BY <2>1, <2>2, AppendSettled DEF Outcome
<1>2. CASE Templated(r.engine, r.norm, v) = v
  <2>. DEFINE st == StatWith(r.engine, r.norm, v)
              hit == CollapseType(st) # {}
  <2>1. PICK c \in ObserveSegment(r.engine, r.norm, v) :
          s = [norm      |-> Append(r.norm, IF hit THEN Templated(c, r.norm, v) ELSE v),
               engine    |-> c,
               collapsed |-> r.collapsed \/ hit]
    BY <1>2 DEF NormalizeSegment
  <2>2. CASE ~ hit
    <3>1. c.collapses = r.engine.collapses /\ c = [collapses |-> c.collapses, stats |-> c.stats]
      BY <2>2 DEF ObserveSegment, Outcome, EngineOK
    <3>2. EngineOK(c)
      BY <3>1 DEF EngineOK, Outcome
    <3>3. \A q, w : Templated(c, q, w) = Templated(r.engine, q, w)
      BY <3>1 DEF Templated
    <3>4. Settled(c, r.norm)
      BY <3>3 DEF Settled, Literal, Outcome
    <3>5. Settled(c, Append(r.norm, v)) /\ Append(r.norm, v) \in Template
          /\ Len(Append(r.norm, v)) = i + 1
      BY <1>2, <3>3, <3>4, AppendSettled DEF Outcome
    <3>. QED
      BY <2>1, <2>2, <3>1, <3>2, <3>5 DEF Outcome
  <2>3. CASE hit
    <3>1. PICK t \in CollapseType(st) : c \in Collapse(r.engine, r.norm, t)
      BY <2>3 DEF ObserveSegment
    <3>2. t \in ValueType
      BY DEF CollapseType, Dominant, Promotable, ValueType
    <3>3. /\ EngineOK(c)
          /\ \A q \in Template : \A w : Len(q) < Len(r.norm) =>
                Templated(c, q, w) = Templated(r.engine, q, w)
      BY <3>1, <3>2, CollapseKeeps DEF Outcome
    <3>4. Settled(c, r.norm)
      BY <3>3, SettledDepends DEF Outcome
    <3>. DEFINE x == Templated(c, r.norm, v)
    <3>5. x \in Segment \union ValueType /\ (x \in ValueType \/ Templated(c, r.norm, x) = x)
      BY <3>3, TemplatedIs
    <3>. HIDE DEF x
    <3>6. s = [norm |-> Append(r.norm, x), engine |-> c, collapsed |-> TRUE]
      BY <2>1, <2>3 DEF x
    <3>7. Settled(c, Append(r.norm, x)) /\ Append(r.norm, x) \in Template
          /\ Len(Append(r.norm, x)) = i + 1
      BY <3>4, <3>5, AppendSettled DEF Outcome
    <3>. QED
      BY <3>3, <3>6, <3>7 DEF Outcome
  <2>. QED
    BY <2>2, <2>3
<1>. QED
  BY <1>1, <1>2

LEMMA NormalizeSteps ==
    ASSUME NEW e, NEW path \in Seq(Segment)
    PROVE  \E after :
              /\ after[0] = {[norm |-> << >>, engine |-> e, collapsed |-> FALSE]}
              /\ \A i \in 1..Len(path) :
                    after[i] = UNION {NormalizeSegment(r, path[i]) : r \in after[i - 1]}
              /\ Normalize(e, path) = after[Len(path)]
<1>. DEFINE start == {[norm |-> << >>, engine |-> e, collapsed |-> FALSE]}
            next(A, i) == UNION {NormalizeSegment(r, path[i]) : r \in A}
            Rounds(f, n) == f = [i \in 0..n |-> IF i = 0 THEN start ELSE next(f[i - 1], i)]
            T == {n \in Nat : \E f : Rounds(f, n)}
<1>0. Len(path) \in Nat
  OBVIOUS
<1>1. 0 \in T
  <2>. DEFINE f == [i \in 0..0 |-> start]
  <2>1. Rounds(f, 0)
    OBVIOUS
  <2>. QED
    BY <2>1
<1>2. ASSUME NEW n \in Nat, n \in T
      PROVE  n + 1 \in T
  <2>. PICK f : Rounds(f, n)
    BY <1>2
  <2>. DEFINE g == [i \in 0..(n + 1) |-> IF i = n + 1 THEN next(f[n], n + 1) ELSE f[i]]
  <2>. HIDE DEF start, next
  <2>1. \A i \in 0..n : f[i] = IF i = 0 THEN start ELSE next(f[i - 1], i)
    OBVIOUS
  <2>2. \A i \in 0..(n + 1) : g[i] = IF i = 0 THEN start ELSE next(g[i - 1], i)
    BY <2>1
  <2>3. Rounds(g, n + 1)
    BY <2>2
  <2>. HIDE DEF g, Rounds
  <2>. QED
    BY <2>3
<1>3. Len(path) \in T
  <2>1. \A i \in 0..Len(path) : i \in T /\ i + 1 <= Len(path) => i + 1 \in T
    BY <1>2
  <2>. HIDE DEF T
  <2>2. 0..Len(path) \subseteq T
    BY <1>0, <1>1, <2>1, Loop
  <2>. QED
    BY <1>0, <2>2
<1>. DEFINE after == CHOOSE f : Rounds(f, Len(path))
<1>4. Rounds(after, Len(path))
  BY <1>3
<1>5. Normalize(e, path) = after[Len(path)]
  BY DEF Normalize
<1>6. \A i \in 0..Len(path) : after[i] = IF i = 0 THEN start ELSE next(after[i - 1], i)
  <2>. HIDE DEF after
  <2>. QED
    BY <1>4
<1>. HIDE DEF after
<1>7. after[0] = start
  <2>. HIDE DEF start, next
  <2>. QED
    BY <1>0, <1>6
<1>8. \A i \in 1..Len(path) : after[i] = next(after[i - 1], i)
  <2>. HIDE DEF start, next
  <2>. QED
    BY <1>0, <1>6
<1>. QED
  BY <1>5, <1>7, <1>8

\* Normalize returns a settled template of the path's length, and decides nothing
\* unless it says so.
LEMMA NormalizeSettles ==
    ASSUME NEW e, EngineOK(e), NEW path \in Seq(Segment), NEW r \in Normalize(e, path)
    PROVE  Outcome(r, e, Len(path))
<1>. PICK after :
       /\ after[0] = {[norm |-> << >>, engine |-> e, collapsed |-> FALSE]}
       /\ \A i \in 1..Len(path) :
             after[i] = UNION {NormalizeSegment(s, path[i]) : s \in after[i - 1]}
       /\ Normalize(e, path) = after[Len(path)]
  BY NormalizeSteps
<1>0. Len(path) \in Nat /\ \A i \in 1..Len(path) : path[i] \in Segment
  OBVIOUS
<1>. DEFINE Good(i) == \A s \in after[i] : Outcome(s, e, i)
            T == {i \in 0..Len(path) : Good(i)}
<1>1. 0 \in T
  <2>1. << >> \in Template /\ Len(<< >>) = 0 /\ Settled(e, << >>)
    BY DEF Template, Settled
  <2>2. Outcome([norm |-> << >>, engine |-> e, collapsed |-> FALSE], e, 0)
    BY <2>1 DEF Outcome
  <2>3. Good(0)
    BY <2>2
  <2>. HIDE DEF Good
  <2>. QED
    BY <1>0, <2>3
<1>2. ASSUME NEW i \in 0..Len(path), i \in T, i + 1 <= Len(path)
      PROVE  i + 1 \in T
  <2>. i + 1 \in 1..Len(path) /\ (i + 1) - 1 = i /\ i \in Nat
    BY <1>0, <1>2
  <2>1. after[i + 1] = UNION {NormalizeSegment(s, path[i + 1]) : s \in after[i]}
    OBVIOUS
  <2>2. Good(i) /\ path[i + 1] \in Segment
    BY <1>0, <1>2
  <2>3. Good(i + 1)
    BY <2>1, <2>2, NormalizeSegmentKeeps
  <2>. HIDE DEF Good
  <2>. QED
    BY <2>3
<1>3. \A i \in 0..Len(path) : i \in T /\ i + 1 <= Len(path) => i + 1 \in T
  BY <1>2
<1>4. 0..Len(path) \subseteq T
  <2>. HIDE DEF T
  <2>. QED
    BY <1>0, <1>1, <1>3, Loop
<1>. QED
  BY <1>0, <1>4

-----------------------------------------------------------------------------
(* What the profiles of a table have learned.                               *)

\* A table of profiles: finitely many templates, each with a bag of flows.
Table(profiles) ==
    /\ IsFiniteSet(DOMAIN profiles)
    /\ DOMAIN profiles \subseteq Template
    /\ \A u \in DOMAIN profiles :
          /\ BagToSet(profiles[u]) \subseteq FlowId
          /\ \A f \in FlowId : Copies(f, profiles[u]) \in Nat

LEMMA FiniteImage ==
    ASSUME NEW S, IsFiniteSet(S), NEW g, DOMAIN g = S
    PROVE  IsFiniteSet({g[x] : x \in S}) /\ Cardinality({g[x] : x \in S}) <= Cardinality(S)
<1>. DEFINE T == {g[x] : x \in S}
            h == [x \in S |-> g[x]]
<1>1. h \in Surjection(S, T)
  BY DEF Surjection
<1>. HIDE DEF T, h
<1>2. IsFiniteSet(T) /\ Cardinality(T) <= Cardinality(S)
  BY <1>1, FS_Surjection
<1>. QED
  BY <1>2 DEF T

LEMMA FoldingsAreFinite ==
    ASSUME NEW p, Table(p), NEW f \in FlowId
    PROVE  IsFiniteSet(Foldings(f, p)) /\ Cardinality(Foldings(f, p)) \in Nat
<1>. DEFINE g == [u \in DOMAIN p |-> {u} \X (1..Copies(f, p[u]))]
            S == {g[u] : u \in DOMAIN p}
<1>1. IsFiniteSet(S)
  <2>1. DOMAIN g = DOMAIN p /\ IsFiniteSet(DOMAIN p)
    BY DEF Table
  <2>. HIDE DEF g
  <2>. QED
    BY <2>1, FiniteImage
<1>2. ASSUME NEW u \in DOMAIN p
      PROVE  IsFiniteSet(g[u])
  <2>. DEFINE c == Copies(f, p[u])
  <2>1. c \in Nat
    BY DEF Table
  <2>2. IsFiniteSet({u}) /\ g[u] = {u} \X (1..c)
    BY FS_Singleton
  <2>. HIDE DEF c, g
  <2>3. IsFiniteSet(1..c)
    BY <2>1, FS_Interval
  <2>4. IsFiniteSet({u} \X (1..c))
    BY <2>2, <2>3, FS_Product
  <2>. QED
    BY <2>2, <2>4
<1>3. Foldings(f, p) = UNION S
  BY DEF Foldings
<1>4. IsFiniteSet(UNION S)
  <2>1. \A T \in S : IsFiniteSet(T)
    BY <1>2
  <2>. HIDE DEF S
  <2>. QED
    BY <1>1, <2>1, FS_UNION
<1>. QED
  BY <1>3, <1>4, FS_CardinalityType

\* The pairs of a table, one by one.
LEMMA FoldingsAre ==
    ASSUME NEW p, NEW f
    PROVE  \A x : x \in Foldings(f, p) <=>
                  \E u \in DOMAIN p : \E i \in 1..Copies(f, p[u]) : x = <<u, i>>
<1>1. \A x, u : x \in {u} \X (1..Copies(f, p[u])) <=> \E i \in 1..Copies(f, p[u]) : x = <<u, i>>
  OBVIOUS
<1>2. \A x : x \in Foldings(f, p) <=> \E u \in DOMAIN p : x \in {u} \X (1..Copies(f, p[u]))
  BY DEF Foldings
<1>. QED
  BY <1>1, <1>2

LEMMA NoFoldings ==
    ASSUME NEW p, Table(p), NEW f, \A u \in DOMAIN p : f \notin BagToSet(p[u])
    PROVE  Foldings(f, p) = {} /\ Cardinality(Foldings(f, p)) = 0
<1>1. \A u \in DOMAIN p : Copies(f, p[u]) = 0
  BY DEF Copies, BagIn
<1>2. Foldings(f, p) = {}
  BY <1>1, FoldingsAre
<1>. QED
  BY <1>2, FS_EmptySet

Some(met) == [w \in met |-> endpoints[w]]

\* What the endpoints that meet have learned of a flow is what their merger has.
LEMMA MergedCopies ==
    ASSUME NEW e, Table(endpoints), NEW t \in DOMAIN Merged(e), NEW f \in FlowId
    PROVE  /\ Table(Some(Meeting(e, t)))
           /\ Copies(f, Merged(e)[t]) = Cardinality(Foldings(f, Some(Meeting(e, t))))
           /\ BagToSet(Merged(e)[t]) \subseteq FlowId
<1>. DEFINE met == Meeting(e, t)
<1>1. met \subseteq DOMAIN endpoints
  BY DEF Meeting
<1>2. Table(Some(met))
  <2>1. IsFiniteSet(met)
    BY <1>1, FS_Subset DEF Table
  <2>. HIDE DEF met
  <2>. QED
    BY <1>1, <2>1 DEF Table, Some
<1>3. /\ met = {t} => Merged(e)[t] = endpoints[t]
      /\ met # {t} => Merged(e)[t] = [g \in UNION {BagToSet(endpoints[w]) : w \in met} |->
                                         Cardinality(Foldings(g, Some(met)))]
  BY DEF Merged, SeenIn, Some
<1>. HIDE DEF met
<1>4. CASE met = {t}
  <2>1. t \in DOMAIN endpoints /\ Merged(e)[t] = endpoints[t]
    BY <1>1, <1>3, <1>4
  <2>. DEFINE c == Copies(f, endpoints[t])
  <2>2. c \in Nat
    BY <2>1 DEF Table
  <2>3. Foldings(f, Some(met)) = {t} \X (1..c)
    BY <1>4 DEF Foldings, Some
  <2>. HIDE DEF c
  <2>4. IsFiniteSet({t}) /\ Cardinality({t}) = 1
    BY FS_Singleton
  <2>5. IsFiniteSet(1..c) /\ Cardinality(1..c) = c
    BY <2>2, FS_Interval
  <2>7. Cardinality({t} \X (1..c)) = 1 * c
    <3>. DEFINE S == {t}
                T == 1..c
    <3>1. IsFiniteSet(S) /\ IsFiniteSet(T) /\ Cardinality(S) = 1 /\ Cardinality(T) = c
      BY <2>4, <2>5
    <3>. HIDE DEF S, T
    <3>2. Cardinality(S \X T) = Cardinality(S) * Cardinality(T)
      BY <3>1, FS_Product
    <3>. QED
      BY <3>1, <3>2 DEF S, T
  <2>6. BagToSet(endpoints[t]) \subseteq FlowId
    BY <2>1 DEF Table
  <2>. QED
    BY <1>2, <2>1, <2>2, <2>3, <2>6, <2>7 DEF met, c
<1>5. CASE met # {t}
  <2>. DEFINE flows == UNION {BagToSet(endpoints[w]) : w \in met}
  <2>1. BagToSet(Merged(e)[t]) = flows /\ flows \subseteq FlowId
    BY <1>1, <1>3, <1>5 DEF BagToSet, Table
  <2>2. CASE f \in flows
    BY <1>2, <1>3, <1>5, <2>1, <2>2 DEF Copies, BagIn, met
  <2>3. CASE f \notin flows
    <3>1. Copies(f, Merged(e)[t]) = 0
      BY <2>1, <2>3 DEF Copies, BagIn
    <3>2. \A u \in DOMAIN Some(met) : f \notin BagToSet(Some(met)[u])
      BY <2>3 DEF Some
    <3>. QED
      BY <1>2, <2>1, <3>1, <3>2, NoFoldings DEF met
  <2>. QED
    BY <2>2, <2>3
<1>. QED
  BY <1>4, <1>5

\* Merging changes no flow's count.
LEMMA MergedEvidence ==
    ASSUME NEW e, Table(endpoints), Table(Merged(e)), NEW f \in FlowId
    PROVE  Cardinality(Foldings(f, Merged(e))) = Cardinality(Foldings(f, endpoints))
<1>. DEFINE A == Foldings(f, endpoints)
            B == Foldings(f, Merged(e))
            Part(t) == Foldings(f, Some(Meeting(e, t)))
            Size(t) == Copies(f, Merged(e)[t])
            list(t) == CHOOSE b : b \in Bijection(1..Size(t), Part(t))
            g == [x \in B |-> list(x[1])[x[2]]]
<1>0. DOMAIN Merged(e) = {Target(e, w) : w \in DOMAIN endpoints}
  BY DEF Merged
<1>1. ASSUME NEW t \in DOMAIN Merged(e)
      PROVE  list(t) \in Bijection(1..Size(t), Part(t))
  <2>1. Table(Some(Meeting(e, t))) /\ Size(t) = Cardinality(Part(t))
    BY MergedCopies
  <2>2. ExistsBijection(1..Cardinality(Part(t)), Part(t))
    BY <2>1, FoldingsAreFinite, FS_CardinalityType
  <2>. QED
    BY <2>1, <2>2 DEF ExistsBijection
<1>2. \A x : x \in A <=> 
          \E w \in DOMAIN endpoints : \E i \in 1..Copies(f, endpoints[w]) : x = <<w, i>>
  BY FoldingsAre
<1>3. \A x : x \in B <=> \E t \in DOMAIN Merged(e) : \E i \in 1..Size(t) : x = <<t, i>>
  BY FoldingsAre
<1>4. \A t, x : x \in Part(t) <=> x \in A /\ Target(e, x[1]) = t
  BY FoldingsAre DEF Some, Meeting
<1>. HIDE DEF A, B, Part, Size, list
<1>5. ASSUME NEW t \in DOMAIN Merged(e)
      PROVE  /\ \A i \in 1..Size(t) : list(t)[i] \in A /\ Target(e, list(t)[i][1]) = t
             /\ \A i, j \in 1..Size(t) : list(t)[i] = list(t)[j] => i = j
             /\ \A x \in A : Target(e, x[1]) = t => \E i \in 1..Size(t) : list(t)[i] = x
  <2>1. /\ list(t) \in [1..Size(t) -> Part(t)]
        /\ \A i, j \in 1..Size(t) : list(t)[i] = list(t)[j] => i = j
        /\ \A x \in Part(t) : \E i \in 1..Size(t) : list(t)[i] = x
    BY <1>1 DEF Bijection, Injection, Surjection, IsInjective
  <2>2. \A i \in 1..Size(t) : list(t)[i] \in Part(t)
    BY <2>1
  <2>. QED
    BY <1>4, <2>1, <2>2
<1>6. \A t \in DOMAIN Merged(e) : \A i \in 1..Size(t) : <<t, i>> \in B /\ g[<<t, i>>] = list(t)[i]
  BY <1>3
<1>7. g \in [B -> A]
  BY <1>3, <1>5
<1>. HIDE DEF g
<1>8. ASSUME NEW x \in B, NEW y \in B, g[x] = g[y]
      PROVE  x = y
  <2>1. PICK t \in DOMAIN Merged(e) : \E i \in 1..Size(t) : x = <<t, i>>
    BY <1>3
  <2>. PICK i \in 1..Size(t) : x = <<t, i>>
    BY <2>1
  <2>2. PICK s \in DOMAIN Merged(e) : \E j \in 1..Size(s) : y = <<s, j>>
    BY <1>3
  <2>. PICK j \in 1..Size(s) : y = <<s, j>>
    BY <2>2
  <2>3. list(t)[i] = list(s)[j]
    BY <1>6, <1>8
  <2>4. t = s
    BY <1>5, <2>3
  <2>. QED
    BY <1>5, <2>3, <2>4
<1>9. ASSUME NEW x \in A
      PROVE  \E y \in B : g[y] = x
  <2>1. x[1] \in DOMAIN endpoints
    BY <1>2
  <2>2. Target(e, x[1]) \in DOMAIN Merged(e)
    BY <1>0, <2>1
  <2>3. PICK i \in 1..Size(Target(e, x[1])) : list(Target(e, x[1]))[i] = x
    BY <1>5, <2>2
  <2>. QED
    BY <1>6, <2>2, <2>3
<1>10. g \in Bijection(B, A)
  BY <1>7, <1>8, <1>9 DEF Bijection, Injection, Surjection, IsInjective
<1>11. IsFiniteSet(B)
  BY FoldingsAreFinite DEF B
<1>. QED
  BY <1>10, <1>11, FS_Bijection DEF ExistsBijection, A, B

LEMMA MergedIsTable ==
    ASSUME NEW e, EngineOK(e), Table(endpoints)
    PROVE  /\ Table(Merged(e))
           /\ Evidence(Merged(e)) = Evidence(endpoints)
<1>. DEFINE T == DOMAIN Merged(e)
            g == [w \in DOMAIN endpoints |-> Target(e, w)]
<1>1. T = {g[w] : w \in DOMAIN endpoints}
  BY DEF Merged
<1>2. IsFiniteSet(T)
  <2>1. DOMAIN g = DOMAIN endpoints /\ IsFiniteSet(DOMAIN endpoints)
    BY DEF Table
  <2>. HIDE DEF g
  <2>. QED
    BY <1>1, <2>1, FiniteImage
<1>3. T \subseteq Template
  BY RenormalizeSettles DEF Merged, Table, Target
<1>4. ASSUME NEW t \in T
      PROVE  /\ BagToSet(Merged(e)[t]) \subseteq FlowId
             /\ \A f \in FlowId : Copies(f, Merged(e)[t]) \in Nat
  <2>1. ASSUME NEW f \in FlowId PROVE Copies(f, Merged(e)[t]) \in Nat
    BY MergedCopies, FoldingsAreFinite
  <2>2. FlowId # {} => BagToSet(Merged(e)[t]) \subseteq FlowId
    BY MergedCopies
  <2>3. FlowId = {} => BagToSet(Merged(e)[t]) \subseteq FlowId
    BY <1>1 DEF Merged, Table, BagToSet, Meeting
  <2>. QED
    BY <2>1, <2>2, <2>3
<1>5. Table(Merged(e))
  BY <1>2, <1>3, <1>4 DEF Table
<1>. QED
  BY <1>5, MergedEvidence DEF Evidence

\* The count that renormalizeScope keeps is that of the endpoints it leaves: what an
\* endpoint moves to does not move itself.
LEMMA MergedCount ==
    ASSUME NEW e, EngineOK(e), Table(endpoints)
    PROVE  Cardinality(DOMAIN Merged(e)) = Cardinality(DOMAIN endpoints) - Absorbed(e)
<1>. DEFINE D == DOMAIN endpoints
            M == MovedIds(e)
            N == {Target(e, u) : u \in M} \ D
            g == [w \in M |-> Target(e, w)]
<1>1. \A u \in D : Target(e, Target(e, u)) = Target(e, u)
  BY RenormalizeSettles DEF Target, Table
<1>2. DOMAIN Merged(e) = (D \ M) \union N
  BY <1>1 DEF Merged, MovedIds
<1>3. IsFiniteSet(D) /\ IsFiniteSet(M) /\ M \subseteq D
  BY FS_Subset DEF Table, MovedIds
<1>4. IsFiniteSet(N)
  <2>1. DOMAIN g = M /\ {Target(e, u) : u \in M} = {g[w] : w \in M}
    OBVIOUS
  <2>2. IsFiniteSet({g[w] : w \in M})
    <3>. HIDE DEF g, M
    <3>. QED
      BY <1>3, <2>1, FiniteImage
  <2>. QED
    BY <2>1, <2>2, FS_Subset
<1>5. (D \ M) \intersect N = {} /\ Absorbed(e) = Cardinality(M) - Cardinality(N)
  BY DEF Absorbed
<1>. HIDE DEF D, M, N
<1>6. IsFiniteSet(D \ M) /\ Cardinality(D \ M) = Cardinality(D) - Cardinality(M)
  <2>1. D \intersect M = M
    BY <1>3
  <2>. QED
    BY <1>3, <2>1, FS_Difference
<1>7. Cardinality((D \ M) \union N) = Cardinality(D \ M) + Cardinality(N) - Cardinality({})
  BY <1>4, <1>5, <1>6, FS_Union
<1>8. /\ Cardinality({}) = 0
      /\ Cardinality(D) \in Nat /\ Cardinality(M) \in Nat /\ Cardinality(N) \in Nat
  BY <1>3, <1>4, FS_EmptySet, FS_CardinalityType
<1>. QED
  BY <1>2, <1>5, <1>6, <1>7, <1>8 DEF D

LEMMA BagAddCopies ==
    ASSUME NEW bag, NEW x
    PROVE  /\ BagToSet(BagAdd(bag, x)) = BagToSet(bag) \union {x}
           /\ \A y : y # x => Copies(y, BagAdd(bag, x)) = Copies(y, bag)
           /\ Copies(x, bag) \in Nat => Copies(x, BagAdd(bag, x)) = Copies(x, bag) + 1
<1>1. BagToSet(BagAdd(bag, x)) = BagToSet(bag) \union {x}
  BY DEF BagToSet, BagAdd
<1>2. \A y : y # x => Copies(y, BagAdd(bag, x)) = Copies(y, bag)
  BY <1>1 DEF BagAdd, Copies, BagIn, BagToSet
<1>3. Copies(x, BagAdd(bag, x)) = Copies(x, bag) + 1
  BY <1>1 DEF Copies, BagIn, BagAdd
<1>. QED
  BY <1>1, <1>2, <1>3

\* A flow that is folded in is counted once more, in the endpoint u alone.
LEMMA FoldCounts ==
    ASSUME NEW f \in FlowId, NEW u \in Template, NEW after, Table(after),
           NEW size, size = Cardinality(DOMAIN after), NEW touched,
           learned = Evidence(after),
           Fold(f, u, after, size, touched)
    PROVE  /\ Table(endpoints')
           /\ learned' = Evidence(endpoints')
           /\ count' = Cardinality(DOMAIN endpoints')
           /\ DOMAIN after \subseteq DOMAIN endpoints'
           /\ DOMAIN endpoints' \subseteq DOMAIN after \union {u}
           /\ dirty' \subseteq touched \union (DOMAIN endpoints' \intersect {u})
           /\ capped' \subseteq capped \union FlowId
<1>1. CASE u \notin DOMAIN after /\ size >= MaxEndpoints
  BY <1>1 DEF Fold
<1>2. CASE ~ (u \notin DOMAIN after /\ size >= MaxEndpoints)
  <2>. DEFINE old == IF u \in DOMAIN after THEN after[u] ELSE << >>
              c == Copies(f, old)
  <2>1. /\ endpoints' = [w \in {u} \union DOMAIN after |->
                            IF w # u THEN after[w]
                            ELSE IF w \in DOMAIN after THEN BagAdd(after[w], f)
                            ELSE SetToBag({f})]
        /\ count' = IF u \in DOMAIN after THEN size ELSE size + 1
        /\ dirty' = touched \union {u}
        /\ capped' = capped
        /\ learned' = [learned EXCEPT ![f] = @ + 1]
    BY <1>2 DEF Fold
  <2>2. DOMAIN endpoints' = {u} \union DOMAIN after
    BY <2>1
  <2>3. IsFiniteSet(DOMAIN endpoints') /\ count' = Cardinality(DOMAIN endpoints')
    BY <2>1, <2>2, FS_AddElement DEF Table
  <2>4. \A w \in DOMAIN after : w # u => endpoints'[w] = after[w]
    BY <2>1
  <2>5. c \in Nat /\ (u \notin DOMAIN after => c = 0)
    BY DEF Table, Copies, BagIn, BagToSet
  <2>6. /\ BagToSet(endpoints'[u]) \subseteq FlowId
        /\ Copies(f, endpoints'[u]) = c + 1
        /\ \A g \in FlowId \ {f} : Copies(g, endpoints'[u]) = Copies(g, old)
    <3>1. CASE u \in DOMAIN after
      <4>1. endpoints'[u] = BagAdd(after[u], f) /\ old = after[u]
        BY <2>1, <3>1
      <4>. QED
        BY <2>5, <3>1, <4>1, BagAddCopies DEF Table
    <3>2. CASE u \notin DOMAIN after
      <4>1. endpoints'[u] = [x \in {f} |-> 1] /\ old = << >>
        BY <2>1, <3>2 DEF SetToBag
      <4>. QED
        BY <2>5, <3>2, <4>1 DEF Copies, BagIn, BagToSet
    <3>. QED
      BY <3>1, <3>2
  <2>7. \A g \in FlowId : Copies(g, old) \in Nat
    BY DEF Table, Copies, BagIn, BagToSet
  <2>8. Table(endpoints')
    <3>1. ASSUME NEW w \in DOMAIN endpoints'
          PROVE  /\ BagToSet(endpoints'[w]) \subseteq FlowId
                 /\ \A g \in FlowId : Copies(g, endpoints'[w]) \in Nat
      <4>1. CASE w = u
        BY <2>5, <2>6, <2>7, <4>1
      <4>2. CASE w # u
        BY <2>2, <2>4, <4>2 DEF Table
      <4>. QED
        BY <4>1, <4>2
    <3>. QED
      BY <2>2, <2>3, <3>1 DEF Table
  <2>. HIDE DEF old, c
  <2>9. \A g \in FlowId \ {f} : Foldings(g, endpoints') = Foldings(g, after)
    <3>. SUFFICES ASSUME NEW g \in FlowId \ {f}, NEW x
                  PROVE  x \in Foldings(g, endpoints') <=> x \in Foldings(g, after)
      BY FoldingsAre
    <3>1. \A w \in DOMAIN after : Copies(g, endpoints'[w]) = Copies(g, after[w])
      BY <2>4, <2>6 DEF old
    <3>2. u \notin DOMAIN after => Copies(g, endpoints'[u]) = 0
      BY <2>6 DEF old, Copies, BagIn, BagToSet
    <3>. QED
      BY <2>2, <3>1, <3>2, FoldingsAre
  <2>10. /\ Foldings(f, endpoints') = Foldings(f, after) \union {<<u, c + 1>>}
         /\ <<u, c + 1>> \notin Foldings(f, after)
    <3>1. \A w \in DOMAIN after : w # u => Copies(f, endpoints'[w]) = Copies(f, after[w])
      BY <2>4
    <3>2. u \in DOMAIN after => Copies(f, after[u]) = c
      BY DEF old, c
    <3>3. 1..(c + 1) = (1..c) \union {c + 1} /\ c + 1 \notin 1..c
      BY <2>5
    <3>4. \A x : x \in Foldings(f, after) <=>
                   \/ \E w \in DOMAIN after \ {u} : \E i \in 1..Copies(f, after[w]) : x = <<w, i>>
                   \/ u \in DOMAIN after /\ \E i \in 1..c : x = <<u, i>>
      BY <3>2, FoldingsAre
    <3>5. \A x : x \in Foldings(f, endpoints') <=>
                   \/ \E w \in DOMAIN after \ {u} : \E i \in 1..Copies(f, after[w]) : x = <<w, i>>
                   \/ \E i \in 1..(c + 1) : x = <<u, i>>
      BY <2>2, <2>6, <3>1, FoldingsAre
    <3>6. u \notin DOMAIN after => 1..c = {}
      BY <2>5
    <3>7. \A x : x \in Foldings(f, endpoints') <=> x \in Foldings(f, after) \/ x = <<u, c + 1>>
      BY <3>3, <3>4, <3>5, <3>6
    <3>. QED
      BY <3>3, <3>4, <3>7
  <2>11. /\ \A g \in FlowId \ {f} : Cardinality(Foldings(g, endpoints'))
                                      = Cardinality(Foldings(g, after))
         /\ Cardinality(Foldings(f, endpoints')) = Cardinality(Foldings(f, after)) + 1
    <3>. DEFINE S == Foldings(f, after)
    <3>1. IsFiniteSet(S) /\ Cardinality(S) \in Nat
      BY FoldingsAreFinite
    <3>. HIDE DEF S
    <3>2. ASSUME NEW x, x \notin S PROVE Cardinality(S \union {x}) = Cardinality(S) + 1
      BY <3>1, <3>2, FS_AddElement
    <3>. QED
      BY <2>9, <2>10, <3>2 DEF S
  <2>12. learned' = Evidence(endpoints')
    BY <2>1, <2>11 DEF Evidence
  <2>. QED
    BY <2>1, <2>2, <2>3, <2>8, <2>12
<1>. QED
  BY <1>1, <1>2

-----------------------------------------------------------------------------
(* What flush holds.                                                       *)

\* What flush is writing is apart from what has become dirty since, and a process
\* that is down holds nothing.
FlushInv ==
    /\ phase \in {"loop", "batch", "collect"} => flushing = NoWork
    /\ phase \in {"upsert", "delete"} => dirty = {} /\ retired = {}
    /\ flushing.dirty \subseteq DOMAIN endpoints
    /\ ~Up => phase = "loop" /\ pending = EmptyBag /\ seen = {} /\ dirty = {}

LEMMA FlushInvStep ==
    ASSUME FlushInv, [ProfNext]_profVars
    PROVE  FlushInv'
<1>. USE DEF FlushInv, NoWork, Up, aggregator, worker, table, stream
<1>1. ASSUME NEW m \in Message, Receive(m) PROVE FlushInv'
  <2>1. /\ phase \in {"batch", "loop"} /\ phase' = "batch"
        /\ flushing' = flushing /\ stage' = stage
    BY <1>1 DEF Receive, Refuse, Learn, Receives
  <2>2. Up
    BY <1>1 DEF Receive, Refuse, Learn, Receives
  <2>. QED
    BY <2>1, <2>2
<1>2. ASSUME NEW m \in Message, Redeliver(m) PROVE FlushInv'
  BY <1>2 DEF Redeliver
<1>3. CASE EndBatch
  BY <1>3 DEF EndBatch
<1>4. CASE FlushTick
  BY <1>4 DEF FlushTick
<1>5. CASE Collect
  BY <1>5 DEF Collect, AckPending
<1>6. CASE UpsertEndpoints
  BY <1>6 DEF UpsertEndpoints
<1>7. CASE UpsertFails
  BY <1>7 DEF UpsertFails
<1>8. CASE DeleteEndpoints
  BY <1>8 DEF DeleteEndpoints, AckPending
<1>9. CASE DeleteFails
  BY <1>9 DEF DeleteFails
<1>10. CASE Signal \/ LeaveLoop
  BY <1>10 DEF Signal, LeaveLoop
<1>11. CASE Exit \/ Crash
  BY <1>11 DEF Exit, Crash, Gone
<1>12. CASE Boot
  BY <1>12 DEF Boot
<1>13. CASE UNCHANGED profVars
  BY <1>13 DEF profVars
<1>. QED
  BY <1>1, <1>2, <1>3, <1>4, <1>5, <1>6, <1>7, <1>8, <1>9, <1>10, <1>11, <1>12, <1>13
     DEF ProfNext, Flush

-----------------------------------------------------------------------------
(* Templates and evidence, step by step.                                   *)

\* What the engine decides and what the profiles count.
EvidenceInv ==
    /\ EngineOK(engine)
    /\ Table(endpoints) /\ Table(rows)
    /\ learned = Evidence(endpoints)
    /\ count = Cardinality(DOMAIN endpoints)
    /\ boots = 1 => \A u \in DOMAIN endpoints : Settled(engine, u)

TypedInv ==
    /\ dirty \subseteq DOMAIN endpoints
    /\ seen \union capped \subseteq FlowId
    /\ BagToSet(pending) \union queue \union refused \subseteq Message
    /\ queue \intersect acked = {} /\ refused \subseteq acked
    /\ phase \in Phases
    /\ stage \in {"running", "stopping", "closing", "down"}
    /\ faults \in 0..MaxFaults /\ boots \in 1..MaxBoots
    /\ stage # "running" => boots < MaxBoots
    /\ wiped \subseteq Template \X FlowId

LEMMA ObserveCounts ==
    ASSUME EngineOK(engine), Table(endpoints), learned = Evidence(endpoints),
           count = Cardinality(DOMAIN endpoints), dirty \subseteq DOMAIN endpoints,
           NEW f \in FlowId, NEW path \in Seq(Segment), Observe(f, path)
    PROVE  /\ EngineOK(engine') /\ Table(endpoints')
           /\ learned' = Evidence(endpoints')
           /\ count' = Cardinality(DOMAIN endpoints')
           /\ (\A u \in DOMAIN endpoints : Settled(engine, u)) =>
                 \A u \in DOMAIN endpoints' : Settled(engine', u)
           /\ dirty' \subseteq DOMAIN endpoints'
           /\ capped' \subseteq capped \union FlowId
<1>. PICK r \in Normalize(engine, path) :
        /\ engine' = r.engine
        /\ IF r.collapsed
           THEN LET e == r.engine
                    moved == MovedIds(e)
                IN  /\ Fold(f, r.norm, Merged(e), count - Absorbed(e),
                            (dirty \ moved) \union {Target(e, u) : u \in moved})
                    /\ retired' = retired \union moved
           ELSE /\ Fold(f, r.norm, endpoints, count, dirty)
                /\ UNCHANGED retired
  BY DEF Observe
<1>0. Outcome(r, engine, Len(path))
  BY NormalizeSettles
<1>1. r.norm \in Template /\ EngineOK(r.engine) /\ Settled(r.engine, r.norm)
  BY <1>0 DEF Outcome
<1>2. CASE r.collapsed
  <2>. DEFINE e == r.engine
              after == Merged(e)
              size == count - Absorbed(e)
              touched == (dirty \ MovedIds(e)) \union {Target(e, u) : u \in MovedIds(e)}
  <2>1. Table(after) /\ learned = Evidence(after) /\ size = Cardinality(DOMAIN after)
    BY <1>1, MergedIsTable, MergedCount
  <2>2. Fold(f, r.norm, after, size, touched)
    BY <1>2
  <2>3. touched \subseteq DOMAIN after
    BY DEF Merged, MovedIds
  <2>4. \A u \in DOMAIN after : Settled(e, u)
    BY <1>1, RenormalizeSettles DEF Merged, Target, Table
  <2>. HIDE DEF e, after, size, touched
  <2>5. /\ Table(endpoints')
        /\ learned' = Evidence(endpoints')
        /\ count' = Cardinality(DOMAIN endpoints')
        /\ DOMAIN after \subseteq DOMAIN endpoints'
        /\ DOMAIN endpoints' \subseteq DOMAIN after \union {r.norm}
        /\ dirty' \subseteq touched \union (DOMAIN endpoints' \intersect {r.norm})
        /\ capped' \subseteq capped \union FlowId
    BY <1>1, <2>1, <2>2, FoldCounts
  <2>. QED
    BY <1>1, <2>3, <2>4, <2>5 DEF e
<1>3. CASE ~ r.collapsed
  <2>1. Fold(f, r.norm, endpoints, count, dirty)
    BY <1>3
  <2>2. r.engine.collapses = engine.collapses
    BY <1>0, <1>3 DEF Outcome
  <2>3. \A u : Settled(engine, u) => Settled(r.engine, u)
    BY <2>2 DEF Settled, Literal, Templated
  <2>4. /\ Table(endpoints')
        /\ learned' = Evidence(endpoints')
        /\ count' = Cardinality(DOMAIN endpoints')
        /\ DOMAIN endpoints \subseteq DOMAIN endpoints'
        /\ DOMAIN endpoints' \subseteq DOMAIN endpoints \union {r.norm}
        /\ dirty' \subseteq dirty \union (DOMAIN endpoints' \intersect {r.norm})
        /\ capped' \subseteq capped \union FlowId
    BY <1>1, <2>1, FoldCounts
  <2>. QED
    BY <1>1, <2>3, <2>4
<1>. QED
  BY <1>2, <1>3

LEMMA LearnedEngine ==
    ASSUME NEW templates, templates \subseteq Template
    PROVE  EngineOK(Learned(templates))
<1>. DEFINE tokens == {x \in UNION {{<<u, i>> : i \in DOMAIN u} : u \in templates} :
                          x[1][x[2]] \in ValueType}
            before(x) == SubSeq(x[1], 1, x[2] - 1)
            keys == {before(x) : x \in tokens}
            under(p) == {x[1][x[2]] : x \in {y \in tokens : before(y) = p}}
            c == [p \in keys |-> JoinAll(under(p))]
<1>1. Learned(templates) = [collapses |-> c, stats |-> << >>]
  <2>1. Learned(templates) = [EmptyEngine EXCEPT !.collapses = c]
    BY DEF Learned
  <2>. HIDE DEF c
  <2>. QED
    BY <2>1 DEF EmptyEngine
<1>2. keys \subseteq Template
  <2>1. \A x \in tokens : \E u \in templates : \E i \in DOMAIN u : x = <<u, i>>
    OBVIOUS
  <2>2. \A u \in templates : \A i \in DOMAIN u : SubSeq(u, 1, i - 1) \in Template
    BY DEF Template
  <2>3. \A x \in tokens : before(x) \in Template
    BY <2>1, <2>2
  <2>. QED
    BY <2>3
<1>3. \A p : under(p) \subseteq ValueType
  OBVIOUS
<1>. HIDE DEF keys, under
<1>4. \A p \in keys : c[p] \in ValueType
  BY <1>3, JoinAllIs
<1>. QED
  BY <1>1, <1>2, <1>4 DEF EngineOK

LEMMA EmptyTable ==
    /\ Table(<< >>) /\ Cardinality(DOMAIN << >>) = 0 /\ EngineOK(EmptyEngine)
<1>1. DOMAIN << >> = {}
  OBVIOUS
<1>. QED
  BY <1>1, FS_EmptySet DEF Table, EngineOK, EmptyEngine

LEMMA TypesInit == ProfInit => EvidenceInv /\ TypedInv /\ FlushInv
<1>. SUFFICES ASSUME ProfInit PROVE EvidenceInv /\ TypedInv /\ FlushInv
  OBVIOUS
<1>1. BagToSet(pending) = {}
  BY DEF ProfInit, BagToSet, EmptyBag, SetToBag
<1>2. TypedInv /\ FlushInv
  BY <1>1, ProfilerAssumption DEF ProfInit, TypedInv, FlushInv, NoWork, Up, Phases
<1>3. EvidenceInv
  BY EmptyTable DEF ProfInit, EvidenceInv
<1>. QED
  BY <1>2, <1>3

\* A table stays one when rows are written from endpoints or deleted.
LEMMA RowsAreTable ==
    ASSUME Table(endpoints), Table(rows), flushing.dirty \subseteq DOMAIN endpoints
    PROVE  Table(Upserted) /\ Table(Remaining)
<1>1. IsFiniteSet(flushing.dirty \union DOMAIN rows)
  BY FS_Subset, FS_Union DEF Table
<1>2. IsFiniteSet(DOMAIN rows \ flushing.retired)
  BY FS_Subset DEF Table
<1>. QED
  BY <1>1, <1>2 DEF Table, Upserted, Remaining

LEMMA EvidenceInvStep ==
    ASSUME EvidenceInv, TypedInv, FlushInv, [ProfNext]_profVars
    PROVE  EvidenceInv'
<1>. USE DEF aggregator, table
<1>1. CASE UNCHANGED <<engine, endpoints, rows, learned, count, boots>>
  BY <1>1 DEF EvidenceInv, Evidence, Foldings
<1>2. ASSUME NEW m \in Message, Learn(m), FlowOf[m] \notin seen
      PROVE  EvidenceInv'
  <2>1. /\ Observe(FlowOf[m], PathOf[m]) /\ UNCHANGED <<rows, boots>>
        /\ FlowOf[m] \in FlowId /\ PathOf[m] \in Seq(Segment)
    BY <1>2, ProfilerAssumption DEF Learn, FlowId
  <2>2. /\ EngineOK(engine') /\ Table(endpoints')
        /\ learned' = Evidence(endpoints')
        /\ count' = Cardinality(DOMAIN endpoints')
        /\ (\A u \in DOMAIN endpoints : Settled(engine, u)) =>
              \A u \in DOMAIN endpoints' : Settled(engine', u)
    BY <2>1, ObserveCounts DEF EvidenceInv, TypedInv
  <2>. QED
    BY <2>1, <2>2 DEF EvidenceInv, Evidence, Foldings
<1>3. CASE /\ rows' \in {rows, Upserted, Remaining}
           /\ UNCHANGED <<engine, endpoints, learned, count, boots>>
  <2>1. Table(rows')
    BY <1>3, RowsAreTable DEF EvidenceInv, FlushInv
  <2>. QED
    BY <1>3, <2>1 DEF EvidenceInv, Evidence, Foldings
<1>4. CASE Gone
  BY <1>4, EmptyTable DEF Gone, EvidenceInv, Evidence, Foldings
<1>5. CASE Boot
  <2>1. boots' # 1
    BY <1>5 DEF Boot, TypedInv
  <2>2. EngineOK(engine')
    BY <1>5, LearnedEngine DEF Boot, EvidenceInv, Table
  <2>. QED
    BY <1>5, <2>1, <2>2 DEF Boot, EvidenceInv, Evidence, Foldings
<1>6. ASSUME NEW m \in Message, Receive(m) PROVE EvidenceInv'
  BY <1>1, <1>2, <1>6 DEF Receive, Refuse, Learn
<1>7. ASSUME NEW m \in Message, Redeliver(m) PROVE EvidenceInv'
  BY <1>1, <1>7 DEF Redeliver
<1>8. CASE EndBatch \/ FlushTick \/ Signal \/ LeaveLoop
  BY <1>1, <1>8 DEF EndBatch, FlushTick, Signal, LeaveLoop
<1>9. CASE Flush
  <2>1. WriteRows \/ DeleteRows => rows' \in {Upserted, Remaining}
    BY DEF WriteRows, DeleteRows
  <2>2. /\ WriteRows \/ DeleteRows \/ UNCHANGED rows
        /\ UNCHANGED <<engine, endpoints, learned, count, boots>>
    BY <1>9 DEF Flush, Collect, UpsertEndpoints, UpsertFails, DeleteEndpoints, DeleteFails
  <2>. QED
    BY <1>3, <2>1, <2>2
<1>10. CASE Exit \/ Crash
  BY <1>4, <1>10 DEF Exit, Crash
<1>11. CASE UNCHANGED profVars
  BY <1>1, <1>11 DEF profVars
<1>. QED
  BY <1>5, <1>6, <1>7, <1>8, <1>9, <1>10, <1>11 DEF ProfNext

LEMMA AckPendingTyped ==
    ASSUME TypedInv, AckPending
    PROVE  /\ BagToSet(pending') \union queue' \union refused' \subseteq Message
           /\ queue' \intersect acked' = {} /\ refused' \subseteq acked'
           /\ phase' = "loop" /\ faults' \in 0..MaxFaults
<1>1. BagToSet(EmptyBag) = {}
  BY DEF BagToSet, EmptyBag, SetToBag
<1>. QED
  BY <1>1, ProfilerAssumption DEF TypedInv, AckPending, Fault

LEMMA EntriesTyped ==
    ASSUME NEW profiles, Table(profiles)
    PROVE  Entries(profiles) \subseteq Template \X FlowId
BY DEF Entries, Table

LEMMA WipedTyped ==
    ASSUME EvidenceInv, TypedInv, WriteRows \/ DeleteRows \/ UNCHANGED table
    PROVE  wiped' \subseteq Template \X FlowId
<1>1. Entries(rows) \subseteq Template \X FlowId
  BY EntriesTyped DEF EvidenceInv
<1>2. wiped' \subseteq wiped \union Entries(rows)
  BY DEF WriteRows, DeleteRows, table
<1>. QED
  BY <1>1, <1>2 DEF TypedInv

LEMMA TypedInvStep ==
    ASSUME EvidenceInv, TypedInv, FlushInv, [ProfNext]_profVars
    PROVE  TypedInv'
<1>. USE DEF aggregator, worker, table, stream, Phases
<1>0. BagToSet(EmptyBag) = {}
  BY DEF BagToSet, EmptyBag, SetToBag
<1>1. ASSUME NEW m \in Message, Refuse(m) PROVE TypedInv'
  BY <1>1 DEF Refuse, Receives, TypedInv
<1>2. ASSUME NEW m \in Message, Learn(m) PROVE TypedInv'
  <2>1. /\ queue' = queue \ {m} /\ phase' = "batch"
        /\ BagToSet(pending') = BagToSet(pending) \union {m}
        /\ UNCHANGED <<stage, acked, refused, boots, wiped>>
    BY <1>2, BagAddCopies DEF Learn, Receives
  <2>2. CASE FlowOf[m] \in seen
    <3>1. UNCHANGED <<aggregator, faults>>
      BY <1>2, <2>2 DEF Learn
    <3>. QED
      BY <2>1, <3>1 DEF TypedInv, BagToSet
  <2>3. CASE FlowOf[m] \notin seen
    <3>1. /\ Observe(FlowOf[m], PathOf[m])
          /\ seen' \subseteq seen \union {FlowOf[m]}
          /\ faults' \in 0..MaxFaults
          /\ FlowOf[m] \in FlowId /\ PathOf[m] \in Seq(Segment)
      BY <1>2, <2>3, ProfilerAssumption DEF Learn, FlowId, Fault, TypedInv
    <3>2. dirty' \subseteq DOMAIN endpoints' /\ capped' \subseteq capped \union FlowId
      BY <3>1, ObserveCounts DEF EvidenceInv, TypedInv
    <3>. QED
      BY <2>1, <3>1, <3>2 DEF TypedInv, BagToSet, FlowId
  <2>. QED
    BY <2>2, <2>3
<1>3. ASSUME NEW m \in Message, Redeliver(m) PROVE TypedInv'
  BY <1>3, ProfilerAssumption DEF Redeliver, TypedInv
<1>4. CASE EndBatch \/ FlushTick \/ Signal \/ LeaveLoop
  BY <1>4 DEF EndBatch, FlushTick, Signal, LeaveLoop, TypedInv
<1>5. CASE Collect
  <2>1. CASE flushing' = NoWork
    <3>1. AckPending
      BY <1>5, <2>1 DEF Collect
    <3>. QED
      BY <1>5, <3>1, AckPendingTyped DEF Collect, TypedInv, FlowId, BagToSet
  <2>2. CASE flushing' # NoWork
    BY <1>5, <2>2 DEF Collect, TypedInv
  <2>. QED
    BY <2>1, <2>2
<1>6. CASE UpsertEndpoints
  BY <1>6, WipedTyped DEF UpsertEndpoints, TypedInv
<1>7. CASE UpsertFails
  BY <1>7, WipedTyped, ProfilerAssumption DEF UpsertFails, Requeue, StatementFails, Fault, TypedInv
<1>8. CASE DeleteEndpoints
  <2>1. AckPending
    BY <1>8 DEF DeleteEndpoints
  <2>. QED
    BY <1>8, <2>1, AckPendingTyped, WipedTyped DEF DeleteEndpoints, TypedInv, FlowId, BagToSet
<1>9. CASE DeleteFails
  BY <1>9, WipedTyped, ProfilerAssumption DEF DeleteFails, Requeue, StatementFails, Fault, TypedInv
<1>10. CASE Exit \/ Crash
  BY <1>0, <1>10, ProfilerAssumption DEF Exit, Crash, Gone, TypedInv
<1>11. CASE Boot
  BY <1>11, ProfilerAssumption DEF Boot, TypedInv, Up, FlushInv
<1>12. CASE UNCHANGED profVars
  BY <1>12 DEF profVars, TypedInv
<1>. QED
  BY <1>1, <1>2, <1>3, <1>4, <1>5, <1>6, <1>7, <1>8, <1>9, <1>10, <1>11, <1>12
     DEF ProfNext, Receive, Flush

-----------------------------------------------------------------------------
(* What the endpoints and the rows know.                                   *)

\* The flows that some profile of a table has been folded from.
Known(profiles) == UNION {BagToSet(profiles[u]) : u \in DOMAIN profiles}

LEMMA KnownIs ==
    ASSUME NEW profiles, NEW entries
    PROVE  /\ Flows(Entries(profiles) \union entries) = Known(profiles) \union Flows(entries)
           /\ \A x \in Entries(profiles) : x[2] \in Known(profiles)
           /\ \A u \in DOMAIN profiles : \A f \in BagToSet(profiles[u]) :
                 <<u, f>> \in Entries(profiles)
<1>1. ASSUME NEW u \in DOMAIN profiles, NEW f \in BagToSet(profiles[u])
      PROVE  <<u, f>> \in Entries(profiles)
  BY DEF Entries
<1>2. \A x \in Entries(profiles) : x[2] \in Known(profiles)
  BY DEF Entries, Known
<1>3. Flows(Entries(profiles)) = Known(profiles)
  <2>1. Known(profiles) \subseteq Flows(Entries(profiles))
    <3>. SUFFICES ASSUME NEW u \in DOMAIN profiles, NEW f \in BagToSet(profiles[u])
                  PROVE  f \in Flows(Entries(profiles))
      BY DEF Known
    <3>1. <<u, f>>[2] = f
      OBVIOUS
    <3>. QED
      BY <1>1, <3>1 DEF Flows
  <2>. QED
    BY <1>2, <2>1 DEF Flows
<1>. QED
  BY <1>1, <1>2, <1>3 DEF Flows

\* A move of the endpoints under a parameter forgets no flow, and what it does
\* not touch stays as it was.
LEMMA MergedKeeps ==
    ASSUME NEW e
    PROVE  /\ DOMAIN Merged(e) = {Target(e, w) : w \in DOMAIN endpoints}
           /\ Known(Merged(e)) = Known(endpoints)
           /\ \A u \in DOMAIN Merged(e) \ {Target(e, w) : w \in MovedIds(e)} :
                 u \in DOMAIN endpoints \ MovedIds(e) /\ Merged(e)[u] = endpoints[u]
<1>1. DOMAIN Merged(e) = {Target(e, w) : w \in DOMAIN endpoints}
  BY DEF Merged
<1>2. ASSUME NEW u \in DOMAIN Merged(e)
      PROVE  BagToSet(Merged(e)[u]) = UNION {BagToSet(endpoints[w]) : w \in Meeting(e, u)}
  <2>1. CASE Meeting(e, u) = {u}
    <3>1. Merged(e)[u] = endpoints[u]
      BY <1>1, <2>1 DEF Merged
    <3>. QED
      BY <2>1, <3>1
  <2>2. CASE Meeting(e, u) # {u}
    BY <1>1, <2>2 DEF Merged, BagToSet
  <2>. QED
    BY <2>1, <2>2
<1>3. Known(Merged(e)) \subseteq Known(endpoints)
  BY <1>2 DEF Known, Meeting
<1>4. Known(endpoints) \subseteq Known(Merged(e))
  <2>. SUFFICES ASSUME NEW w \in DOMAIN endpoints, NEW f \in BagToSet(endpoints[w])
                PROVE  f \in Known(Merged(e))
    BY DEF Known
  <2>1. Target(e, w) \in DOMAIN Merged(e) /\ w \in Meeting(e, Target(e, w))
    BY <1>1 DEF Meeting
  <2>. QED
    BY <1>2, <2>1 DEF Known
<1>5. ASSUME NEW u \in DOMAIN Merged(e), u \notin {Target(e, w) : w \in MovedIds(e)}
      PROVE  u \in DOMAIN endpoints \ MovedIds(e) /\ Merged(e)[u] = endpoints[u]
  <2>1. \A w \in Meeting(e, u) : w = u
    BY <1>5 DEF Meeting, MovedIds
  <2>2. Meeting(e, u) = {u}
    BY <1>1, <2>1 DEF Meeting
  <2>. QED
    BY <1>1, <1>5, <2>2 DEF Merged, Meeting, MovedIds
<1>. QED
  BY <1>1, <1>3, <1>4, <1>5

\* A flow that is folded into the profiles after is known from then on, unless it
\* found no room, and only its endpoint changes.
LEMMA FoldKeeps ==
    ASSUME NEW f, NEW u, NEW after, NEW size, NEW touched,
           Fold(f, u, after, size, touched)
    PROVE  /\ Known(after) \union {f} \subseteq Known(endpoints') \union capped'
           /\ Known(after) \subseteq Known(endpoints')
           /\ capped \subseteq capped'
           /\ DOMAIN after \subseteq DOMAIN endpoints'
           /\ \A w \in DOMAIN endpoints' \ dirty' :
                 w \in DOMAIN after \ touched /\ endpoints'[w] = after[w]
<1>1. CASE u \notin DOMAIN after /\ size >= MaxEndpoints
  BY <1>1 DEF Fold
<1>2. CASE ~(u \notin DOMAIN after /\ size >= MaxEndpoints)
  <2>1. /\ endpoints' = [w \in {u} \union DOMAIN after |->
                            IF w # u THEN after[w]
                            ELSE IF w \in DOMAIN after THEN BagAdd(after[w], f)
                            ELSE SetToBag({f})]
        /\ dirty' = touched \union {u}
        /\ capped' = capped
    BY <1>2 DEF Fold
  <2>2. f \in BagToSet(endpoints'[u])
    BY <2>1 DEF BagToSet, BagAdd, SetToBag
  <2>3. \A w \in DOMAIN after : BagToSet(after[w]) \subseteq BagToSet(endpoints'[w])
    BY <2>1 DEF BagToSet, BagAdd
  <2>4. DOMAIN endpoints' = {u} \union DOMAIN after
    BY <2>1
  <2>5. Known(after) \union {f} \subseteq Known(endpoints')
    BY <2>2, <2>3, <2>4 DEF Known
  <2>. QED
    BY <2>1, <2>4, <2>5
<1>. QED
  BY <1>1, <1>2

\* Observing a flow forgets none; an endpoint that it does not make dirty stays as
\* it was, and one that goes is retired.
LEMMA ObserveKeeps ==
    ASSUME NEW f, NEW path, Observe(f, path)
    PROVE  /\ Known(endpoints) \union {f} \subseteq Known(endpoints') \union capped'
           /\ Known(endpoints) \subseteq Known(endpoints')
           /\ capped \subseteq capped'
           /\ retired \subseteq retired'
           /\ DOMAIN endpoints \subseteq DOMAIN endpoints' \union retired'
           /\ \A w \in DOMAIN endpoints' \ dirty' :
                 w \in DOMAIN endpoints \ dirty /\ endpoints'[w] = endpoints[w]
<1>. PICK r \in Normalize(engine, path) :
        IF r.collapsed
        THEN LET e == r.engine
                 moved == MovedIds(e)
             IN  /\ Fold(f, r.norm, Merged(e), count - Absorbed(e),
                         (dirty \ moved) \union {Target(e, u) : u \in moved})
                 /\ retired' = retired \union moved
        ELSE /\ Fold(f, r.norm, endpoints, count, dirty)
             /\ UNCHANGED retired
  BY DEF Observe
<1>1. CASE r.collapsed
  <2>. DEFINE e     == r.engine
              moved == MovedIds(e)
              after == Merged(e)
              touched == (dirty \ moved) \union {Target(e, u) : u \in moved}
  <2>1. /\ Fold(f, r.norm, after, count - Absorbed(e), touched)
        /\ retired' = retired \union moved
    BY <1>1
  <2>2. /\ DOMAIN after = {Target(e, w) : w \in DOMAIN endpoints}
        /\ Known(after) = Known(endpoints)
        /\ \A u \in DOMAIN after \ {Target(e, w) : w \in moved} :
              u \in DOMAIN endpoints \ moved /\ after[u] = endpoints[u]
    BY MergedKeeps
  <2>3. DOMAIN endpoints \subseteq DOMAIN after \union moved
    BY <2>2 DEF MovedIds
  <2>. HIDE DEF after, moved, e
  <2>4. /\ Known(after) \union {f} \subseteq Known(endpoints') \union capped'
        /\ Known(after) \subseteq Known(endpoints')
        /\ capped \subseteq capped'
        /\ DOMAIN after \subseteq DOMAIN endpoints'
        /\ \A w \in DOMAIN endpoints' \ dirty' :
              w \in DOMAIN after \ touched /\ endpoints'[w] = after[w]
    <3>. HIDE DEF touched
    <3>. QED
      BY <2>1, FoldKeeps
  <2>5. \A w \in DOMAIN endpoints' \ dirty' :
           w \in DOMAIN endpoints \ dirty /\ endpoints'[w] = endpoints[w]
    BY <2>2, <2>4
  <2>. QED
    BY <2>1, <2>2, <2>3, <2>4, <2>5
<1>2. CASE ~r.collapsed
  BY <1>2, FoldKeeps
<1>. QED
  BY <1>1, <1>2

-----------------------------------------------------------------------------
(* The invariant of the worker and the table.                              *)

\* Every flow that was acked, that waits for its ack or that counts as seen is in an
\* endpoint, unless there was no room for it or its row was deleted.
Lost == Flows(wiped)
Kept == capped \union Lost \union Known(endpoints)
Covered == acked \ refused

KnownInv ==
    /\ wiped \intersect Entries(rows) = {}
    /\ \A m \in Covered : FlowOf[m] \in capped \union Lost \union Known(rows)
    /\ Up => /\ \A m \in Covered : FlowOf[m] \in Kept
             /\ \A m \in BagToSet(pending) : FlowOf[m] \in Kept
             /\ seen \subseteq Kept

ProfInv == FlushInv /\ KnownInv /\ RowsFollowEndpoints

\* An endpoint that is in the table, or whose row was deleted under it.
Held(u, profiles, entries) ==
    \/ u \in DOMAIN profiles /\ profiles[u] = endpoints[u]
    \/ u \notin DOMAIN profiles /\ {u} \X BagToSet(endpoints[u]) \subseteq entries

\* When nothing is dirty, the table holds every flow, but for those it was wiped of.
LEMMA RowsHoldEndpoints ==
    ASSUME NEW profiles, NEW entries, \A u \in DOMAIN endpoints : Held(u, profiles, entries)
    PROVE  Known(endpoints) \subseteq Known(profiles) \union Flows(entries)
<1>. SUFFICES ASSUME NEW u \in DOMAIN endpoints, NEW f \in BagToSet(endpoints[u])
              PROVE  f \in Known(profiles) \union Flows(entries)
  BY DEF Known
<1>1. CASE u \in DOMAIN profiles /\ profiles[u] = endpoints[u]
  BY <1>1 DEF Known
<1>2. CASE {u} \X BagToSet(endpoints[u]) \subseteq entries
  <2>1. <<u, f>> \in entries /\ <<u, f>>[2] = f
    BY <1>2
  <2>. QED
    BY <2>1 DEF Flows
<1>. QED
  BY <1>1, <1>2 DEF Held

LEMMA ProfInvInit == ProfInit => ProfInv
<1>. SUFFICES ASSUME ProfInit PROVE ProfInv
  OBVIOUS
<1>1. BagToSet(pending) = {}
  BY DEF ProfInit, BagToSet, EmptyBag, SetToBag
<1>2. FlushInv
  BY TypesInit
<1>3. KnownInv /\ RowsFollowEndpoints
  BY <1>1 DEF ProfInit, KnownInv, RowsFollowEndpoints, Covered, Up, Entries
<1>. QED
  BY <1>2, <1>3 DEF ProfInv

-----------------------------------------------------------------------------
(* The worker's steps.                                                     *)

LEMMA RefuseKeeps ==
    ASSUME ProfInv, NEW m, Refuse(m)
    PROVE  KnownInv' /\ RowsFollowEndpoints'
<1>1. /\ phase \in {"batch", "loop"} /\ phase' = "batch"
      /\ (acked \ refused)' \subseteq acked \ refused
      /\ UNCHANGED <<aggregator, pending, flushing, stage, rows, wiped>>
  BY DEF Refuse, Receives, table
<1>2. Up
  BY <1>1 DEF Refuse, Receives, Up, ProfInv, FlushInv
<1>4. KnownInv'
  BY <1>1 DEF ProfInv, KnownInv, Kept, Lost, Covered, Known, aggregator, Up
<1>5. RowsFollowEndpoints'
  BY <1>1 DEF ProfInv, RowsFollowEndpoints, aggregator, Up
<1>. QED
  BY <1>4, <1>5

LEMMA LearnKeeps ==
    ASSUME ProfInv, NEW m, Learn(m)
    PROVE  KnownInv' /\ RowsFollowEndpoints'
<1>1. /\ phase \in {"batch", "loop"} /\ phase' = "batch"
      /\ pending' = BagAdd(pending, m)
      /\ UNCHANGED <<flushing, stage, rows, wiped, acked, refused>>
  BY DEF Learn, Receives, table
<1>2. Up /\ flushing = NoWork
  BY <1>1 DEF Learn, Receives, Up, ProfInv, FlushInv
<1>3. BagToSet(pending') = BagToSet(pending) \union {m}
  BY <1>1 DEF BagToSet, BagAdd
<1>4. CASE FlowOf[m] \in seen
  <2>1. UNCHANGED aggregator
    BY <1>4 DEF Learn
  <2>3. FlowOf[m] \in Kept
    BY <1>2, <1>4 DEF ProfInv, KnownInv
  <2>4. KnownInv'
    BY <1>1, <1>3, <2>1, <2>3 DEF ProfInv, KnownInv, Kept, Lost, Covered, Known, aggregator, Up
  <2>5. RowsFollowEndpoints'
    BY <1>1, <1>2, <2>1 DEF ProfInv, RowsFollowEndpoints, aggregator, Up
  <2>. QED
    BY <2>4, <2>5
<1>5. CASE FlowOf[m] \notin seen
  <2>1. /\ Observe(FlowOf[m], PathOf[m])
        /\ seen' \subseteq seen \union {FlowOf[m]}
    BY <1>5 DEF Learn
  <2>2. /\ Known(endpoints) \union {FlowOf[m]} \subseteq Known(endpoints') \union capped'
        /\ Known(endpoints) \subseteq Known(endpoints')
        /\ capped \subseteq capped'
        /\ retired \subseteq retired'
        /\ DOMAIN endpoints \subseteq DOMAIN endpoints' \union retired'
        /\ \A w \in DOMAIN endpoints' \ dirty' :
              w \in DOMAIN endpoints \ dirty /\ endpoints'[w] = endpoints[w]
    BY <2>1, ObserveKeeps
  <2>4. Kept \union {FlowOf[m]} \subseteq Kept'
    BY <1>1, <2>2 DEF Kept, Known, Lost
  <2>5. KnownInv'
    <3>1. /\ wiped \intersect Entries(rows) = {}
          /\ \A n \in Covered : FlowOf[n] \in capped \union Lost \union Known(rows)
          /\ \A n \in Covered : FlowOf[n] \in Kept
          /\ \A n \in BagToSet(pending) : FlowOf[n] \in Kept
          /\ seen \subseteq Kept
      BY <1>2 DEF ProfInv, KnownInv
    <3>2. Covered' = Covered /\ rows' = rows /\ wiped' = wiped /\ Lost' = Lost
      BY <1>1 DEF Covered, Lost
    <3>3. \A n \in Covered' : FlowOf[n] \in capped' \union Lost' \union Known(rows')
      BY <2>2, <3>1, <3>2
    <3>4. /\ \A n \in Covered' : FlowOf[n] \in Kept'
          /\ \A n \in BagToSet(pending') : FlowOf[n] \in Kept'
          /\ seen' \subseteq Kept'
      BY <1>3, <2>1, <2>4, <3>1, <3>2
    <3>. QED
      BY <3>1, <3>2, <3>3, <3>4 DEF KnownInv, Known, BagToSet
  <2>6. RowsFollowEndpoints'
    BY <1>1, <1>2, <2>2 DEF ProfInv, RowsFollowEndpoints, NoWork, Up
  <2>. QED
    BY <2>5, <2>6
<1>. QED
  BY <1>4, <1>5

\* A write forgets no flow: what it brings back is in an endpoint.
LEMMA WriteRowsKeeps ==
    ASSUME ProfInv, phase = "upsert", WriteRows
    PROVE  /\ wiped' \intersect Entries(rows') = {}
           /\ \A u \in DOMAIN endpoints : Held(u, rows', wiped')
           /\ DOMAIN rows' \subseteq DOMAIN endpoints \union flushing.retired
           /\ Kept \subseteq capped \union Lost' \union Known(rows')
           /\ Kept \subseteq capped \union Lost' \union Known(endpoints)
<1>1. /\ Up /\ dirty = {} /\ retired = {} /\ flushing.dirty \subseteq DOMAIN endpoints
      /\ rows' = Upserted /\ wiped' = wiped \ Entries(rows')
      /\ wiped \intersect Entries(rows) = {}
  BY DEF ProfInv, FlushInv, KnownInv, WriteRows
<1>2. /\ DOMAIN rows' = flushing.dirty \union DOMAIN rows
      /\ \A u \in DOMAIN rows' :
            rows'[u] = IF u \in flushing.dirty THEN endpoints[u] ELSE rows[u]
  BY <1>1 DEF Upserted
<1>3. /\ \A u \in DOMAIN endpoints \ flushing.dirty : Held(u, rows, wiped)
      /\ DOMAIN rows \subseteq DOMAIN endpoints \union flushing.retired
  BY <1>1 DEF ProfInv, RowsFollowEndpoints, Held
<1>4. ASSUME NEW u \in DOMAIN endpoints
      PROVE  Held(u, rows', wiped')
  <2>1. CASE u \in DOMAIN rows'
    BY <1>2, <1>3, <1>4, <2>1 DEF Held
  <2>2. CASE u \notin DOMAIN rows'
    <3>1. {u} \X BagToSet(endpoints[u]) \subseteq wiped
      BY <1>2, <1>3, <1>4, <2>2 DEF Held
    <3>2. \A x \in Entries(rows') : x[1] # u
      BY <2>2 DEF Entries
    <3>3. \A x \in {u} \X BagToSet(endpoints[u]) : x[1] = u
      OBVIOUS
    <3>. QED
      BY <1>1, <2>2, <3>1, <3>2, <3>3 DEF Held
  <2>. QED
    BY <2>1, <2>2
<1>5. Known(endpoints) \subseteq Lost' \union Known(rows')
  BY <1>4, RowsHoldEndpoints DEF Lost
<1>6. ASSUME NEW x \in wiped, x \in Entries(rows')
      PROVE  x[2] \in Known(endpoints) /\ x[2] \in Known(rows')
  <2>1. PICK u \in DOMAIN rows' : x \in {u} \X BagToSet(rows'[u])
    BY <1>6 DEF Entries
  <2>2. CASE u \in flushing.dirty
    BY <1>1, <1>2, <2>1, <2>2 DEF Known
  <2>3. CASE u \notin flushing.dirty
    <3>1. u \in DOMAIN rows /\ x \in {u} \X BagToSet(rows[u])
      BY <1>2, <2>1, <2>3
    <3>2. x \in Entries(rows)
      BY <3>1 DEF Entries
    <3>. QED
      BY <1>1, <1>6, <3>2
  <2>. QED
    BY <2>2, <2>3
<1>7. Lost \subseteq Lost' \union Known(endpoints) /\ Lost \subseteq Lost' \union Known(rows')
  BY <1>1, <1>6 DEF Lost, Flows
<1>8. wiped' \intersect Entries(rows') = {}
  BY <1>1
<1>9. DOMAIN rows' \subseteq DOMAIN endpoints \union flushing.retired
  BY <1>1, <1>2, <1>3
<1>. QED
  BY <1>4, <1>5, <1>7, <1>8, <1>9 DEF Kept

\* KnownInv after a step of flush that acks nothing.
LEMMA KnownAfterWrite ==
    ASSUME KnownInv, Up, UNCHANGED <<endpoints, seen, capped, pending, stage, acked, refused>>,
           wiped' \intersect Entries(rows') = {},
           Kept \subseteq capped \union Lost' \union Known(rows'),
           Kept \subseteq capped \union Lost' \union Known(endpoints)
    PROVE  KnownInv'
<1>1. Covered' = Covered /\ Up' = Up
  BY DEF Covered, Up
<1>2. Known(endpoints)' = Known(endpoints)
  BY DEF Known
<1>3. Kept \subseteq Kept'
  BY <1>2 DEF Kept
<1>4. \A m \in Covered' : FlowOf[m] \in capped' \union Lost' \union Known(rows')
  BY <1>1 DEF KnownInv
<1>5. /\ \A m \in Covered' : FlowOf[m] \in Kept'
      /\ \A m \in BagToSet(pending') : FlowOf[m] \in Kept'
      /\ seen' \subseteq Kept'
  BY <1>1, <1>3 DEF KnownInv, BagToSet
<1>. QED
  BY <1>4, <1>5 DEF KnownInv, Known, BagToSet

\* A failed flush makes dirty again what it may not have written.
LEMMA UpsertFailsKeeps ==
    ASSUME ProfInv, UpsertFails
    PROVE  KnownInv' /\ RowsFollowEndpoints'
<1>1. /\ phase = "upsert" /\ phase' = "loop"
      /\ dirty = {} /\ retired = {} /\ flushing.dirty \subseteq DOMAIN endpoints
      /\ WriteRows \/ UNCHANGED <<rows, wiped>>
      /\ dirty' = flushing.dirty /\ retired' = flushing.retired
      /\ flushing' = NoWork
      /\ UNCHANGED <<endpoints, seen, capped, pending, stage, acked, refused>>
  BY DEF UpsertFails, Requeue, ProfInv, FlushInv, stream, table
<1>2. Up /\ KnownInv
  BY <1>1 DEF ProfInv, FlushInv
<1>3. CASE UNCHANGED <<rows, wiped>>
  <2>1. RowsFollowEndpoints'
    BY <1>1, <1>2, <1>3 DEF ProfInv, RowsFollowEndpoints, NoWork, Up
  <2>2. KnownInv'
    BY <1>1, <1>2, <1>3 DEF KnownInv, Kept, Lost, Covered, Known, Up
  <2>. QED
    BY <2>1, <2>2
<1>4. CASE WriteRows
  <2>1. KnownInv'
    BY <1>1, <1>2, <1>4, WriteRowsKeeps, KnownAfterWrite
  <2>2. RowsFollowEndpoints'
    BY <1>1, <1>4, WriteRowsKeeps DEF RowsFollowEndpoints, Held, NoWork
  <2>. QED
    BY <2>1, <2>2
<1>. QED
  BY <1>1, <1>3, <1>4

LEMMA UpsertKeeps ==
    ASSUME ProfInv, UpsertEndpoints
    PROVE  KnownInv' /\ RowsFollowEndpoints'
<1>1. /\ phase = "upsert" /\ phase' = "delete" /\ WriteRows
      /\ UNCHANGED <<endpoints, seen, capped, dirty, retired, pending, flushing, stage,
                     acked, refused>>
  BY DEF UpsertEndpoints, stream, aggregator
<1>2. Up /\ KnownInv
  BY <1>1 DEF ProfInv, FlushInv
<1>3. KnownInv'
  BY <1>1, <1>2, WriteRowsKeeps, KnownAfterWrite
<1>4. RowsFollowEndpoints'
  BY <1>1, WriteRowsKeeps DEF RowsFollowEndpoints, Held
<1>. QED
  BY <1>3, <1>4

\* The acks of the pending messages go out when the table covers what is acked: the
\* invariant of the flows is kept if every flow of an endpoint is in the table by then,
\* or was wiped from it.
LEMMA AckKeepsKnown ==
    ASSUME KnownInv, Up, AckPending,
           UNCHANGED <<endpoints, seen, capped, stage>>,
           wiped' \intersect Entries(rows') = {},
           wiped \subseteq wiped',
           \A u \in DOMAIN endpoints : Held(u, rows', wiped')
    PROVE  KnownInv'
<1>1. PICK lost \in SUBSET BagToSet(pending) :
         /\ acked' = acked \union (BagToSet(pending) \ lost)
         /\ pending' = EmptyBag
         /\ UNCHANGED refused
  BY DEF AckPending
<1>2. Covered' \subseteq Covered \union BagToSet(pending)
  BY <1>1 DEF Covered
<1>3. \A m \in Covered' : FlowOf[m] \in Kept
  BY <1>2 DEF KnownInv
<1>4. Known(endpoints) \subseteq Known(rows') \union Lost'
  BY RowsHoldEndpoints DEF Lost
<1>5. Lost \subseteq Lost'
  BY DEF Lost, Flows
<1>6. Kept \subseteq Kept'
  BY <1>5 DEF Kept, Known
<1>7. BagToSet(pending') = {}
  BY <1>1 DEF BagToSet, EmptyBag, SetToBag
<1>8. \A m \in Covered' : FlowOf[m] \in capped' \union Lost' \union Known(rows')
  BY <1>3, <1>4, <1>5 DEF Kept
<1>9. (\A m \in Covered' : FlowOf[m] \in Kept') /\ seen' \subseteq Kept'
  BY <1>3, <1>6 DEF KnownInv
<1>. QED
  BY <1>7, <1>8, <1>9 DEF KnownInv, Known, BagToSet

LEMMA CollectKeeps ==
    ASSUME ProfInv, Collect
    PROVE  KnownInv' /\ RowsFollowEndpoints'
<1>1. /\ phase = "collect" /\ dirty' = {} /\ retired' = {}
      /\ flushing = NoWork
      /\ flushing' = [dirty |-> dirty \intersect DOMAIN endpoints, retired |-> retired]
      /\ UNCHANGED <<endpoints, seen, capped, stage, rows, wiped>>
  BY DEF Collect, ProfInv, FlushInv, table
<1>2. Up /\ KnownInv
  BY <1>1 DEF ProfInv, FlushInv
<1>3. CASE flushing' = NoWork
  <2>1. AckPending /\ phase' = "loop"
    BY <1>3 DEF Collect, AckPending
  <2>2. dirty \intersect DOMAIN endpoints = {} /\ retired = {}
    BY <1>1, <1>3 DEF NoWork
  <2>3. \A u \in DOMAIN endpoints : Held(u, rows, wiped)
    BY <1>1, <1>2, <2>2 DEF ProfInv, RowsFollowEndpoints, Held
  <2>4. RowsFollowEndpoints'
    BY <1>1, <1>2, <1>3, <2>1, <2>2, <2>3 DEF ProfInv, RowsFollowEndpoints, Held, NoWork, Up
  <2>5. wiped \intersect Entries(rows) = {}
    BY <1>2 DEF KnownInv
  <2>6. KnownInv'
    BY <1>1, <1>2, <2>1, <2>3, <2>5, AckKeepsKnown
  <2>. QED
    BY <2>4, <2>6
<1>4. CASE flushing' # NoWork
  <2>1. phase' = "upsert" /\ UNCHANGED <<pending, acked, refused>>
    BY <1>4 DEF Collect, stream
  <2>2. RowsFollowEndpoints'
    BY <1>1, <1>2, <2>1 DEF ProfInv, RowsFollowEndpoints, NoWork, Up
  <2>3. KnownInv'
    BY <1>1, <1>2, <2>1 DEF KnownInv, Kept, Lost, Covered, Known, Up
  <2>. QED
    BY <2>2, <2>3
<1>. QED
  BY <1>3, <1>4

\* What the deletion leaves of the table is every endpoint, but for those whose rows
\* it wipes.
LEMMA DeleteRowsKeeps ==
    ASSUME ProfInv, phase = "delete", DeleteRows
    PROVE  /\ wiped' \intersect Entries(rows') = {}
           /\ wiped \subseteq wiped'
           /\ \A u \in DOMAIN endpoints : Held(u, rows', wiped')
           /\ DOMAIN rows' \subseteq DOMAIN endpoints
<1>1. /\ Up /\ dirty = {} /\ retired = {}
      /\ rows' = Remaining
      /\ wiped' = wiped \union {x \in Entries(rows) : x[1] \in Revived}
      /\ wiped \intersect Entries(rows) = {}
  BY DEF ProfInv, FlushInv, KnownInv, DeleteRows
<1>2. /\ \A u \in DOMAIN endpoints : Held(u, rows, wiped)
      /\ DOMAIN rows \subseteq DOMAIN endpoints \union flushing.retired
  BY <1>1 DEF ProfInv, RowsFollowEndpoints, Held
<1>3. /\ DOMAIN rows' = DOMAIN rows \ flushing.retired
      /\ \A u \in DOMAIN rows' : rows'[u] = rows[u]
  BY <1>1 DEF Remaining
<1>4. \A x \in Entries(rows') : x \in Entries(rows) /\ x[1] \notin Revived
  BY <1>3 DEF Entries, Revived
<1>5. ASSUME NEW u \in DOMAIN endpoints
      PROVE  Held(u, rows', wiped')
  <2>1. CASE u \in DOMAIN rows /\ u \in flushing.retired
    <3>1. u \in Revived /\ u \notin DOMAIN rows' /\ rows[u] = endpoints[u]
      BY <1>2, <1>3, <2>1 DEF Revived, Held
    <3>2. ASSUME NEW f \in BagToSet(endpoints[u]) PROVE <<u, f>> \in wiped'
      <4>1. <<u, f>> \in Entries(rows) /\ <<u, f>>[1] = u
        BY <2>1, <3>1, <3>2, KnownIs
      <4>. QED
        BY <1>1, <3>1, <4>1
    <3>. QED
      BY <3>1, <3>2 DEF Held
  <2>2. CASE ~ (u \in DOMAIN rows /\ u \in flushing.retired)
    BY <1>1, <1>2, <1>3, <2>2 DEF Held
  <2>. QED
    BY <2>1, <2>2
<1>6. wiped' \intersect Entries(rows') = {}
  BY <1>1, <1>4
<1>. QED
  BY <1>1, <1>2, <1>3, <1>5, <1>6

LEMMA DeleteKeeps ==
    ASSUME ProfInv, DeleteEndpoints
    PROVE  KnownInv' /\ RowsFollowEndpoints'
<1>1. /\ phase = "delete" /\ phase' = "loop" /\ AckPending
      /\ DeleteRows /\ flushing' = NoWork
      /\ UNCHANGED <<endpoints, seen, capped, dirty, retired, stage>>
  BY DEF DeleteEndpoints, AckPending, aggregator
<1>2. Up /\ KnownInv
  BY <1>1 DEF ProfInv, FlushInv
<1>3. RowsFollowEndpoints'
  BY <1>1, DeleteRowsKeeps DEF RowsFollowEndpoints, Held, NoWork
<1>4. KnownInv'
  BY <1>1, <1>2, DeleteRowsKeeps, AckKeepsKnown
<1>. QED
  BY <1>3, <1>4

LEMMA DeleteFailsKeeps ==
    ASSUME ProfInv, DeleteFails
    PROVE  KnownInv' /\ RowsFollowEndpoints'
<1>1. /\ phase = "delete" /\ phase' = "loop"
      /\ dirty = {} /\ retired = {}
      /\ DeleteRows \/ UNCHANGED <<rows, wiped>>
      /\ dirty' = {} /\ retired' = flushing.retired
      /\ flushing' = NoWork
      /\ UNCHANGED <<endpoints, seen, capped, pending, stage, acked, refused>>
  BY DEF DeleteFails, Requeue, ProfInv, FlushInv, stream, table
<1>2. Up /\ KnownInv
  BY <1>1 DEF ProfInv, FlushInv
<1>3. CASE UNCHANGED <<rows, wiped>>
  <2>1. RowsFollowEndpoints'
    BY <1>1, <1>2, <1>3 DEF ProfInv, RowsFollowEndpoints, NoWork, Up
  <2>2. KnownInv'
    BY <1>1, <1>2, <1>3 DEF KnownInv, Kept, Lost, Covered, Known, Up
  <2>. QED
    BY <2>1, <2>2
<1>4. CASE DeleteRows
  <2>1. RowsFollowEndpoints'
    BY <1>1, <1>4, DeleteRowsKeeps DEF RowsFollowEndpoints, Held, NoWork
  <2>2. Known(endpoints) \subseteq Known(rows') \union Lost'
    BY <1>1, <1>4, DeleteRowsKeeps, RowsHoldEndpoints DEF Lost
  <2>3. Lost \subseteq Lost'
    BY <1>1, <1>4, DeleteRowsKeeps DEF Lost, Flows
  <2>4. Kept \subseteq capped \union Lost' \union Known(endpoints)
    BY <2>3 DEF Kept
  <2>5. Kept \subseteq capped \union Lost' \union Known(rows')
    BY <2>2, <2>3 DEF Kept
  <2>6. KnownInv'
    BY <1>1, <1>2, <1>4, <2>4, <2>5, DeleteRowsKeeps, KnownAfterWrite
  <2>. QED
    BY <2>1, <2>6
<1>. QED
  BY <1>1, <1>3, <1>4

\* A process that goes takes what it held with it; what was acked is in the table.
LEMMA GoneKeeps ==
    ASSUME ProfInv, Gone
    PROVE  KnownInv' /\ RowsFollowEndpoints'
<1>1. /\ phase' = "loop" /\ flushing' = NoWork /\ pending' = EmptyBag /\ seen' = {}
      /\ stage' = "down"
      /\ UNCHANGED <<rows, wiped, acked, refused, capped>>
  BY DEF Gone, stream, table
<1>3. KnownInv'
  BY <1>1 DEF ProfInv, KnownInv, Covered, Known, Lost, Up
<1>4. RowsFollowEndpoints'
  BY <1>1 DEF RowsFollowEndpoints, Up
<1>. QED
  BY <1>3, <1>4

\* A process that starts knows what the table knows.
LEMMA BootKeeps ==
    ASSUME ProfInv, Boot
    PROVE  KnownInv' /\ RowsFollowEndpoints'
<1>1. /\ phase = "loop" /\ pending = EmptyBag /\ seen = {} /\ flushing = NoWork
      /\ endpoints' = rows
      /\ UNCHANGED <<dirty, retired, seen, capped, pending, flushing, phase, rows, wiped,
                     acked, refused>>
  BY DEF Boot, ProfInv, FlushInv, stream, table
<1>3. BagToSet(pending) = {}
  BY <1>1 DEF BagToSet, EmptyBag, SetToBag
<1>4. KnownInv'
  BY <1>1, <1>3 DEF ProfInv, KnownInv, Kept, Lost, Covered, Known, BagToSet
<1>5. RowsFollowEndpoints'
  BY <1>1 DEF RowsFollowEndpoints
<1>. QED
  BY <1>4, <1>5

\* Steps that change neither what is known nor what is being written.
LEMMA OtherKeeps ==
    ASSUME ProfInv,
           UNCHANGED <<endpoints, dirty, retired, seen, capped, pending, flushing, rows,
                       wiped, acked, refused>>,
           \/ UNCHANGED <<phase, stage>>
           \/ /\ phase \in {"loop", "batch"} /\ phase' \in {"loop", "batch", "collect"}
              /\ Up /\ Up'
           \/ UNCHANGED phase /\ Up /\ Up'
    PROVE  KnownInv' /\ RowsFollowEndpoints'
<1>1. Up' = Up
  BY DEF Up
<1>3. KnownInv'
  BY <1>1 DEF ProfInv, KnownInv, Kept, Lost, Covered, Known
<1>4. RowsFollowEndpoints'
  BY <1>1 DEF ProfInv, RowsFollowEndpoints
<1>. QED
  BY <1>3, <1>4

LEMMA ProfInvStep ==
    ASSUME ProfInv, [ProfNext]_profVars
    PROVE  ProfInv'
<1>. USE DEF aggregator, worker, table, stream
<1>1. ASSUME NEW m \in Message, Receive(m) PROVE KnownInv' /\ RowsFollowEndpoints'
  BY <1>1, RefuseKeeps, LearnKeeps DEF Receive
<1>2. ASSUME NEW m \in Message, Redeliver(m) PROVE KnownInv' /\ RowsFollowEndpoints'
  BY <1>2, OtherKeeps DEF Redeliver
<1>3. ASSUME EndBatch PROVE KnownInv' /\ RowsFollowEndpoints'
  <2>1. Up
    BY <1>3 DEF EndBatch, ProfInv, FlushInv
  <2>. QED
    BY <1>3, <2>1, OtherKeeps DEF EndBatch, Up
<1>4. ASSUME FlushTick PROVE KnownInv' /\ RowsFollowEndpoints'
  BY <1>4, OtherKeeps DEF FlushTick, Up
<1>5. ASSUME Flush PROVE KnownInv' /\ RowsFollowEndpoints'
  BY <1>5, CollectKeeps, UpsertKeeps, UpsertFailsKeeps, DeleteKeeps, DeleteFailsKeeps DEF Flush
<1>6. ASSUME Signal PROVE KnownInv' /\ RowsFollowEndpoints'
  BY <1>6, OtherKeeps DEF Signal, Up
<1>7. ASSUME LeaveLoop PROVE KnownInv' /\ RowsFollowEndpoints'
  BY <1>7, OtherKeeps DEF LeaveLoop, Up
<1>8. ASSUME Exit \/ Crash PROVE KnownInv' /\ RowsFollowEndpoints'
  BY <1>8, GoneKeeps DEF Exit, Crash
<1>9. ASSUME Boot PROVE KnownInv' /\ RowsFollowEndpoints'
  BY <1>9, BootKeeps
<1>10. ASSUME UNCHANGED profVars PROVE KnownInv' /\ RowsFollowEndpoints'
  BY <1>10, OtherKeeps DEF profVars
<1>11. KnownInv' /\ RowsFollowEndpoints'
  BY <1>1, <1>2, <1>3, <1>4, <1>5, <1>6, <1>7, <1>8, <1>9, <1>10 DEF ProfNext
<1>12. FlushInv'
  BY FlushInvStep DEF ProfInv
<1>. QED
  BY <1>11, <1>12 DEF ProfInv

-----------------------------------------------------------------------------
(* What may be promoted at each depth of the paths.                         *)

\* The identifiers at one depth of the scope's paths are of one type: the code lets a
\* decision be replaced by one of another type where they are not.
TypesAre(K) ==
    \A m \in Message : \A i \in 1..Len(PathOf[m]) :
        KindOf[PathOf[m][i]] \in Promotable => KindOf[PathOf[m][i]] = K[i]
OneTypePerDepth == \E K \in [Nat -> Promotable] : TypesAre(K)
TypeAt == CHOOSE K \in [Nat -> Promotable] : TypesAre(K)

LEMMA TypeAtIs ==
    ASSUME OneTypePerDepth
    PROVE  TypeAt \in [Nat -> Promotable] /\ TypesAre(TypeAt)
BY DEF OneTypePerDepth, TypeAt

\* What a position can have collapsed to, and how that may change: it only widens.
Param(i) == {TypeAt[i], "var", "freetext"}
Wider(i, s, c) == s = c \/ c = "freetext" \/ (s = TypeAt[i] /\ c = "var")

LEMMA MatchesIs ==
    ASSUME OneTypePerDepth, NEW i \in Nat
    PROVE  /\ \A v : Matches(v, "var") /\ Matches(v, "freetext")
           /\ \A s \in ValueType : ~ Matches(s, TypeAt[i])
           /\ \A v, s, c : s \in Param(i) /\ Wider(i, s, c) /\ Matches(v, s) => Matches(v, c)
<1>1. \A v : Matches(v, "var") /\ Matches(v, "freetext")
  BY DEF Matches, Join
<1>2. \A s \in ValueType : ~ Matches(s, TypeAt[i])
  BY TypeAtIs DEF Matches, Infer, Join, Promotable
<1>. QED
  BY <1>1, <1>2 DEF Wider

LEMMA WiderIs ==
    ASSUME OneTypePerDepth, NEW i \in Nat
    PROVE  /\ Param(i) \subseteq ValueType
           /\ TypeAt[i] # "var" /\ TypeAt[i] # "freetext"
           /\ \A a, b, c : Wider(i, a, b) /\ Wider(i, b, c) => Wider(i, a, c)
           /\ \A a, b : Wider(i, a, b) /\ Wider(i, b, a) => a = b
BY TypeAtIs DEF Param, ValueType, Promotable, Wider

LEMMA JoinAllWider ==
    ASSUME OneTypePerDepth, NEW i \in Nat, NEW S, S \subseteq Param(i), NEW s \in S
    PROVE  JoinAll(S) \in Param(i) /\ Wider(i, s, JoinAll(S))
<1>1. S \subseteq ValueType
  BY WiderIs
<1>2. /\ JoinAll(S) \in ValueType
      /\ \A x \in S : Below(x, JoinAll(S))
      /\ \A x : S = {x} => JoinAll(S) = x
  BY <1>1, JoinAllIs
<1>3. CASE S = {s}
  BY <1>2, <1>3 DEF Wider
<1>4. CASE S # {s}
  <2>1. PICK x \in S : x # s
    BY <1>4
  <2>2. Below(x, JoinAll(S)) /\ Below(s, JoinAll(S))
    BY <1>2
  <2>3. JoinAll(S) = "freetext"
    BY <1>1, <1>2, <2>1, <2>2, TypeAtIs, BelowIs DEF Param, Promotable, AlnumCharset
  <2>. QED
    BY <2>3 DEF Param, Wider
<1>. QED
  BY <1>3, <1>4

-----------------------------------------------------------------------------
\* What was decided for position i of u is a decision about the prefix before it.
Before(u, i) == SubSeq(u, 1, i - 1)
At(p) == Len(p) + 1
Decided(e, u, i)  == Before(u, i) \in DOMAIN e.collapses
Decision(e, u, i) == e.collapses[Before(u, i)]

LEMMA BeforeIs ==
    ASSUME NEW u \in Template, NEW i \in 1..Len(u)
    PROVE  /\ Len(u) \in Nat /\ u[i] \in Segment \union ValueType
           /\ Before(u, i) \in Template /\ Len(Before(u, i)) = i - 1 /\ At(Before(u, i)) = i
           /\ \A j \in 1..(i - 1) : /\ Before(u, i)[j] = u[j]
                                    /\ Before(Before(u, i), j) = Before(u, j)
BY DEF Before, Template, At

LEMMA AtIs == \A p \in Template : At(p) \in Nat
BY DEF At, Template

LEMMA StrictPrefixIs ==
    ASSUME NEW key \in Template, NEW prefix \in Template
    PROVE  IsStrictPrefix(prefix, key)
             <=> Len(prefix) < Len(key) /\ Before(key, Len(prefix) + 1) = prefix
<1>. DEFINE n == Len(prefix)
<1>1. n \in Nat /\ Len(key) \in Nat
  BY DEF Template
<1>2. SubSeq(prefix, 1, n) = prefix
  BY SubSeqFull DEF Template
<1>3. n = Len(key) => SubSeq(key, 1, n) = key
  BY SubSeqFull DEF Template
<1>4. Before(key, n + 1) = SubSeq(key, 1, n)
  BY <1>1 DEF Before
<1>. HIDE DEF n
<1>. QED
  BY <1>1, <1>2, <1>3, <1>4 DEF IsStrictPrefix, IsPrefix, n

\* Where a key moves, its prefixes move.
LEMMA RekeyedBefore ==
    ASSUME NEW key \in Template, NEW prefix \in Template, NEW t \in ValueType,
           NEW i \in 1..Len(key)
    PROVE  /\ Rekeyed(key, prefix, t)[i] = key[i]
              \/ /\ Before(key, i) = prefix /\ Matches(key[i], t)
                 /\ Rekeyed(key, prefix, t)[i] = t
           /\ Before(Rekeyed(key, prefix, t), i) = Rekeyed(Before(key, i), prefix, t)
<1>. DEFINE n == Len(prefix)
            b == Before(key, i)
<1>1. /\ n \in Nat /\ Len(key) \in Nat
      /\ b \in Template /\ Len(b) = i - 1
      /\ \A j \in 1..(i - 1) : b[j] = key[j] /\ Before(b, j) = Before(key, j)
  <2>1. n \in Nat /\ Len(key) \in Nat
    BY DEF Template
  <2>2. /\ b \in Template /\ Len(b) = i - 1
        /\ \A j \in 1..(i - 1) : b[j] = key[j] /\ Before(b, j) = Before(key, j)
    BY BeforeIs
  <2>. QED
    BY <2>1, <2>2
<1>2. CASE ~ (IsStrictPrefix(prefix, key) /\ Matches(key[n + 1], t))
  <2>1. Rekeyed(key, prefix, t) = key
    BY <1>2 DEF Rekeyed
  <2>2. ~ (IsStrictPrefix(prefix, b) /\ Matches(b[n + 1], t))
    <3>. SUFFICES ASSUME IsStrictPrefix(prefix, b), Matches(b[n + 1], t) PROVE FALSE
      OBVIOUS
    <3>1. n < i - 1 /\ Before(b, n + 1) = prefix
      BY <1>1, StrictPrefixIs
    <3>2. n + 1 \in 1..(i - 1)
      BY <1>1, <3>1
    <3>. QED
      BY <1>1, <1>2, <3>1, <3>2, StrictPrefixIs
  <2>3. Rekeyed(b, prefix, t) = b
    BY <2>2 DEF Rekeyed
  <2>. QED
    BY <2>1, <2>3
<1>3. CASE IsStrictPrefix(prefix, key) /\ Matches(key[n + 1], t)
  <2>. DEFINE r == Rekeyed(key, prefix, t)
  <2>1. n < Len(key) /\ Before(key, n + 1) = prefix /\ n + 1 \in 1..Len(key)
    BY <1>1, <1>3, StrictPrefixIs
  <2>2. /\ r \in Template /\ Len(r) = Len(key) /\ r[n + 1] = t
        /\ \A j \in 1..Len(key) : j # n + 1 => r[j] = key[j]
    <3>1. r = [key EXCEPT ![n + 1] = t]
      BY <1>3 DEF Rekeyed
    <3>. QED
      BY <2>1, <3>1, ExceptSeq, RekeyedIs DEF Template
  <2>. HIDE DEF r
  <2>3. r[i] = key[i] \/ (Before(key, i) = prefix /\ Matches(key[i], t) /\ r[i] = t)
    BY <1>3, <2>1, <2>2
  <2>. DEFINE s == Rekeyed(b, prefix, t)
  <2>4. s \in Template /\ Len(s) = i - 1
    BY <1>1, RekeyedIs
  <2>5. Before(r, i) \in Template /\ Len(Before(r, i)) = i - 1
        /\ \A j \in 1..(i - 1) : Before(r, i)[j] = r[j]
    BY <2>2, BeforeIs
  <2>6. ASSUME NEW j \in 1..(i - 1)
        PROVE  s[j] = r[j]
    <3>0. j \in 1..Len(b) /\ j \in 1..Len(key)
      BY <1>1
    <3>1. CASE i - 1 <= n
      <4>1. s = b
        BY <1>1, <3>1, RekeyedIs
      <4>2. j # n + 1
        BY <1>1, <3>1
      <4>. QED
        BY <1>1, <2>2, <3>0, <4>1, <4>2
    <3>2. CASE n < i - 1
      <4>0. n + 1 \in 1..(i - 1)
        BY <1>1, <3>2
      <4>1. IsStrictPrefix(prefix, b) /\ Matches(b[n + 1], t)
        BY <1>1, <1>3, <2>1, <3>2, <4>0, StrictPrefixIs
      <4>2. s = [b EXCEPT ![n + 1] = t]
        BY <4>1 DEF Rekeyed
      <4>3. s[j] = IF j = n + 1 THEN t ELSE b[j]
        BY <1>1, <3>0, <4>0, <4>2, ExceptSeq DEF Template
      <4>. QED
        BY <1>1, <2>2, <3>0, <4>3
    <3>. QED
      BY <1>1, <3>1, <3>2
  <2>7. Before(r, i) = s
    <3>. HIDE DEF s
    <3>. QED
      BY <2>4, <2>5, <2>6, SeqEqual DEF Template
  <2>. QED
    BY <2>3, <2>7 DEF r
<1>. QED
  BY <1>2, <1>3

\* What is known of a position tells of no type that could be promoted but one.
Knows(i, st) == DOMAIN st.kinds \intersect Promotable \subseteq {TypeAt[i]}

\* A token stands where a decision was taken, and the decision is as wide by now.
Backed(e, u) ==
    \A i \in 1..Len(u) : u[i] \in ValueType =>
        Decided(e, u, i) /\ Wider(i, u[i], Decision(e, u, i))

\* The engine of a scope in which the values of one type only are promoted.
Decides(e) ==
    /\ EngineOK(e)
    /\ \A p \in DOMAIN e.collapses : e.collapses[p] \in Param(At(p)) /\ Backed(e, p)
Learns(e) ==
    /\ IsFiniteSet(DOMAIN e.stats) /\ DOMAIN e.stats \subseteq Template
    /\ \A p \in DOMAIN e.stats : Knows(At(p), e.stats[p])

\* What may be decided for prefix now.
Open(e, prefix, t) ==
    /\ prefix \in Template /\ t \in {TypeAt[At(prefix)], "var"}
    /\ prefix \in DOMAIN e.collapses => e.collapses[prefix] = TypeAt[At(prefix)]

\* A collapse moves the decisions, and each of them only widens.
LEMMA CollapseWidens ==
    ASSUME OneTypePerDepth, NEW e, Decides(e), NEW prefix, NEW t, Open(e, prefix, t),
           NEW c \in Collapse(e, prefix, t)
    PROVE  /\ \A k \in DOMAIN c.collapses :
                 /\ c.collapses[k] \in Param(At(k))
                 /\ \E q \in {prefix} \union DOMAIN e.collapses : k = Rekeyed(q, prefix, t)
           /\ \A q \in DOMAIN e.collapses :
                 /\ Rekeyed(q, prefix, t) \in DOMAIN c.collapses
                 /\ Wider(At(q), e.collapses[q], c.collapses[Rekeyed(q, prefix, t)])
           /\ prefix \in DOMAIN c.collapses /\ c.collapses[prefix] = t
           /\ \A q \in Template : Len(q) < Len(prefix) =>
                 (q \in DOMAIN c.collapses <=> q \in DOMAIN e.collapses)
           /\ \A q \in DOMAIN e.collapses : Len(q) < Len(prefix) =>
                 c.collapses[q] = e.collapses[q]
<1>. DEFINE types == [p \in {prefix} \union DOMAIN e.collapses |->
                         IF p = prefix THEN t ELSE e.collapses[p]]
            keys == {Rekeyed(p, prefix, t) : p \in DOMAIN types}
            under(k) == {types[p] : p \in {q \in DOMAIN types : Rekeyed(q, prefix, t) = k}}
<1>1. c.collapses = [k \in keys |-> JoinAll(under(k))]
  <2>1. \E s : c = [collapses |-> [k \in keys |-> JoinAll(under(k))], stats |-> s]
    BY DEF Collapse
  <2>. QED
    BY <2>1
<1>2. /\ DOMAIN types = {prefix} \union DOMAIN e.collapses
      /\ \A p \in DOMAIN types : p \in Template /\ types[p] \in Param(At(p))
      /\ \A p \in DOMAIN e.collapses : Wider(At(p), e.collapses[p], types[p])
      /\ types[prefix] = t
      /\ \A p \in DOMAIN e.collapses : p # prefix => types[p] = e.collapses[p]
  BY DEF Decides, EngineOK, Open, Param, Wider
<1>3. t \in ValueType /\ prefix \in Template
  BY WiderIs, AtIs DEF Open, Param
<1>. HIDE DEF types
<1>4. ASSUME NEW p \in DOMAIN types
      PROVE  /\ Rekeyed(p, prefix, t) \in keys
             /\ types[p] \in under(Rekeyed(p, prefix, t))
             /\ Rekeyed(p, prefix, t) \in Template
             /\ Len(Rekeyed(p, prefix, t)) = Len(p)
             /\ At(Rekeyed(p, prefix, t)) = At(p)
             /\ Len(p) <= Len(prefix) => Rekeyed(p, prefix, t) = p
  BY <1>2, <1>3, RekeyedIs DEF At
<1>5. \A k \in keys : under(k) \subseteq Param(At(k)) /\ k \in Template /\ At(k) \in Nat
  <2>. SUFFICES ASSUME NEW k \in keys
                PROVE  under(k) \subseteq Param(At(k)) /\ k \in Template /\ At(k) \in Nat
    OBVIOUS
  <2>1. PICK p \in DOMAIN types : k = Rekeyed(p, prefix, t)
    OBVIOUS
  <2>2. k \in Template /\ At(k) \in Nat
    BY <1>4, <2>1, AtIs
  <2>3. ASSUME NEW q \in DOMAIN types, Rekeyed(q, prefix, t) = k PROVE types[q] \in Param(At(k))
    BY <1>2, <1>4, <2>3
  <2>. QED
    BY <2>2, <2>3
<1>6. ASSUME NEW k \in keys
      PROVE  /\ c.collapses[k] = JoinAll(under(k))
             /\ JoinAll(under(k)) \in Param(At(k))
             /\ \A s \in under(k) : Wider(At(k), s, JoinAll(under(k)))
  <2>1. PICK p \in DOMAIN types : k = Rekeyed(p, prefix, t)
    OBVIOUS
  <2>2. types[p] \in under(k)
    BY <1>4, <2>1
  <2>. HIDE DEF under, keys
  <2>3. c.collapses[k] = JoinAll(under(k))
    BY <1>1
  <2>. QED
    BY <1>5, <2>2, <2>3, JoinAllWider
<1>7. \A p \in DOMAIN types : Wider(At(p), types[p], c.collapses[Rekeyed(p, prefix, t)])
  <2>. HIDE DEF under, keys
  <2>. QED
    BY <1>4, <1>6
<1>8. ASSUME NEW k \in Template, Len(k) <= Len(prefix)
      PROVE  /\ k \in keys <=> k \in DOMAIN types
             /\ k \in keys => c.collapses[k] = types[k]
  <2>1. \A p \in DOMAIN types : Rekeyed(p, prefix, t) = k => p = k
    BY <1>2, <1>3, <1>4, <1>8 DEF Template
  <2>2. k \in keys <=> k \in DOMAIN types
    BY <1>4, <1>8, <2>1
  <2>3. ASSUME k \in keys PROVE c.collapses[k] = types[k]
    <3>1. under(k) = {types[k]}
      BY <1>4, <1>8, <2>1, <2>2, <2>3
    <3>2. under(k) \subseteq ValueType
      BY <1>5, WiderIs
    <3>. HIDE DEF under, keys
    <3>. QED
      BY <1>6, <2>3, <3>1, <3>2, JoinAllIs
  <2>. QED
    BY <2>2, <2>3
<1>9. DOMAIN c.collapses = keys
  BY <1>1
<1>10. \A k \in keys : \E q \in {prefix} \union DOMAIN e.collapses : k = Rekeyed(q, prefix, t)
  BY <1>2
<1>. HIDE DEF keys, under
<1>11. prefix \in keys /\ c.collapses[prefix] = t
  BY <1>2, <1>3, <1>8 DEF Template
<1>12. \A q \in DOMAIN e.collapses : /\ Rekeyed(q, prefix, t) \in keys
                                     /\ Wider(At(q), e.collapses[q], c.collapses[Rekeyed(q, prefix, t)])
  <2>. SUFFICES ASSUME NEW q \in DOMAIN e.collapses
                PROVE  /\ Rekeyed(q, prefix, t) \in keys
                       /\ Wider(At(q), e.collapses[q], c.collapses[Rekeyed(q, prefix, t)])
    OBVIOUS
  <2>1. q \in DOMAIN types /\ At(q) \in Nat
    BY <1>2, AtIs
  <2>. QED
    BY <1>2, <1>4, <1>7, <2>1, WiderIs
<1>13. \A q \in Template : Len(q) < Len(prefix) =>
          /\ q \in keys <=> q \in DOMAIN e.collapses
          /\ q \in keys => c.collapses[q] = e.collapses[q]
  BY <1>2, <1>3, <1>8 DEF Template
<1>14. DOMAIN e.collapses \subseteq Template
  BY DEF Decides, EngineOK
<1>. QED
  BY <1>6, <1>9, <1>10, <1>11, <1>12, <1>13, <1>14

\* Every token is the decision for its position.
Fine(e, u) ==
    \A i \in 1..Len(u) : u[i] \in ValueType => Decided(e, u, i) /\ u[i] = Decision(e, u, i)

\* The template r cannot be the result of Normalize any more: one of its segments is
\* not what the engine would put there.
DeadAt(e, r, i) ==
    /\ Decided(e, r, i)
    /\ IF r[i] \in ValueType THEN r[i] # Decision(e, r, i) /\ Wider(i, r[i], Decision(e, r, i))
       ELSE Matches(r[i], Decision(e, r, i))
Dead(e, r) == \E i \in 1..Len(r) : DeadAt(e, r, i)

\* The tokens of a template are types that a position can have collapsed to.
Typed(u) == u \in Template /\ \A i \in 1..Len(u) : u[i] \in ValueType => u[i] \in Param(i)

LEMMA FineIsBacked ==
    ASSUME NEW e, NEW u, Fine(e, u)
    PROVE  Backed(e, u)
BY DEF Fine, Backed, Wider

\* A template stays backed in the place it moves to.
LEMMA RekeyedBacked ==
    ASSUME OneTypePerDepth, NEW e, Decides(e), NEW prefix, NEW t, Open(e, prefix, t),
           NEW c \in Collapse(e, prefix, t), NEW u \in Template, Backed(e, u)
    PROVE  Backed(c, Rekeyed(u, prefix, t))
<1>. DEFINE r == Rekeyed(u, prefix, t)
<1>1. t \in ValueType /\ prefix \in Template
  BY WiderIs, AtIs DEF Open, Param
<1>2. r \in Template /\ Len(r) = Len(u)
  BY <1>1, RekeyedIs
<1>. SUFFICES ASSUME NEW i \in 1..Len(u), r[i] \in ValueType
              PROVE  Decided(c, r, i) /\ Wider(i, r[i], Decision(c, r, i))
  BY <1>2 DEF Backed
<1>3. Before(r, i) = Rekeyed(Before(u, i), prefix, t)
  BY <1>1, RekeyedBefore
<1>4. CASE r[i] = u[i]
  <2>1. Before(u, i) \in DOMAIN e.collapses /\ Wider(i, u[i], e.collapses[Before(u, i)])
    BY <1>4 DEF Backed, Decided, Decision
  <2>2. /\ Before(r, i) \in DOMAIN c.collapses
        /\ Wider(i, e.collapses[Before(u, i)], c.collapses[Before(r, i)])
    <3>1. At(Before(u, i)) = i
      BY BeforeIs
    <3>. QED
      BY <1>3, <2>1, <3>1, CollapseWidens
  <2>. HIDE DEF r
  <2>. QED
    BY <1>4, <2>1, <2>2, BeforeIs, WiderIs DEF Decided, Decision
<1>5. CASE r[i] # u[i]
  <2>1. Before(u, i) = prefix /\ r[i] = t
    BY <1>1, <1>5, RekeyedBefore
  <2>2. Before(r, i) = prefix
    BY <1>1, <1>3, <2>1, RekeyedIs DEF Template
  <2>3. prefix \in DOMAIN c.collapses /\ c.collapses[prefix] = t
    BY CollapseWidens
  <2>. HIDE DEF r
  <2>. QED
    BY <2>1, <2>2, <2>3 DEF Decided, Decision, Wider
<1>. QED
  BY <1>4, <1>5

LEMMA CollapseDecides ==
    ASSUME OneTypePerDepth, NEW e, Decides(e), NEW prefix, NEW t, Open(e, prefix, t),
           Fine(e, prefix), NEW c \in Collapse(e, prefix, t)
    PROVE  Decides(c) /\ Fine(c, prefix)
<1>1. t \in ValueType /\ prefix \in Template
  BY WiderIs, AtIs DEF Open, Param
<1>2. EngineOK(c)
  BY <1>1, CollapseKeeps DEF Decides
<1>3. ASSUME NEW k \in DOMAIN c.collapses
      PROVE  c.collapses[k] \in Param(At(k)) /\ Backed(c, k)
  <2>1. c.collapses[k] \in Param(At(k))
    BY CollapseWidens
  <2>2. PICK q \in {prefix} \union DOMAIN e.collapses : k = Rekeyed(q, prefix, t)
    BY CollapseWidens
  <2>3. q \in Template /\ Backed(e, q)
    BY <1>1, FineIsBacked DEF Decides, EngineOK
  <2>. QED
    BY <2>1, <2>2, <2>3, RekeyedBacked
<1>4. Fine(c, prefix)
  <2>. SUFFICES ASSUME NEW i \in 1..Len(prefix), prefix[i] \in ValueType
                PROVE  Decided(c, prefix, i) /\ prefix[i] = Decision(c, prefix, i)
    BY DEF Fine
  <2>1. Before(prefix, i) \in DOMAIN e.collapses /\ prefix[i] = e.collapses[Before(prefix, i)]
    BY DEF Fine, Decided, Decision
  <2>2. Before(prefix, i) \in Template /\ Len(Before(prefix, i)) < Len(prefix)
    BY <1>1, BeforeIs
  <2>. QED
    BY <2>1, <2>2, CollapseWidens DEF Decided, Decision
<1>. QED
  BY <1>2, <1>3, <1>4 DEF Decides

\* What cannot come back does not come back after a collapse either.
LEMMA CollapseDead ==
    ASSUME OneTypePerDepth, NEW e, Decides(e), NEW prefix, NEW t, Open(e, prefix, t),
           NEW c \in Collapse(e, prefix, t), NEW r, Typed(r), Dead(e, r)
    PROVE  Dead(c, r)
<1>1. t \in ValueType /\ prefix \in Template /\ r \in Template
  BY WiderIs, AtIs DEF Open, Param, Typed
<1>2. PICK i \in 1..Len(r) : DeadAt(e, r, i)
  BY DEF Dead
<1>. DEFINE q == Before(r, i)
            d == e.collapses[q]
<1>3. /\ q \in DOMAIN e.collapses /\ d \in Param(i) /\ Backed(e, q)
      /\ q \in Template /\ At(q) = i /\ i \in Nat
  BY <1>1, <1>2, BeforeIs DEF DeadAt, Decided, Decides
<1>4. CASE Rekeyed(q, prefix, t) = q
  <2>1. q \in DOMAIN c.collapses /\ Wider(i, d, c.collapses[q])
    BY <1>3, <1>4, CollapseWidens
  <2>2. DeadAt(c, r, i)
    <3>1. CASE r[i] \in ValueType
      <4>1. r[i] # d /\ Wider(i, r[i], d)
        BY <1>2, <3>1 DEF DeadAt, Decision
      <4>. HIDE DEF q, d
      <4>2. r[i] # c.collapses[q] /\ Wider(i, r[i], c.collapses[q])
        BY <2>1, <4>1, WiderIs
      <4>. QED
        BY <2>1, <3>1, <4>2 DEF DeadAt, Decided, Decision, q
    <3>2. CASE r[i] \notin ValueType
      <4>1. Matches(r[i], d)
        BY <1>2, <3>2 DEF DeadAt, Decision
      <4>. HIDE DEF q, d
      <4>2. Matches(r[i], c.collapses[q])
        BY <1>3, <2>1, <4>1, MatchesIs
      <4>. QED
        BY <2>1, <3>2, <4>2 DEF DeadAt, Decided, Decision, q
    <3>. QED
      BY <3>1, <3>2
  <2>. QED
    BY <2>2 DEF Dead
<1>5. CASE Rekeyed(q, prefix, t) # q
  <2>. DEFINE n == Len(prefix)
  <2>1. IsStrictPrefix(prefix, q) /\ Matches(q[n + 1], t) /\ q[n + 1] # t
    <3>1. IsStrictPrefix(prefix, q) /\ Matches(q[n + 1], t)
      BY <1>5 DEF Rekeyed
    <3>2. q[n + 1] # t
      <4>. SUFFICES ASSUME q[n + 1] = t PROVE Rekeyed(q, prefix, t) = q
        BY <1>5
      <4>1. Rekeyed(q, prefix, t) = [q EXCEPT ![n + 1] = t]
        BY <3>1 DEF Rekeyed
      <4>2. n + 1 \in 1..Len(q) /\ q \in [1..Len(q) -> Segment \union ValueType]
        <5>1. q \in Template /\ Len(q) \in Nat /\ n \in Nat
          BY <1>1, <1>3 DEF Template
        <5>2. n < Len(q)
          BY <1>1, <3>1, <5>1, StrictPrefixIs
        <5>3. q \in [1..Len(q) -> Segment \union ValueType]
          BY <5>1 DEF Template
        <5>. QED
          BY <5>1, <5>2, <5>3
      <4>. QED
        BY <4>1, <4>2
    <3>. QED
      BY <3>1, <3>2
  <2>2. n \in Nat /\ n < Len(q) /\ Before(q, n + 1) = prefix /\ n + 1 \in 1..Len(q)
    BY <1>1, <1>3, <2>1, StrictPrefixIs DEF Template
  <2>3. n + 1 \in 1..Len(r) /\ n + 1 \in 1..(i - 1) /\ q[n + 1] = r[n + 1]
        /\ Before(r, n + 1) = prefix
    <3>1. /\ Len(r) \in Nat /\ i \in Nat /\ Len(q) = i - 1
          /\ \A j \in 1..(i - 1) : q[j] = r[j] /\ Before(q, j) = Before(r, j)
      BY <1>1, BeforeIs
    <3>. HIDE DEF q
    <3>. QED
      BY <2>2, <3>1
  <2>4. prefix \in DOMAIN c.collapses /\ c.collapses[prefix] = t
    BY CollapseWidens
  <2>5. ASSUME r[n + 1] \in ValueType PROVE Wider(n + 1, r[n + 1], t)
    <3>1. Wider(n + 1, r[n + 1], e.collapses[prefix]) /\ prefix \in DOMAIN e.collapses
      BY <1>3, <2>2, <2>3, <2>5 DEF Backed, Decided, Decision
    <3>. QED
      <4>1. At(prefix) = n + 1 /\ n + 1 \in Nat
        BY <2>2 DEF At
      <4>. HIDE DEF n
      <4>. QED
        BY <3>1, <4>1, WiderIs DEF Open, Wider
  <2>. HIDE DEF n, q
  <2>6. DeadAt(c, r, n + 1)
    BY <2>1, <2>3, <2>4, <2>5 DEF DeadAt, Decided, Decision
  <2>. QED
    BY <2>3, <2>6 DEF Dead
<1>. QED
  BY <1>4, <1>5

-----------------------------------------------------------------------------
(* What the open positions have seen.                                       *)

LEMMA MergeStatKnows ==
    ASSUME NEW i, NEW st, Knows(i, st), NEW in, Knows(i, in), NEW m \in MergeStat(st, in)
    PROVE  Knows(i, m)
<1>1. m.kinds = st.kinds (+) in.kinds
  <2>1. \E vs, o : m = [values |-> vs, kinds |-> st.kinds (+) in.kinds, overflow |-> o]
    BY Zenon DEF MergeStat
  <2>. QED
    BY <2>1
<1>2. DOMAIN m.kinds = DOMAIN st.kinds \union DOMAIN in.kinds
  BY <1>1 DEF (+)
<1>. QED
  BY <1>2 DEF Knows

\* The merging of the statistics of the positions in from, one after the other.
MergeRounds(stats, key, from, after, n) ==
    /\ after[0] = {[stat |-> IF key \in from THEN stats[key] ELSE EmptyStat,
                    left |-> from \ {key}]}
    /\ \A i \in 1..n : \A x \in after[i] :
          \E r \in after[i - 1] : \E k \in r.left : \E st \in MergeStat(r.stat, stats[k]) :
             x = [stat |-> st, left |-> r.left \ {k}]

LEMMA MergedStatsSteps ==
    ASSUME NEW stats, NEW key, NEW from, IsFiniteSet(from),
           NEW s \in MergedStats(stats, key, from)
    PROVE  \E n \in Nat : \E after :
              MergeRounds(stats, key, from, after, n) /\ \E r \in after[n] : s = r.stat
<1>. DEFINE others == from \ {key}
            N == Cardinality(others)
            start == {[stat |-> IF key \in from THEN stats[key] ELSE EmptyStat, left |-> others]}
            step(r) == UNION {{[stat |-> st, left |-> r.left \ {k}] :
                                  st \in MergeStat(r.stat, stats[k])} : k \in r.left}
            next(A) == UNION {step(r) : r \in A}
            Rounds(f, n) == f = [i \in 0..n |-> IF i = 0 THEN start ELSE next(f[i - 1])]
            T == {n \in Nat : \E f : Rounds(f, n)}
<1>0. N \in Nat
  BY FS_Subset, FS_CardinalityType
<1>1. 0 \in T
  <2>. DEFINE f == [i \in 0..0 |-> start]
  <2>1. Rounds(f, 0)
    OBVIOUS
  <2>. QED
    BY <2>1
<1>2. ASSUME NEW n \in Nat, n \in T
      PROVE  n + 1 \in T
  <2>. PICK f : Rounds(f, n)
    BY <1>2
  <2>. DEFINE g == [i \in 0..(n + 1) |-> IF i = n + 1 THEN next(f[n]) ELSE f[i]]
  <2>. HIDE DEF start, next
  <2>1. \A i \in 0..n : f[i] = IF i = 0 THEN start ELSE next(f[i - 1])
    OBVIOUS
  <2>2. \A i \in 0..(n + 1) : g[i] = IF i = 0 THEN start ELSE next(g[i - 1])
    BY <2>1
  <2>3. Rounds(g, n + 1)
    BY <2>2
  <2>. HIDE DEF g, Rounds
  <2>. QED
    BY <2>3
<1>. HIDE DEF N
<1>3. N \in T
  <2>1. \A i \in 0..N : i \in T /\ i + 1 <= N => i + 1 \in T
    BY <1>2
  <2>. HIDE DEF T
  <2>2. 0..N \subseteq T
    BY <1>0, <1>1, <2>1, Loop
  <2>. QED
    BY <1>0, <2>2
<1>. DEFINE after == CHOOSE f : Rounds(f, N)
<1>4. Rounds(after, N)
  BY <1>3
<1>5. MergedStats(stats, key, from) = {r.stat : r \in after[N]}
  BY DEF MergedStats, N
<1>6. \A i \in 0..N : after[i] = IF i = 0 THEN start ELSE next(after[i - 1])
  <2>. HIDE DEF after
  <2>. QED
    BY <1>4
<1>. HIDE DEF after
<1>7. after[0] = start
  <2>. HIDE DEF start, next
  <2>. QED
    BY <1>0, <1>6
<1>8. \A i \in 1..N : after[i] = next(after[i - 1])
  <2>. HIDE DEF start, next
  <2>. QED
    BY <1>0, <1>6
<1>9. \A A, x : x \in next(A) =>
        \E r \in A : \E k \in r.left : \E st \in MergeStat(r.stat, stats[k]) :
           x = [stat |-> st, left |-> r.left \ {k}]
  OBVIOUS
<1>10. \A i \in 1..N : \A x \in after[i] :
         \E r \in after[i - 1] : \E k \in r.left : \E st \in MergeStat(r.stat, stats[k]) :
            x = [stat |-> st, left |-> r.left \ {k}]
  <2>. HIDE DEF next
  <2>. QED
    BY <1>8, <1>9
<1>11. \E r \in after[N] : s = r.stat
  BY <1>5
<1>. QED
  BY <1>0, <1>7, <1>10, <1>11 DEF MergeRounds

LEMMA MergedStatsKnow ==
    ASSUME NEW d, NEW stats, NEW key, NEW from, IsFiniteSet(from),
           \A k \in from : Knows(d, stats[k]),
           NEW s \in MergedStats(stats, key, from)
    PROVE  Knows(d, s)
<1>. DEFINE first == [stat |-> IF key \in from THEN stats[key] ELSE EmptyStat,
                      left |-> from \ {key}]
<1>1. PICK n \in Nat : \E after :
         MergeRounds(stats, key, from, after, n) /\ \E r \in after[n] : s = r.stat
  BY MergedStatsSteps
<1>. PICK after : MergeRounds(stats, key, from, after, n) /\ \E r \in after[n] : s = r.stat
  BY <1>1
<1>0. /\ after[0] = {first}
      /\ \A i \in 1..n : \A x \in after[i] :
            \E r \in after[i - 1] : \E k \in r.left : \E st \in MergeStat(r.stat, stats[k]) :
               x = [stat |-> st, left |-> r.left \ {k}]
  BY DEF MergeRounds
<1>. DEFINE Good(i) == \A x \in after[i] : Knows(d, x.stat) /\ x.left \subseteq from
            T == {i \in 0..n : Good(i)}
<1>2. 0 \in T
  <2>1. Knows(d, EmptyStat)
    BY DEF Knows, EmptyStat, EmptyBag, SetToBag
  <2>2. Knows(d, first.stat) /\ first.left \subseteq from
    BY <2>1
  <2>. HIDE DEF first
  <2>. QED
    BY <1>0, <2>2
<1>3. \A i \in 0..n : i \in T /\ i + 1 <= n => i + 1 \in T
  <2>. SUFFICES ASSUME NEW i \in 0..n, i \in T, i + 1 <= n
                PROVE  i + 1 \in T
    OBVIOUS
  <2>0. i + 1 \in 1..n /\ (i + 1) - 1 = i
    OBVIOUS
  <2>1. ASSUME NEW x \in after[i + 1]
        PROVE  Knows(d, x.stat) /\ x.left \subseteq from
    <3>1. PICK r \in after[i] : \E k \in r.left : \E st \in MergeStat(r.stat, stats[k]) :
             x = [stat |-> st, left |-> r.left \ {k}]
      BY <1>0, <2>0
    <3>2. PICK k \in r.left : \E st \in MergeStat(r.stat, stats[k]) :
             x = [stat |-> st, left |-> r.left \ {k}]
      BY <3>1
    <3>3. PICK st \in MergeStat(r.stat, stats[k]) : x = [stat |-> st, left |-> r.left \ {k}]
      BY <3>2
    <3>4. Knows(d, r.stat) /\ Knows(d, stats[k]) /\ r.left \subseteq from
      OBVIOUS
    <3>. QED
      BY <3>3, <3>4, MergeStatKnows
  <2>. QED
    BY <2>0, <2>1
<1>4. 0..n \subseteq T
  <2>. HIDE DEF T
  <2>. QED
    BY <1>2, <1>3, Loop
<1>5. Good(n)
  BY <1>4
<1>. QED
  BY <1>5

LEMMA CollapseLearns ==
    ASSUME NEW e, Learns(e), NEW prefix \in Template, NEW t \in ValueType,
           NEW c \in Collapse(e, prefix, t)
    PROVE  Learns(c)
<1>. DEFINE stats == [p \in DOMAIN e.stats \ {prefix} |-> e.stats[p]]
            from(k) == {p \in DOMAIN stats : Rekeyed(p, prefix, t) = k}
            to == {Rekeyed(p, prefix, t) : p \in DOMAIN stats}
            merged(k) == MergedStats(stats, k, from(k))
            g == [p \in DOMAIN stats |-> Rekeyed(p, prefix, t)]
<1>1. /\ DOMAIN c.stats = to
      /\ \A k \in to : c.stats[k] \in merged(k)
  <2>. DEFINE S == {f \in [to -> UNION {merged(k) : k \in to}] : \A k \in to : f[k] \in merged(k)}
  <2>1. \E j : c \in {[collapses |-> j, stats |-> s] : s \in S}
    BY Zenon DEF Collapse
  <2>2. c.stats \in S
    <3>. HIDE DEF S
    <3>. QED
      BY <2>1
  <2>. HIDE DEF to, merged
  <2>. QED
    BY <2>2
<1>2. /\ IsFiniteSet(DOMAIN stats) /\ DOMAIN stats \subseteq Template
      /\ \A p \in DOMAIN stats : Knows(At(p), stats[p])
  BY FS_Subset DEF Learns
<1>. HIDE DEF stats
<1>3. to \subseteq Template
  BY <1>2, RekeyedIs
<1>4. IsFiniteSet(to)
  <2>1. DOMAIN g = DOMAIN stats /\ to = {g[p] : p \in DOMAIN stats}
    OBVIOUS
  <2>. HIDE DEF g, to
  <2>. QED
    BY <1>2, <2>1, FiniteImage
<1>5. ASSUME NEW k \in to
      PROVE  Knows(At(k), c.stats[k])
  <2>1. IsFiniteSet(from(k)) /\ \A p \in from(k) : Knows(At(k), stats[p])
    BY <1>2, FS_Subset, RekeyedIs DEF At
  <2>2. c.stats[k] \in MergedStats(stats, k, from(k))
    BY <1>1
  <2>. HIDE DEF from, to
  <2>. QED
    BY <2>1, <2>2, MergedStatsKnow
<1>. QED
  BY <1>1, <1>3, <1>4, <1>5 DEF Learns

-----------------------------------------------------------------------------
(* Normalize keeps out what is dead.                                        *)

Fits(i, v) == KindOf[v] \in Promotable => KindOf[v] = TypeAt[i]

LEMMA CollapseTypeIs ==
    ASSUME NEW i, NEW st, Knows(i, st), NEW t \in CollapseType(st)
    PROVE  t \in {TypeAt[i], "var"}
BY DEF CollapseType, Dominant, Knows, BagToSet

LEMMA StatWithKnows ==
    ASSUME NEW e, Learns(e), NEW p, NEW v \in Segment, Fits(At(p), v)
    PROVE  Knows(At(p), StatWith(e, p, v))
<1>. DEFINE old == IF p \in DOMAIN e.stats THEN e.stats[p] ELSE EmptyStat
<1>1. Knows(At(p), old)
  <2>1. Knows(At(p), EmptyStat)
    BY DEF Knows, EmptyStat, EmptyBag, SetToBag
  <2>. QED
    BY <2>1 DEF Learns
<1>2. Infer(v) = KindOf[v]
  BY TemplatesAssumption DEF Infer
<1>. HIDE DEF old
<1>3. \A st : Counted(st, v).kinds = BagAdd(st.kinds, Infer(v))
  BY DEF Counted
<1>4. Knows(At(p), Counted(old, v))
  <2>1. DOMAIN Counted(old, v).kinds = {Infer(v)} \union DOMAIN old.kinds
    <3>1. Counted(old, v).kinds = BagAdd(old.kinds, Infer(v))
      BY <1>3
    <3>. QED
      BY <3>1 DEF BagAdd
  <2>2. DOMAIN old.kinds \intersect Promotable \subseteq {TypeAt[At(p)]}
    BY <1>1 DEF Knows
  <2>3. {Infer(v)} \intersect Promotable \subseteq {TypeAt[At(p)]}
    BY <1>2 DEF Fits
  <2>. QED
    BY <2>1, <2>2, <2>3 DEF Knows
<1>. QED
  BY <1>4 DEF StatWith, old

LEMMA FineAppend ==
    ASSUME NEW e, NEW w \in Template, Fine(e, w), NEW x \in Segment \union ValueType,
           x \in ValueType => w \in DOMAIN e.collapses /\ x = e.collapses[w]
    PROVE  Fine(e, Append(w, x))
<1>. DEFINE a == Append(w, x)
<1>1. /\ Len(a) = Len(w) + 1 /\ Len(w) \in Nat
      /\ \A j \in 1..Len(w) : a[j] = w[j] /\ Before(a, j) = Before(w, j)
      /\ a[Len(w) + 1] = x /\ Before(a, Len(w) + 1) = w
  BY DEF Template, Before
<1>. HIDE DEF a
<1>2. ASSUME NEW i \in 1..Len(a), a[i] \in ValueType
      PROVE  Decided(e, a, i) /\ a[i] = Decision(e, a, i)
  <2>1. CASE i = Len(w) + 1
    BY <1>1, <1>2, <2>1 DEF Decided, Decision
  <2>2. CASE i # Len(w) + 1
    <3>1. i \in 1..Len(w)
      BY <1>1, <2>2
    <3>. QED
      BY <1>1, <1>2, <3>1 DEF Decided, Decision, Fine
  <2>. QED
    BY <2>1, <2>2
<1>3. Fine(e, a)
  BY <1>2 DEF Fine
<1>. QED
  BY <1>3 DEF a

\* Nothing that is dead for e lives for c.
StaysDead(e, c) == \A u : Typed(u) /\ Dead(e, u) => Dead(c, u)

\* What Normalize has done so far, with the engine e at the start.
Careful(r, e) ==
    /\ Decides(r.engine) /\ Learns(r.engine)
    /\ Fine(r.engine, r.norm)
    /\ StaysDead(e, r.engine)

LEMMA NormalizeSegmentCareful ==
    ASSUME OneTypePerDepth, NEW e, NEW i \in Nat, NEW r, Outcome(r, e, i), Careful(r, e),
           NEW v \in Segment, Fits(i + 1, v), NEW s \in NormalizeSegment(r, v)
    PROVE  Careful(s, e)
<1>0. r.norm \in Template /\ At(r.norm) = i + 1
  BY DEF Outcome, At
<1>1. CASE Templated(r.engine, r.norm, v) # v
  <2>. DEFINE x == Templated(r.engine, r.norm, v)
  <2>1. s = [norm |-> Append(r.norm, x), engine |-> r.engine, collapsed |-> r.collapsed]
    BY <1>1 DEF NormalizeSegment, Outcome
  <2>2. r.norm \in DOMAIN r.engine.collapses /\ x = r.engine.collapses[r.norm]
    BY <1>1 DEF Templated
  <2>3. x \in ValueType
    BY <2>2 DEF Careful, Decides, EngineOK
  <2>. HIDE DEF x
  <2>. QED
    BY <1>0, <2>1, <2>2, <2>3, FineAppend DEF Careful
<1>2. CASE Templated(r.engine, r.norm, v) = v
  <2>. DEFINE st == StatWith(r.engine, r.norm, v)
              hit == CollapseType(st) # {}
  <2>0. v \notin ValueType
    BY TemplatesAssumption
  <2>1. PICK c \in ObserveSegment(r.engine, r.norm, v) :
          s = [norm      |-> Append(r.norm, IF hit THEN Templated(c, r.norm, v) ELSE v),
               engine    |-> c,
               collapsed |-> r.collapsed \/ hit]
    BY <1>2 DEF NormalizeSegment
  <2>2. Knows(i + 1, st)
    BY <1>0, StatWithKnows DEF Careful
  <2>. HIDE DEF st
  <2>3. CASE ~ hit
    <3>1. /\ c.collapses = r.engine.collapses
          /\ c.stats = [p \in {r.norm} \union DOMAIN r.engine.stats |->
                           IF p = r.norm THEN st ELSE r.engine.stats[p]]
          /\ c = [collapses |-> c.collapses, stats |-> c.stats]
      BY <2>3 DEF ObserveSegment, Careful, Decides, EngineOK, st
    <3>2. Decides(c)
      BY <3>1 DEF Careful, Decides, EngineOK, Backed, Decided, Decision
    <3>3. IsFiniteSet({r.norm} \union DOMAIN r.engine.stats)
      BY FS_AddElement DEF Careful, Learns
    <3>4. Learns(c)
      BY <1>0, <2>2, <3>1, <3>3 DEF Careful, Learns
    <3>5. Fine(c, Append(r.norm, v))
      <4>1. Fine(c, r.norm)
        BY <3>1 DEF Careful, Fine, Decided, Decision
      <4>. QED
        BY <1>0, <2>0, <4>1, FineAppend
    <3>6. StaysDead(e, c)
      BY <3>1 DEF Careful, StaysDead, Dead, DeadAt, Decided, Decision
    <3>. QED
      BY <2>1, <2>3, <3>2, <3>4, <3>5, <3>6 DEF Careful
  <2>4. CASE hit
    <3>1. PICK t \in CollapseType(st) : c \in Collapse(r.engine, r.norm, t)
      BY <2>4 DEF ObserveSegment, st
    <3>2. t \in {TypeAt[i + 1], "var"} /\ t \in ValueType
      BY <2>2, CollapseTypeIs, WiderIs DEF Param
    <3>3. r.norm \in DOMAIN r.engine.collapses => r.engine.collapses[r.norm] = TypeAt[i + 1]
      <4>. SUFFICES ASSUME r.norm \in DOMAIN r.engine.collapses
                    PROVE  r.engine.collapses[r.norm] = TypeAt[i + 1]
        OBVIOUS
      <4>1. r.engine.collapses[r.norm] \in Param(i + 1)
        BY <1>0 DEF Careful, Decides
      <4>2. ~ Matches(v, r.engine.collapses[r.norm])
        BY <1>2, <2>0, <4>1, WiderIs DEF Templated
      <4>. QED
        BY <4>1, <4>2, MatchesIs DEF Param
    <3>4. Open(r.engine, r.norm, t)
      BY <1>0, <3>2, <3>3 DEF Open
    <3>5. Decides(c) /\ Fine(c, r.norm)
      BY <3>1, <3>4, CollapseDecides DEF Careful
    <3>6. Learns(c)
      BY <1>0, <3>1, <3>2, CollapseLearns DEF Careful
    <3>7. StaysDead(e, c)
      BY <3>1, <3>4, CollapseDead DEF Careful, StaysDead
    <3>8. Fine(c, Append(r.norm, Templated(c, r.norm, v)))
      <4>. DEFINE x == Templated(c, r.norm, v)
      <4>1. \/ x = v
            \/ r.norm \in DOMAIN c.collapses /\ x = c.collapses[r.norm]
        BY DEF Templated
      <4>2. x \in Segment \union ValueType
            /\ (x \in ValueType => r.norm \in DOMAIN c.collapses /\ x = c.collapses[r.norm])
        BY <2>0, <3>5, <4>1 DEF Decides, EngineOK
      <4>. HIDE DEF x
      <4>3. Fine(c, Append(r.norm, x))
        BY <1>0, <3>5, <4>2, FineAppend
      <4>. QED
        BY <4>3 DEF x
    <3>. QED
      BY <2>1, <2>4, <3>5, <3>6, <3>7, <3>8 DEF Careful
  <2>. QED
    BY <2>3, <2>4
<1>. QED
  BY <1>1, <1>2

LEMMA NormalizeCareful ==
    ASSUME OneTypePerDepth, NEW e, Decides(e), Learns(e), NEW path \in Seq(Segment),
           \A i \in 1..Len(path) : Fits(i, path[i]),
           NEW r \in Normalize(e, path)
    PROVE  Outcome(r, e, Len(path)) /\ Careful(r, e)
<1>. PICK after :
       /\ after[0] = {[norm |-> << >>, engine |-> e, collapsed |-> FALSE]}
       /\ \A i \in 1..Len(path) :
             after[i] = UNION {NormalizeSegment(s, path[i]) : s \in after[i - 1]}
       /\ Normalize(e, path) = after[Len(path)]
  BY NormalizeSteps
<1>0. Len(path) \in Nat /\ \A i \in 1..Len(path) : path[i] \in Segment
  OBVIOUS
<1>. DEFINE Good(i) == \A s \in after[i] : Outcome(s, e, i) /\ Careful(s, e)
            T == {i \in 0..Len(path) : Good(i)}
<1>1. 0 \in T
  <2>. DEFINE s == [norm |-> << >>, engine |-> e, collapsed |-> FALSE]
  <2>1. << >> \in Template /\ Len(<< >>) = 0 /\ Settled(e, << >>) /\ Fine(e, << >>)
    BY DEF Template, Settled, Fine
  <2>2. Outcome(s, e, 0)
    BY <2>1 DEF Outcome, Decides
  <2>3. Careful(s, e)
    BY <2>1 DEF Careful, StaysDead
  <2>. HIDE DEF s
  <2>4. Good(0)
    BY <2>2, <2>3 DEF s
  <2>. HIDE DEF Good
  <2>. QED
    BY <1>0, <2>4
<1>2. ASSUME NEW i \in 0..Len(path), i \in T, i + 1 <= Len(path)
      PROVE  i + 1 \in T
  <2>. i + 1 \in 1..Len(path) /\ (i + 1) - 1 = i /\ i \in Nat
    BY <1>0, <1>2
  <2>1. after[i + 1] = UNION {NormalizeSegment(s, path[i + 1]) : s \in after[i]}
    OBVIOUS
  <2>2. Good(i) /\ path[i + 1] \in Segment /\ Fits(i + 1, path[i + 1])
    BY <1>0, <1>2
  <2>3. Good(i + 1)
    <3>. SUFFICES ASSUME NEW q \in after[i + 1] PROVE Outcome(q, e, i + 1) /\ Careful(q, e)
      OBVIOUS
    <3>1. PICK s \in after[i] : q \in NormalizeSegment(s, path[i + 1])
      BY <2>1
    <3>2. Outcome(s, e, i) /\ Careful(s, e)
      BY <2>2
    <3>3. Outcome(q, e, i + 1)
      BY <2>2, <3>1, <3>2, NormalizeSegmentKeeps
    <3>4. Careful(q, e)
      BY <2>2, <3>1, <3>2, NormalizeSegmentCareful
    <3>. QED
      BY <3>3, <3>4
  <2>. HIDE DEF Good
  <2>. QED
    BY <2>3
<1>3. \A i \in 0..Len(path) : i \in T /\ i + 1 <= Len(path) => i + 1 \in T
  BY <1>2
<1>4. 0..Len(path) \subseteq T
  <2>. HIDE DEF T
  <2>. QED
    BY <1>0, <1>1, <1>3, Loop
<1>. QED
  BY <1>0, <1>4

-----------------------------------------------------------------------------
(* What is retired does not come back.                                      *)

\* w is r, or may be renormalized to it.
Under(w, r) ==
    /\ Len(w) = Len(r)
    /\ \A k \in 1..Len(r) :
          w[k] = r[k] \/ (r[k] \in ValueType /\ w[k] \notin ValueType /\ Matches(w[k], r[k]))

LEMMA BeforeEqual ==
    ASSUME NEW w \in Template, NEW r \in Template, NEW i \in 1..Len(r), Len(w) = Len(r),
           \A k \in 1..(i - 1) : w[k] = r[k]
    PROVE  Before(w, i) = Before(r, i)
<1>1. /\ Before(w, i) \in Template /\ Len(Before(w, i)) = i - 1
      /\ Before(r, i) \in Template /\ Len(Before(r, i)) = i - 1
      /\ \A j \in 1..(i - 1) : Before(w, i)[j] = w[j] /\ Before(r, i)[j] = r[j]
  BY BeforeIs
<1>. QED
  BY <1>1, SeqEqual DEF Template

\* A settled template has no literal that the decision for its position matches.
LEMMA SettledIs ==
    ASSUME NEW e, Decides(e), NEW w, Settled(e, w), NEW i \in 1..Len(w), w[i] \notin ValueType,
           Decided(e, w, i)
    PROVE  ~ Matches(w[i], Decision(e, w, i))
BY DEF Decides, EngineOK, Settled, Literal, Templated, Decided, Decision, Before

\* A settled template does not lead to one that is dead for a literal, nor one that has
\* the engine's tokens to any that is dead.
LEMMA NotUnder ==
    ASSUME OneTypePerDepth, NEW e, Decides(e), NEW w \in Template, Settled(e, w),
           NEW r, Typed(r), NEW i \in 1..Len(r), DeadAt(e, r, i),
           r[i] \notin ValueType \/ Fine(e, w)
    PROVE  ~ Under(w, r)
<1>. SUFFICES ASSUME Under(w, r) PROVE FALSE
  OBVIOUS
<1>. DEFINE q == Before(r, i)
<1>0. r \in Template /\ Len(w) = Len(r) /\ Len(r) \in Nat
  BY DEF Typed, Template, Under
<1>1. /\ q \in DOMAIN e.collapses /\ Backed(e, q)
      /\ q \in Template /\ Len(q) = i - 1
      /\ \A j \in 1..(i - 1) : q[j] = r[j] /\ Before(q, j) = Before(r, j)
  BY <1>0, BeforeIs DEF DeadAt, Decided, Decides
<1>2. \A k \in 1..(i - 1) : w[k] = r[k]
  <2>. DEFINE Bad == {k \in 1..(i - 1) : w[k] # r[k]}
  <2>. SUFFICES ASSUME Bad # {} PROVE FALSE
    OBVIOUS
  <2>1. PICK k \in Bad : \A j \in Bad : k <= j
    <3>. HIDE DEF Bad
    <3>1. Bad \subseteq Nat
      BY DEF Bad
    <3>. QED
      BY <3>1, LeastElement
  <2>2. k \in 1..(i - 1) /\ k \in 1..Len(r) /\ k \in 1..Len(w) /\ w[k] # r[k]
    BY <1>0, <2>1
  <2>3. \A j \in 1..(k - 1) : w[j] = r[j]
    BY <2>1, <2>2
  <2>4. Before(w, k) = Before(r, k)
    BY <1>0, <2>2, <2>3, BeforeEqual
  <2>5. r[k] \in ValueType /\ w[k] \notin ValueType /\ Matches(w[k], r[k])
    BY <2>2 DEF Under
  <2>6. Decided(e, w, k) /\ Wider(k, r[k], Decision(e, w, k))
    BY <1>1, <2>2, <2>4, <2>5 DEF Backed, Decided, Decision
  <2>7. Matches(w[k], Decision(e, w, k))
    BY <2>2, <2>5, <2>6, MatchesIs DEF Typed
  <2>. QED
    BY <2>2, <2>5, <2>6, <2>7, SettledIs
<1>3. Before(w, i) = q
  BY <1>0, <1>2, BeforeEqual
<1>4. i \in 1..Len(w) /\ Decided(e, w, i) /\ Decision(e, w, i) = Decision(e, r, i)
  BY <1>0, <1>1, <1>3 DEF Decided, Decision
<1>5. CASE r[i] \notin ValueType
  <2>1. w[i] = r[i] /\ Matches(r[i], Decision(e, r, i))
    BY <1>5 DEF DeadAt, Under
  <2>. QED
    BY <1>4, <1>5, <2>1, SettledIs
<1>6. CASE r[i] \in ValueType
  <2>1. r[i] # Decision(e, r, i) /\ Wider(i, r[i], Decision(e, r, i)) /\ Fine(e, w)
    BY <1>6 DEF DeadAt
  <2>2. w[i] # r[i]
    BY <1>4, <1>6, <2>1 DEF Fine
  <2>3. w[i] \notin ValueType /\ Matches(w[i], r[i])
    BY <2>2 DEF Under
  <2>4. Matches(w[i], Decision(e, w, i))
    BY <1>4, <1>6, <2>1, <2>3, MatchesIs DEF Typed
  <2>. QED
    BY <1>4, <2>3, <2>4, SettledIs
<1>. QED
  BY <1>5, <1>6

\* Renormalize turns literals into decisions that match them, and nothing else.
LEMMA RenormalizeIs ==
    ASSUME NEW e, EngineOK(e), NEW u \in Template
    PROVE  \A k \in 1..Len(u) :
              \/ Renormalize(e, u)[k] = u[k]
              \/ /\ u[k] \notin ValueType /\ Matches(u[k], Renormalize(e, u)[k])
                 /\ \E p \in DOMAIN e.collapses :
                       At(p) = k /\ Renormalize(e, u)[k] = e.collapses[p]
<1>. PICK after :
       /\ after[0] = << >>
       /\ \A i \in 1..Len(u) : after[i] = RenormalizeSegment(e, after[i - 1], u[i])
       /\ Renormalize(e, u) = after[Len(u)]
  BY RenormalizeSteps
<1>0. Len(u) \in Nat /\ \A i \in 1..Len(u) : u[i] \in Segment \union ValueType
  BY DEF Template
<1>. DEFINE Step(x, k) == \/ x = u[k]
                          \/ /\ u[k] \notin ValueType /\ Matches(u[k], x)
                             /\ \E p \in DOMAIN e.collapses : At(p) = k /\ x = e.collapses[p]
            Good(w, i) == w \in Template /\ Len(w) = i /\ \A k \in 1..i : Step(w[k], k)
            T == {i \in 0..Len(u) : Good(after[i], i)}
<1>1. 0 \in T
  <2>. << >> \in Template /\ Len(<< >>) = 0
    BY DEF Template
  <2>. QED
    BY <1>0
<1>2. ASSUME NEW i \in 0..Len(u), i \in T, i + 1 <= Len(u)
      PROVE  i + 1 \in T
  <2>. DEFINE w == after[i]
              x == IF u[i + 1] \in ValueType THEN u[i + 1] ELSE Templated(e, w, u[i + 1])
  <2>1. w \in Template /\ Len(w) = i /\ \A k \in 1..i : Step(w[k], k)
    BY <1>2
  <2>. i + 1 \in 1..Len(u) /\ (i + 1) - 1 = i /\ i \in Nat
    BY <1>0, <1>2
  <2>2. after[i + 1] = Append(w, x)
    BY DEF RenormalizeSegment
  <2>3. x \in Segment \union ValueType /\ Step(x, i + 1)
    BY <1>0, <2>1, TemplatedIs DEF Templated, At
  <2>. HIDE DEF w, x, Step
  <2>4. /\ Append(w, x) \in Template /\ Len(Append(w, x)) = i + 1
        /\ \A k \in 1..i : Append(w, x)[k] = w[k]
        /\ Append(w, x)[i + 1] = x
    BY <2>1, <2>3 DEF Template
  <2>5. \A k \in 1..(i + 1) : Step(Append(w, x)[k], k)
    BY <2>1, <2>3, <2>4
  <2>6. Good(after[i + 1], i + 1)
    BY <2>2, <2>4, <2>5
  <2>. HIDE DEF Good
  <2>. QED
    BY <2>6
<1>3. \A i \in 0..Len(u) : i \in T /\ i + 1 <= Len(u) => i + 1 \in T
  BY <1>2
<1>4. 0..Len(u) \subseteq T
  <2>. HIDE DEF T
  <2>. QED
    BY <1>0, <1>1, <1>3, Loop
<1>5. Good(after[Len(u)], Len(u))
  BY <1>0, <1>4
<1>. QED
  BY <1>5

LEMMA RenormalizeUnder ==
    ASSUME NEW e, EngineOK(e), NEW u \in Template, NEW r, Under(Renormalize(e, u), r)
    PROVE  Under(u, r)
<1>. DEFINE R == Renormalize(e, u)
<1>1. Len(R) = Len(u) /\ Len(u) = Len(r)
  BY RenormalizeSettles DEF Under
<1>. SUFFICES ASSUME NEW k \in 1..Len(r)
              PROVE  \/ u[k] = r[k]
                     \/ r[k] \in ValueType /\ u[k] \notin ValueType /\ Matches(u[k], r[k])
  BY <1>1 DEF Under
<1>2. R[k] = u[k] \/ (u[k] \notin ValueType /\ Matches(u[k], R[k]) /\ R[k] \in ValueType)
  BY <1>1, RenormalizeIs DEF EngineOK
<1>3. R[k] = r[k] \/ (r[k] \in ValueType /\ R[k] \notin ValueType /\ Matches(R[k], r[k]))
  BY DEF Under
<1>. HIDE DEF R
<1>. QED
  BY <1>2, <1>3

LEMMA RenormalizeTyped ==
    ASSUME NEW e, Decides(e), NEW u, Typed(u)
    PROVE  Typed(Renormalize(e, u))
<1>1. u \in Template /\ EngineOK(e)
  BY DEF Typed, Decides
<1>2. Renormalize(e, u) \in Template /\ Len(Renormalize(e, u)) = Len(u)
  BY <1>1, RenormalizeSettles
<1>3. \A k \in 1..Len(u) : \/ Renormalize(e, u)[k] = u[k]
                           \/ \E p \in DOMAIN e.collapses :
                                 At(p) = k /\ Renormalize(e, u)[k] = e.collapses[p]
  BY <1>1, RenormalizeIs
<1>. QED
  BY <1>2, <1>3 DEF Typed, Decides

\* An endpoint that moves cannot come back: one of its literals belongs to a parameter.
LEMMA MovedIsDead ==
    ASSUME NEW e, Decides(e), NEW u, Typed(u), Renormalize(e, u) # u
    PROVE  \E i \in 1..Len(u) : u[i] \notin ValueType /\ DeadAt(e, u, i)
<1>1. u \in Template /\ EngineOK(e)
  BY DEF Typed, Decides
<1>2. ~ Settled(e, u)
  BY <1>1, RenormalizeSettles
<1>3. PICK i \in 1..Len(u) : u[i] \notin ValueType /\ ~ Literal(e, u, i)
  BY <1>2 DEF Settled
<1>4. DeadAt(e, u, i)
  BY <1>3 DEF Literal, Templated, DeadAt, Decided, Decision, Before
<1>. QED
  BY <1>3, <1>4

LEMMA FineIsTyped ==
    ASSUME NEW e, Decides(e), NEW u \in Template, Fine(e, u)
    PROVE  Typed(u)
BY BeforeIs DEF Decides, Fine, Decided, Decision, Typed

\* What a process learns from the stored templates is sound.
LEMMA LearnedDecides ==
    ASSUME OneTypePerDepth, NEW S, \A u \in S : Typed(u)
    PROVE  Decides(Learned(S)) /\ Learns(Learned(S))
<1>. DEFINE e == Learned(S)
            tokens == {x \in UNION {{<<u, i>> : i \in DOMAIN u} : u \in S} :
                          x[1][x[2]] \in ValueType}
            before(x) == SubSeq(x[1], 1, x[2] - 1)
            types(p) == {x[1][x[2]] : x \in {y \in tokens : before(y) = p}}
<1>1. /\ e.collapses = [p \in {before(x) : x \in tokens} |-> JoinAll(types(p))]
      /\ e.stats = << >>
      /\ e = [collapses |-> e.collapses, stats |-> e.stats]
  <2>. DEFINE decisions == [p \in {before(x) : x \in tokens} |-> JoinAll(types(p))]
  <2>1. e = [EmptyEngine EXCEPT !.collapses = decisions]
    BY Zenon DEF Learned
  <2>. HIDE DEF e, decisions
  <2>2. e = [collapses |-> decisions, stats |-> << >>]
    BY <2>1 DEF EmptyEngine
  <2>3. e.collapses = decisions /\ e.stats = << >>
    BY <2>2
  <2>. QED
    BY <2>2, <2>3 DEF decisions
<1>2. \A x : x \in tokens <=> \E u \in S : \E i \in 1..Len(u) : u[i] \in ValueType /\ x = <<u, i>>
  <2>1. \A u \in S : DOMAIN u = 1..Len(u)
    BY DEF Typed, Template
  <2>2. \A x : x \in tokens <=> \E u \in S : \E i \in DOMAIN u : u[i] \in ValueType /\ x = <<u, i>>
    OBVIOUS
  <2>. HIDE DEF tokens
  <2>. QED
    BY <2>1, <2>2
<1>. HIDE DEF tokens
<1>8. \A u, i : before(<<u, i>>) = Before(u, i) /\ <<u, i>>[1][<<u, i>>[2]] = u[i]
  BY DEF Before
<1>3. ASSUME NEW u \in S, NEW i \in 1..Len(u), u[i] \in ValueType
      PROVE  /\ Before(u, i) \in DOMAIN e.collapses
             /\ Wider(i, u[i], e.collapses[Before(u, i)])
             /\ e.collapses[Before(u, i)] \in Param(i)
  <2>1. <<u, i>> \in tokens /\ before(<<u, i>>) = Before(u, i)
    BY <1>2, <1>3, <1>8
  <2>2. u[i] \in types(Before(u, i))
    <3>1. <<u, i>> \in {y \in tokens : before(y) = Before(u, i)}
      BY <2>1
    <3>. DEFINE y == <<u, i>>
    <3>2. y[1][y[2]] = u[i]
      BY <1>8
    <3>. HIDE DEF y
    <3>3. y[1][y[2]] \in types(Before(u, i))
      BY <3>1 DEF y
    <3>. QED
      BY <3>2, <3>3
  <2>3. types(Before(u, i)) \subseteq Param(i)
    <3>1. u \in Template
      BY DEF Typed
    <3>2. ASSUME NEW w \in S, NEW j \in 1..Len(w), w[j] \in ValueType,
                 Before(w, j) = Before(u, i)
          PROVE  w[j] \in Param(i)
      <4>1. j = i
        BY <3>1, <3>2, BeforeIs DEF Typed
      <4>. QED
        BY <3>2, <4>1 DEF Typed
    <3>3. \A y \in tokens : before(y) = Before(u, i) => y[1][y[2]] \in Param(i)
      <4>. SUFFICES ASSUME NEW y \in tokens, before(y) = Before(u, i)
                    PROVE  y[1][y[2]] \in Param(i)
        OBVIOUS
      <4>1. PICK w \in S : \E j \in 1..Len(w) : w[j] \in ValueType /\ y = <<w, j>>
        BY <1>2
      <4>2. PICK j \in 1..Len(w) : w[j] \in ValueType /\ y = <<w, j>>
        BY <4>1
      <4>3. Before(w, j) = Before(u, i) /\ y[1][y[2]] = w[j]
        BY <1>8, <4>2
      <4>. QED
        BY <3>2, <4>2, <4>3
    <3>. QED
      BY <3>3
  <2>4. Before(u, i) \in {before(x) : x \in tokens}
    BY <2>1
  <2>5. /\ Before(u, i) \in DOMAIN e.collapses
        /\ e.collapses[Before(u, i)] = JoinAll(types(Before(u, i)))
    BY <1>1, <2>4
  <2>. HIDE DEF types, e
  <2>. QED
    BY <2>2, <2>3, <2>5, JoinAllWider
<1>4. ASSUME NEW p \in DOMAIN e.collapses
      PROVE  \E u \in S : \E i \in 1..Len(u) : u[i] \in ValueType /\ p = Before(u, i)
  <2>1. PICK x \in tokens : p = before(x)
    BY <1>1
  <2>. QED
    BY <1>2, <1>8, <2>1
<1>. HIDE DEF e
<1>5. ASSUME NEW p \in DOMAIN e.collapses
      PROVE  p \in Template /\ e.collapses[p] \in Param(At(p)) /\ Backed(e, p)
  <2>1. PICK u \in S : \E i \in 1..Len(u) : u[i] \in ValueType /\ p = Before(u, i)
    BY <1>4
  <2>. PICK i \in 1..Len(u) : u[i] \in ValueType /\ p = Before(u, i)
    BY <2>1
  <2>2. e.collapses[p] \in Param(At(p))
    BY <1>3, BeforeIs DEF Typed
  <2>3. u \in Template
    BY DEF Typed
  <2>4. /\ p \in Template /\ Len(p) = i - 1 /\ Len(u) \in Nat
        /\ \A j \in 1..(i - 1) : p[j] = u[j] /\ Before(p, j) = Before(u, j)
    BY <2>3, BeforeIs
  <2>5. ASSUME NEW j \in 1..Len(p), p[j] \in ValueType
        PROVE  Decided(e, p, j) /\ Wider(j, p[j], Decision(e, p, j))
    <3>1. j \in 1..Len(u) /\ p[j] = u[j] /\ Before(p, j) = Before(u, j)
      BY <2>4
    <3>. QED
      BY <1>3, <2>5, <3>1 DEF Decided, Decision
  <2>. QED
    BY <2>2, <2>4, <2>5 DEF Backed
<1>6. Decides(e)
  BY <1>1, <1>5, WiderIs, AtIs DEF Decides, EngineOK
<1>7. Learns(e)
  <2>1. DOMAIN e.stats = {}
    BY <1>1
  <2>. QED
    BY <2>1, FS_EmptySet DEF Learns
<1>. QED
  BY <1>6, <1>7 DEF e

ToDelete == retired \union flushing.retired

\* What is to be deleted is dead, and no endpoint leads to it.
RetiredInv ==
    /\ Decides(engine) /\ Learns(engine)
    /\ \A u \in DOMAIN endpoints \union DOMAIN rows : Typed(u)
    /\ \A r \in ToDelete : /\ Typed(r) /\ Dead(engine, r)
                           /\ \A w \in DOMAIN endpoints : ~ Under(w, r)
    /\ ~ Up => retired = {}

\* An id whose row is to be deleted names no endpoint.
RetiredAreGone == DOMAIN endpoints \intersect ToDelete = {}

LEMMA RetiredInvImplies == RetiredInv => RetiredAreGone
BY DEF RetiredInv, ToDelete, RetiredAreGone, Under

LEMMA EmptyDecides ==
    /\ Decides(EmptyEngine) /\ Learns(EmptyEngine)
<1>1. DOMAIN << >> = {}
  OBVIOUS
<1>. QED
  BY <1>1, FS_EmptySet DEF Decides, Learns, EngineOK, EmptyEngine

LEMMA RetiredInvInit == ProfInit => RetiredInv
BY EmptyDecides DEF ProfInit, RetiredInv, ToDelete, NoWork

\* Where a flow is folded in, there are no templates but those of before and its own.
LEMMA FoldDomain ==
    ASSUME NEW f, NEW u, NEW after, NEW size, NEW touched, Fold(f, u, after, size, touched)
    PROVE  DOMAIN endpoints' \subseteq DOMAIN after \union {u}
BY DEF Fold

LEMMA ObserveRetires ==
    ASSUME OneTypePerDepth, RetiredInv, Up', NEW m \in Message, Observe(FlowOf[m], PathOf[m]),
           UNCHANGED <<rows, flushing>>
    PROVE  RetiredInv'
<1>. DEFINE path == PathOf[m]
<1>0. path \in Seq(Segment) /\ \A i \in 1..Len(path) : Fits(i, path[i])
  BY ProfilerAssumption, TypeAtIs DEF TypesAre, Fits
<1>1. PICK r \in Normalize(engine, path) :
        /\ engine' = r.engine
        /\ IF r.collapsed
           THEN LET e == r.engine
                    moved == MovedIds(e)
                IN  /\ Fold(FlowOf[m], r.norm, Merged(e), count - Absorbed(e),
                            (dirty \ moved) \union {Target(e, u) : u \in moved})
                    /\ retired' = retired \union moved
           ELSE /\ Fold(FlowOf[m], r.norm, endpoints, count, dirty)
                /\ UNCHANGED retired
  BY DEF Observe
<1>. HIDE DEF path
<1>. DEFINE e == r.engine
<1>2. /\ Outcome(r, engine, Len(path)) /\ Careful(r, engine)
  BY <1>0, NormalizeCareful DEF RetiredInv
<1>3. /\ r.norm \in Template /\ Settled(e, r.norm) /\ Fine(e, r.norm)
      /\ Decides(e) /\ Learns(e) /\ StaysDead(engine, e)
      /\ EngineOK(e) /\ Typed(r.norm)
  BY <1>2, FineIsTyped DEF Outcome, Careful
<1>. HIDE DEF e
<1>4. ASSUME NEW x, Typed(x), Dead(e, x)
      PROVE  ~ Under(r.norm, x)
  <2>1. PICK i \in 1..Len(x) : DeadAt(e, x, i)
    BY <1>4 DEF Dead
  <2>. QED
    BY <1>3, <1>4, <2>1, NotUnder
<1>5. \A x \in ToDelete : Typed(x) /\ Dead(e, x)
  BY <1>3 DEF RetiredInv, StaysDead
<1>6. CASE ~ r.collapsed
  <2>1. DOMAIN endpoints' \subseteq DOMAIN endpoints \union {r.norm} /\ retired' = retired
    BY <1>1, <1>6, FoldDomain
  <2>2. ToDelete' = ToDelete
    BY <2>1 DEF ToDelete
  <2>3. \A u \in DOMAIN endpoints' \union DOMAIN rows' : Typed(u)
    BY <1>3, <2>1 DEF RetiredInv
  <2>4. \A x \in ToDelete' : \A w \in DOMAIN endpoints' : ~ Under(w, x)
    BY <1>4, <1>5, <2>1, <2>2 DEF RetiredInv
  <2>5. \A x \in ToDelete' : Typed(x) /\ Dead(engine', x)
    BY <1>1, <1>5, <2>2 DEF e
  <2>6. Decides(engine') /\ Learns(engine')
    BY <1>1, <1>3 DEF e
  <2>. QED
    BY <2>3, <2>4, <2>5, <2>6 DEF RetiredInv
<1>7. CASE r.collapsed
  <2>1. /\ DOMAIN endpoints' \subseteq DOMAIN Merged(e) \union {r.norm}
        /\ retired' = retired \union MovedIds(e)
    BY <1>1, <1>7, FoldDomain DEF e
  <2>2. \A w \in DOMAIN Merged(e) : \E u \in DOMAIN endpoints : w = Renormalize(e, u)
    BY DEF Merged, Target
  <2>3. ASSUME NEW u \in DOMAIN endpoints
        PROVE  /\ Typed(u) /\ Typed(Renormalize(e, u))
               /\ Settled(e, Renormalize(e, u))
               /\ \A x : Under(Renormalize(e, u), x) => Under(u, x)
    <3>1. Typed(u) /\ u \in Template
      BY DEF RetiredInv, Typed
    <3>. QED
      BY <1>3, <3>1, RenormalizeTyped, RenormalizeSettles, RenormalizeUnder
  <2>4. ASSUME NEW x \in MovedIds(e)
        PROVE  /\ Typed(x) /\ Dead(e, x)
               /\ \A w \in DOMAIN endpoints' : ~ Under(w, x)
    <3>1. x \in DOMAIN endpoints /\ Renormalize(e, x) # x
      BY DEF MovedIds, Target
    <3>2. Typed(x)
      BY <2>3, <3>1
    <3>3. PICK i \in 1..Len(x) : x[i] \notin ValueType /\ DeadAt(e, x, i)
      BY <1>3, <3>1, <3>2, MovedIsDead
    <3>4. \A w \in DOMAIN endpoints' : w \in Template /\ Settled(e, w)
      BY <1>3, <2>1, <2>2, <2>3 DEF Typed
    <3>. QED
      BY <1>3, <3>2, <3>3, <3>4, NotUnder DEF Dead
  <2>5. ToDelete' = ToDelete \union MovedIds(e)
    BY <2>1 DEF ToDelete
  <2>6. ASSUME NEW x \in ToDelete, NEW w \in DOMAIN endpoints'
        PROVE  ~ Under(w, x)
    <3>1. CASE w = r.norm
      BY <1>4, <1>5, <3>1
    <3>2. CASE w # r.norm
      <4>1. PICK u \in DOMAIN endpoints : w = Renormalize(e, u)
        BY <2>1, <2>2, <3>2
      <4>2. ~ Under(u, x)
        BY DEF RetiredInv
      <4>. QED
        BY <2>3, <4>1, <4>2
    <3>. QED
      BY <3>1, <3>2
  <2>7. \A u \in DOMAIN endpoints' \union DOMAIN rows' : Typed(u)
    BY <1>3, <2>1, <2>2, <2>3 DEF RetiredInv
  <2>8. \A x \in ToDelete' : /\ Typed(x) /\ Dead(engine', x)
                             /\ \A w \in DOMAIN endpoints' : ~ Under(w, x)
    BY <1>1, <1>5, <2>4, <2>5, <2>6 DEF e
  <2>9. Decides(engine') /\ Learns(engine')
    BY <1>1, <1>3 DEF e
  <2>. QED
    BY <2>7, <2>8, <2>9 DEF RetiredInv
<1>. QED
  BY <1>6, <1>7

\* Steps that neither observe nor start a process.
LEMMA WritingRetires ==
    ASSUME RetiredInv, UNCHANGED <<engine, endpoints>>,
           DOMAIN rows' \subseteq DOMAIN rows \union DOMAIN endpoints,
           ToDelete' \subseteq ToDelete,
           ~ Up' => retired' = {}
    PROVE  RetiredInv'
BY DEF RetiredInv

LEMMA GoneRetires ==
    ASSUME RetiredInv, Gone
    PROVE  RetiredInv'
<1>1. /\ engine' = EmptyEngine /\ endpoints' = << >> /\ DOMAIN endpoints' = {}
      /\ retired' = {} /\ flushing' = NoWork /\ rows' = rows
  BY DEF Gone, table
<1>2. ToDelete' = {}
  BY <1>1 DEF ToDelete, NoWork
<1>. QED
  BY <1>1, <1>2, EmptyDecides DEF RetiredInv

LEMMA BootRetires ==
    ASSUME OneTypePerDepth, RetiredInv, FlushInv, Boot
    PROVE  RetiredInv'
<1>1. /\ engine' = Learned(DOMAIN rows) /\ endpoints' = rows /\ rows' = rows
      /\ retired' = {} /\ flushing' = NoWork
  BY DEF Boot, RetiredInv, FlushInv, table
<1>2. Decides(engine') /\ Learns(engine')
  BY <1>1, LearnedDecides DEF RetiredInv
<1>3. ToDelete' = {}
  BY <1>1 DEF ToDelete, NoWork
<1>. QED
  BY <1>1, <1>2, <1>3 DEF RetiredInv

LEMMA RetiredInvStep ==
    ASSUME OneTypePerDepth, RetiredInv, FlushInv, [ProfNext]_profVars
    PROVE  RetiredInv'
<1>. USE DEF aggregator, worker, table, stream
<1>1. CASE UNCHANGED <<engine, endpoints, rows, retired, flushing>> /\ (Up \/ stage' = stage)
           /\ (Up' \/ stage' = stage)
  BY <1>1, WritingRetires DEF ToDelete, RetiredInv, Up
<1>2. ASSUME NEW m \in Message, Learn(m), FlowOf[m] \notin seen
      PROVE  RetiredInv'
  <2>1. /\ Observe(FlowOf[m], PathOf[m]) /\ UNCHANGED <<rows, flushing, stage>>
        /\ phase \in {"loop", "batch"} /\ (phase = "batch" \/ stage = "running")
    BY <1>2 DEF Learn, Receives
  <2>2. CASE Up'
    BY <2>1, <2>2, ObserveRetires
  <2>3. CASE ~ Up'
    BY <2>1, <2>3 DEF FlushInv, Up
  <2>. QED
    BY <2>2, <2>3
<1>3. ASSUME NEW m \in Message, Learn(m), FlowOf[m] \in seen
      PROVE  RetiredInv'
  BY <1>1, <1>3 DEF Learn
<1>4. ASSUME NEW m \in Message, Refuse(m) \/ Redeliver(m)
      PROVE  RetiredInv'
  BY <1>1, <1>4 DEF Refuse, Redeliver
<1>5. CASE EndBatch \/ FlushTick \/ UNCHANGED profVars
  BY <1>1, <1>5 DEF EndBatch, FlushTick, profVars
<1>6. CASE Signal \/ LeaveLoop
  BY <1>1, <1>6 DEF Signal, LeaveLoop, Up
<1>7. CASE Flush
  <2>1. UNCHANGED <<engine, endpoints, stage>>
    BY <1>7 DEF Flush, Collect, UpsertEndpoints, UpsertFails, DeleteEndpoints, DeleteFails
  <2>2. Up
    BY <1>7 DEF Flush, Collect, UpsertEndpoints, UpsertFails, DeleteEndpoints, DeleteFails,
                FlushInv
  <2>3. DOMAIN rows' \subseteq DOMAIN rows \union DOMAIN endpoints
    BY <1>7 DEF Flush, Collect, UpsertEndpoints, UpsertFails, DeleteEndpoints, DeleteFails,
                FlushInv, Upserted, Remaining, WriteRows, DeleteRows, table
  <2>4. ToDelete' \subseteq ToDelete
    BY <1>7 DEF Flush, Collect, UpsertEndpoints, UpsertFails, DeleteEndpoints, DeleteFails,
                ToDelete, Requeue, NoWork
  <2>. QED
    BY <2>1, <2>2, <2>3, <2>4, WritingRetires DEF Up
<1>8. CASE Exit \/ Crash
  BY <1>8, GoneRetires DEF Exit, Crash
<1>9. CASE Boot
  BY <1>9, BootRetires
<1>. QED
  BY <1>2, <1>3, <1>4, <1>5, <1>6, <1>7, <1>8, <1>9 DEF ProfNext, Receive

-----------------------------------------------------------------------------
(* The theorems.                                                           *)

LEMMA EvidenceHolds == ProfSpec => [](EvidenceInv /\ TypedInv /\ FlushInv)
<1>. DEFINE IInv == EvidenceInv /\ TypedInv /\ FlushInv
<1>1. ProfInit => IInv
  BY TypesInit
<1>2. IInv /\ [ProfNext]_profVars => IInv'
  BY EvidenceInvStep, TypedInvStep, FlushInvStep
<1>. QED
  BY <1>1, <1>2, PTL DEF ProfSpec

\* Aggregator.renormalizeScope, foldEndpoint and Load: whatever order the flows come
\* in and however their endpoints meet under a parameter, each flow that was observed
\* is counted once in the profiles for each time it was, and the count on which the
\* caps rest is the number of endpoints, for every scope and path.
THEOREM EvidenceKept == ProfSpec => []EvidenceConserved
<1>1. EvidenceInv => EvidenceConserved
  BY DEF EvidenceInv, EvidenceConserved
<1>. QED
  BY <1>1, EvidenceHolds, PTL

\* renormalizeScope: once a position has collapsed, no endpoint is left under a literal
\* that the parameter now matches, as long as every one of them was learned by this
\* process.
THEOREM NoStaleLiterals == ProfSpec => []TemplatesSettled
<1>1. EvidenceInv => TemplatesSettled
  <2>. SUFFICES ASSUME EvidenceInv, boots = 1, NEW u \in DOMAIN endpoints
                PROVE  Renormalize(engine, u) = u
    BY DEF TemplatesSettled
  <2>1. EngineOK(engine) /\ u \in Template /\ Settled(engine, u)
    BY DEF EvidenceInv, Table
  <2>. QED
    BY <2>1, RenormalizeSettles
<1>. QED
  BY <1>1, EvidenceHolds, PTL

\* The shape of the worker's and the table's state, and with it that flush upserts only
\* endpoints.
THEOREM ProfTypes == ProfSpec => []ProfTypeOK
<1>1. EvidenceInv /\ TypedInv /\ FlushInv => ProfTypeOK
  <2>. SUFFICES ASSUME EvidenceInv, TypedInv, FlushInv
                PROVE  ProfTypeOK
    OBVIOUS
  <2>1. /\ DOMAIN endpoints \union DOMAIN rows \subseteq Seq(Segment \union ValueType)
        /\ \A u \in DOMAIN endpoints : BagToSet(endpoints[u]) \subseteq FlowId
        /\ \A u \in DOMAIN rows : BagToSet(rows[u]) \subseteq FlowId
    BY DEF EvidenceInv, Table, Template
  <2>2. count \in Nat
    BY FS_CardinalityType DEF EvidenceInv, Table
  <2>. QED
    BY <2>1, <2>2 DEF TypedInv, FlushInv, ProfTypeOK, Template
<1>. QED
  BY <1>1, EvidenceHolds, PTL

LEMMA TableHolds == ProfSpec => []ProfInv
BY ProfInvInit, ProfInvStep, PTL DEF ProfSpec

\* worker.flush: between two flushes the table holds what the aggregator does, apart
\* from what is dirty or retired, and from the endpoints whose rows were deleted because
\* a collapse had retired their ids before.
THEOREM TableFollows == ProfSpec => []RowsFollowEndpoints
<1>1. ProfInv => RowsFollowEndpoints
  BY DEF ProfInv
<1>. QED
  BY <1>1, TableHolds, PTL

\* worker.flush: a message is acked when the flush that covers it has been committed,
\* and what it told is in the table from then on, unless it leaves with the row of an
\* endpoint whose id a collapse had retired before.
THEOREM NothingAckedEarly == ProfSpec => []AckedIsCommitted
<1>1. ProfInv => AckedIsCommitted
  BY KnownIs DEF ProfInv, KnownInv, Covered, Lost, AckedIsCommitted
<1>. QED
  BY <1>1, TableHolds, PTL

-----------------------------------------------------------------------------
(* When an id comes back.                                                  *)

\* Values of two promotable types meet at one depth of the scope's paths.
TypesMix ==
    \E m, n \in Message : \E i \in (1..Len(PathOf[m])) \intersect (1..Len(PathOf[n])) :
        /\ {KindOf[PathOf[m][i]], KindOf[PathOf[n][i]]} \subseteq Promotable
        /\ KindOf[PathOf[m][i]] # KindOf[PathOf[n][i]]

LEMMA OneTypeUnlessMixed == ~ TypesMix => OneTypePerDepth
<1>. SUFFICES ASSUME ~ TypesMix PROVE \E K \in [Nat -> Promotable] : TypesAre(K)
  BY DEF OneTypePerDepth
<1>. DEFINE Seen(i) == {KindOf[PathOf[m][i]] : m \in {n \in Message : i \in 1..Len(PathOf[n])}}
                         \intersect Promotable
            K == [i \in Nat |-> CHOOSE t \in Promotable : Seen(i) # {} => t \in Seen(i)]
<1>1. Promotable # {}
  BY DEF Promotable
<1>2. ASSUME NEW i \in Nat PROVE K[i] \in Promotable /\ (Seen(i) # {} => K[i] \in Seen(i))
  <2>1. \E t \in Promotable : Seen(i) # {} => t \in Seen(i)
    BY <1>1
  <2>. QED
    BY <2>1
<1>3. ASSUME NEW m \in Message, NEW i \in 1..Len(PathOf[m]), KindOf[PathOf[m][i]] \in Promotable
      PROVE  KindOf[PathOf[m][i]] = K[i]
  <2>1. i \in Nat
    BY ProfilerAssumption
  <2>2. KindOf[PathOf[m][i]] \in Seen(i)
    BY <1>3
  <2>3. K[i] \in Seen(i) /\ K[i] \in Promotable
    BY <1>2, <2>1, <2>2
  <2>4. PICK n \in Message : i \in 1..Len(PathOf[n]) /\ K[i] = KindOf[PathOf[n][i]]
    <3>. HIDE DEF K
    <3>. QED
      BY <2>3
  <2>. HIDE DEF K, Seen
  <2>. QED
    BY <1>3, <2>3, <2>4 DEF TypesMix
<1>4. K \in [Nat -> Promotable]
  BY <1>2
<1>5. TypesAre(K)
  <2>. HIDE DEF K
  <2>. QED
    BY <1>3 DEF TypesAre
<1>. HIDE DEF K
<1>. QED
  BY <1>4, <1>5

\* Aggregator.renormalizeScope, worker.flush: only in a scope where values of two
\* promotable types meet at one depth does a flush delete the row of a live endpoint;
\* without them a template that was retired never names an endpoint before its row is
\* gone.
THEOREM WipedOnlyWhereTypesMix == ProfSpec => [](wiped # {} => TypesMix)
<1>. DEFINE NoneWiped == ~ TypesMix => RetiredInv /\ wiped = {}
            IInv == NoneWiped /\ FlushInv
<1>1. ProfInit => IInv
  BY RetiredInvInit, TypesInit DEF ProfInit
<1>2. IInv /\ [ProfNext]_profVars => IInv'
  <2>. SUFFICES ASSUME IInv, [ProfNext]_profVars, ~ TypesMix PROVE RetiredInv' /\ wiped' = {}
    BY FlushInvStep
  <2>1. OneTypePerDepth /\ RetiredInv /\ FlushInv /\ wiped = {}
    BY OneTypeUnlessMixed
  <2>2. Revived = {}
    BY <2>1, RetiredInvImplies DEF RetiredAreGone, ToDelete, Revived
  <2>3. WriteRows \/ DeleteRows => wiped' = {}
    BY <2>1, <2>2 DEF WriteRows, DeleteRows
  <2>4. wiped' = wiped \/ WriteRows \/ DeleteRows
    BY DEF ProfNext, profVars, table, Receive, Refuse, Learn, Redeliver, EndBatch,
           FlushTick, Flush, Collect, UpsertEndpoints, UpsertFails, DeleteEndpoints,
           DeleteFails, Signal, LeaveLoop, Exit, Crash, Gone, Boot
  <2>. QED
    BY <2>1, <2>3, <2>4, RetiredInvStep
<1>3. IInv => (wiped # {} => TypesMix)
  OBVIOUS
<1>. HIDE DEF IInv
<1>. QED
  BY <1>1, <1>2, <1>3, PTL DEF ProfSpec
=============================================================================

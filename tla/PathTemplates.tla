--------------------------- MODULE PathTemplates ---------------------------
(***************************************************************************)
(* The path-template engine of the traffic profiler, for one (tenant,      *)
(* host, method) scope: internal/profile/template.go.                      *)
(*                                                                         *)
(* A path is the sequence of its segments; a template is a path in which   *)
(* some segments are replaced by the type of a parameter, the token {type} *)
(* of the code.  A prefix is the template of what comes before a position. *)
(*                                                                         *)
(* When two statistics are merged past MaxDistinct, Go's map order decides *)
(* which values survive.  So an operation returns the set of its outcomes. *)
(***************************************************************************)
EXTENDS TypeLattice, Integers, Sequences, FiniteSets, Bags, SequencesExt

CONSTANTS
    Segment,             \* the values a path segment takes
    KindOf,              \* [Segment -> ValueType]: what Infer makes of each
    MinSamples,          \* TemplateOptions
    MaxDistinct,
    MinDistinctForType,
    VarRepeatFactor

ASSUME TemplatesAssumption ==
    /\ Segment \intersect ValueType = {}
    /\ KindOf \in [Segment -> ValueType \ {"empty", "var"}]
    /\ {MinSamples, MaxDistinct, MinDistinctForType, VarRepeatFactor}
           \subseteq Nat \ {0}

\* How often x is in the bag.
Copies(x, bag) == IF BagIn(x, bag) THEN bag[x] ELSE 0

\* One more copy of x: as in BagsExt, whose local instances TLAPS does not take.
BagAdd(bag, x) ==
    [y \in {x} \union DOMAIN bag |-> IF y = x THEN Copies(x, bag) + 1 ELSE bag[y]]

-----------------------------------------------------------------------------
\* A token that is looked at as a value is free text: "{" and "}" are.
Infer(v) == IF v \in ValueType THEN "freetext" ELSE KindOf[v]

Matches(v, t) == t = "var" \/ Join(Infer(v), t) = t

\* What is recorded of several types that meet at one position: Join gives the least
\* upper bound of two, so the order in which they meet does not count.
JoinAll(types) ==
    CHOOSE t \in ValueType :
        /\ \A s \in types : Below(s, t)
        /\ \A b \in ValueType : (\A s \in types : Below(s, b)) => Below(t, b)

-----------------------------------------------------------------------------
(* template.go *)

\* What is known of a position that has not collapsed: how often each tracked
\* value and each type was seen, and whether there were too many values to track.
EmptyStat == [values |-> EmptyBag, kinds |-> EmptyBag, overflow |-> FALSE]

\* collapses: prefix -> type of the parameter that comes next; stats: the prefixes
\* of the other positions seen.  Both are maps, so their domains vary.
EmptyEngine == [collapses |-> << >>, stats |-> << >>]

Samples(st)  == BagCardinality(st.kinds)
Tracked(st)  == BagToSet(st.values)
Distinct(st) == IF st.overflow THEN MaxDistinct + 1 ELSE Cardinality(Tracked(st))

\* One more value at a position.  A tracked value is counted even after the
\* overflow; only the set of tracked values stops growing.
Counted(st, v) ==
    LET room == v \in Tracked(st) \/ Cardinality(Tracked(st)) <= MaxDistinct
    IN  [values   |-> IF room THEN BagAdd(st.values, v) ELSE st.values,
         kinds    |-> BagAdd(st.kinds, Infer(v)),
         overflow |-> st.overflow \/ ~room]

\* TypeShare is 0.9, VarSingletonShare 0.85.
Dominant(st) ==
    {t \in Promotable \intersect BagToSet(st.kinds) :
        10 * Copies(t, st.kinds) >= 9 * Samples(st)}
VariableEnough(st) ==
    20 * Cardinality({v \in Tracked(st) : Copies(v, st.values) = 1})
        >= 17 * Cardinality(Tracked(st))

\* The type a position collapses to now: the set is empty while it stays literal.
CollapseType(st) ==
    IF Samples(st) < MinSamples THEN {}
    ELSE IF Distinct(st) >= MinDistinctForType /\ Dominant(st) # {} THEN Dominant(st)
    ELSE IF /\ Distinct(st) > MaxDistinct
            /\ Samples(st) >= MaxDistinct * VarRepeatFactor
            /\ VariableEnough(st)
         THEN {"var"}
         ELSE {}

\* mergeStat: the values of st stay; those of in are added while there is room.
MergeStat(st, in) ==
    LET new  == Tracked(in) \ Tracked(st)
        room == MaxDistinct + 1 - Cardinality(Tracked(st))
        fits == {S \in SUBSET new :
                   Cardinality(S) = IF Cardinality(new) <= room
                                    THEN Cardinality(new) ELSE room}
        only(S) == [v \in Tracked(in) \intersect (Tracked(st) \union S) |-> in.values[v]]
    IN  {[values   |-> st.values (+) only(S),
          kinds    |-> st.kinds (+) in.kinds,
          overflow |-> st.overflow \/ in.overflow \/ S # new] : S \in fits}

\* Where collapse moves the key of a deeper position: the segment after prefix
\* becomes the token, if it matches; a literal sibling's subtree stays its own.
Rekeyed(key, prefix, t) ==
    IF IsStrictPrefix(prefix, key) /\ Matches(key[Len(prefix) + 1], t)
    THEN [key EXCEPT ![Len(prefix) + 1] = t]
    ELSE key

\* The statistics that end up under key, from those of the positions in from.  The
\* code merges them in the order of their keys, which segments do not have: in any.
MergedStats(stats, key, from) ==
    LET others == from \ {key}
        first  == [stat |-> IF key \in from THEN stats[key] ELSE EmptyStat, left |-> others]
        step(r) == UNION {{[stat |-> st, left |-> r.left \ {k}] :
                               st \in MergeStat(r.stat, stats[k])} : k \in r.left}
        after[i \in 0..Cardinality(others)] ==
            IF i = 0 THEN {first} ELSE UNION {step(r) : r \in after[i - 1]}
    IN  {r.stat : r \in after[Cardinality(others)]}

\* The decision replaces whatever was decided for the prefix before, and deeper
\* statistics and decisions move under the token.
Collapse(e, prefix, t) ==
    LET types == [p \in {prefix} \union DOMAIN e.collapses |->
                    IF p = prefix THEN t ELSE e.collapses[p]]
        stats == [p \in DOMAIN e.stats \ {prefix} |-> e.stats[p]]
        to(f)      == {Rekeyed(p, prefix, t) : p \in DOMAIN f}
        from(f, k) == {p \in DOMAIN f : Rekeyed(p, prefix, t) = k}
        joined == [k \in to(types) |-> JoinAll({types[p] : p \in from(types, k)})]
        merged(k) == MergedStats(stats, k, from(stats, k))
    IN  {[collapses |-> joined, stats |-> s] :
            s \in {f \in [to(stats) -> UNION {merged(k) : k \in to(stats)}] :
                     \A k \in to(stats) : f[k] \in merged(k)}}

\* What the engine knows of the position after prefix once v was seen there.
StatWith(e, prefix, v) ==
    Counted(IF prefix \in DOMAIN e.stats THEN e.stats[prefix] ELSE EmptyStat, v)

ObserveSegment(e, prefix, v) ==
    LET st == StatWith(e, prefix, v)
    IN  IF CollapseType(st) = {}
        THEN {[e EXCEPT !.stats = [p \in {prefix} \union DOMAIN e.stats |->
                                     IF p = prefix THEN st ELSE e.stats[p]]]}
        ELSE UNION {Collapse(e, prefix, t) : t \in CollapseType(st)}

\* The segment as it appears in the template: the token, if the position has
\* collapsed to a type it matches.
Templated(e, prefix, v) ==
    IF prefix \in DOMAIN e.collapses /\ Matches(v, e.collapses[prefix])
    THEN e.collapses[prefix]
    ELSE v

\* Mutant: the observation that makes a position collapse stays literal itself.
NormalizeSegmentLate(r, v) ==
    IF Templated(r.engine, r.norm, v) # v
    THEN {[r EXCEPT !.norm = Append(@, Templated(r.engine, r.norm, v))]}
    ELSE {[norm      |-> Append(r.norm, v),
           engine    |-> e,
           collapsed |-> r.collapsed \/ CollapseType(StatWith(r.engine, r.norm, v)) # {}] :
             e \in ObserveSegment(r.engine, r.norm, v)}

\* One segment of Normalize.  A segment that is already under a parameter is not
\* observed; the observation that makes a position collapse is templated at once.
NormalizeSegment(r, v) ==
    IF Templated(r.engine, r.norm, v) # v
    THEN {[r EXCEPT !.norm = Append(@, Templated(r.engine, r.norm, v))]}
    ELSE LET hit == CollapseType(StatWith(r.engine, r.norm, v)) # {}
         IN  {[norm      |-> Append(r.norm, IF hit THEN Templated(e, r.norm, v) ELSE v),
               engine    |-> e,
               collapsed |-> r.collapsed \/ hit] :
                 e \in ObserveSegment(r.engine, r.norm, v)}

\* The outcomes after i segments, from those after one less.
Normalize(e, path) ==
    LET after[i \in 0..Len(path)] ==
          IF i = 0 THEN {[norm |-> << >>, engine |-> e, collapsed |-> FALSE]}
          ELSE UNION {NormalizeSegment(r, path[i]) : r \in after[i - 1]}
    IN  after[Len(path)]

\* Tokens pass through unchanged.
RenormalizeSegment(e, norm, v) ==
    Append(norm, IF v \in ValueType THEN v ELSE Templated(e, norm, v))

Renormalize(e, template) ==
    LET after[i \in 0..Len(template)] ==
          IF i = 0 THEN << >> ELSE RenormalizeSegment(e, after[i - 1], template[i])
    IN  after[Len(template)]

\* LearnTemplate of every stored template: the decisions come back, the
\* statistics of the open positions do not.
Learned(templates) ==
    LET tokens == {x \in UNION {{<<u, i>> : i \in DOMAIN u} : u \in templates} :
                     x[1][x[2]] \in ValueType}
        before(x) == SubSeq(x[1], 1, x[2] - 1)
    IN  [EmptyEngine EXCEPT !.collapses =
            [p \in {before(x) : x \in tokens} |->
               JoinAll({x[1][x[2]] : x \in {y \in tokens : before(y) = p}})]]
=============================================================================

------------------------------ MODULE Grouping ------------------------------
(***************************************************************************)
(* internal/correlate/group: the exact tier joins records that share an    *)
(* identifier by union-find, the heuristic tier joins what is left by      *)
(* client, host, path, method and time.  Records are the events Providers  *)
(* describes.                                                              *)
(***************************************************************************)
EXTENDS Integers, Sequences, FiniteSets, SequencesExt

SmallestOf(S) == CHOOSE x \in S : \A y \in S : x <= y

-----------------------------------------------------------------------------
(* unionFind: a forest over identifiers, with ranks.                       *)

Identifiers(records) == UNION {records[i].ids : i \in DOMAIN records}

NewUnionFind(S) == [parent |-> [x \in S |-> x], rank |-> [x \in S |-> 0]]

\* find; compressing the path changes no root.
Find(uf, id) ==
    LET root[x \in DOMAIN uf.parent] ==
            IF uf.parent[x] = x THEN x ELSE root[uf.parent[x]]
    IN  root[id]

\* link: the root of smaller rank goes below the other one.
Link(uf, a, b) ==
    LET ra   == Find(uf, a)
        rb   == Find(uf, b)
        low  == IF uf.rank[ra] < uf.rank[rb] THEN ra ELSE rb
        high == IF uf.rank[ra] < uf.rank[rb] THEN rb ELSE ra
        tie  == uf.rank[ra] = uf.rank[rb]
    IN  IF ra = rb THEN uf
        ELSE [uf EXCEPT !.parent[low] = high,
                        !.rank[high] = IF tie THEN @ + 1 ELSE @]

\* Mutant: a record is known by its first identifier only.
LinkNothing(uf, record) == uf

\* A record links its identifiers to its first one.
LinkRecord(uf, record) ==
    LET ids   == SetToSeq(record.ids)
        first == SmallestOf(record.ids)
        after[i \in 0..Len(ids)] ==
            IF i = 0 THEN uf ELSE Link(after[i - 1], first, ids[i])
    IN  after[Len(ids)]

Forest(records) ==
    LET after[i \in 0..Len(records)] ==
            IF i = 0 THEN NewUnionFind(Identifiers(records))
            ELSE LinkRecord(after[i - 1], records[i])
    IN  after[Len(records)]

Component(members) ==
    [key |-> SmallestOf(UNION {e.ids : e \in members}),
     events |-> members,
     bridged |-> /\ \E e \in members : Cardinality(e.ids) > 1
                 /\ Cardinality({e.provider : e \in members}) > 1]

\* Exact: one component for each tree of the forest.
Exact(records) ==
    LET forest    == Forest(records)
        keyed     == {e \in ToSet(records) : e.ids # {}}
        RootOf(e) == Find(forest, SmallestOf(e.ids))
    IN  {Component({e \in keyed : RootOf(e) = root}) : root \in {RootOf(e) : e \in keyed}}

-----------------------------------------------------------------------------
(* The heuristic tier.                                                     *)

\* attributeKey: every attribute and the time must be there.
Joinable(e) == e.attributes # 0 /\ e.time # 0

\* clusterByTime: sorted by time, e and f are in one run of records whose
\* consecutive times are at most window apart.
SameRun(bucket, e, f, window) ==
    LET times    == {x.time : x \in bucket}
        from     == IF e.time < f.time THEN e.time ELSE f.time
        to       == IF e.time < f.time THEN f.time ELSE e.time
        After(t) == SmallestOf({u \in times : u > t})
    IN  \A t \in times : from <= t /\ t < to => After(t) - t <= window

Clusters(bucket, window) ==
    {{f \in bucket : SameRun(bucket, e, f, window)} : e \in bucket}

\* Mutant: two records of one provider are ambiguous only at the same time.
TwoFromOneProviderAtOnce(cluster) ==
    \E e, f \in cluster : e # f /\ e.provider = f.provider /\ e.time = f.time

\* hasDuplicateProvider.
TwoFromOneProvider(cluster) ==
    \E e, f \in cluster : e # f /\ e.provider = f.provider

\* Heuristic's components; an ambiguous cluster is left unjoined.
Heuristic(records, window) ==
    LET joinable == {e \in records : Joinable(e)}
        buckets  == {{e \in joinable : e.attributes = a} : a \in {e.attributes : e \in joinable}}
    IN  {cluster \in UNION {Clusters(b, window) : b \in buckets} :
            Cardinality(cluster) > 1 /\ ~TwoFromOneProvider(cluster)}
=============================================================================

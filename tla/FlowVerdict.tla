----------------------------- MODULE FlowVerdict -----------------------------
(***************************************************************************)
(* How a flow is read off its events: the causal order                     *)
(* (internal/correlate/order.go), Materialize and the Amender              *)
(* (internal/biz/flow), and the conflicts between layers                   *)
(* (internal/biz/verdict).  Events are those of Providers.                 *)
(***************************************************************************)
EXTENDS Integers, Sequences, FiniteSets, Providers, SequencesExt

Nowhere == -1    \* no terminating layer

-----------------------------------------------------------------------------
\* Mutant: events of one layer at one time stay as they arrived.
BeforeByTime(e, f) ==
    \/ e.layer < f.layer
    \/ e.layer = f.layer /\ e.time < f.time

\* OrderEvents: by layer, whatever the clocks say; by time and then by id
\* within a layer.
Before(e, f) ==
    \/ e.layer < f.layer
    \/ e.layer = f.layer /\ e.time < f.time
    \/ e.layer = f.layer /\ e.time = f.time /\ SmallerId(e.id, f.id)

\* The sort is stable: what the order does not tell apart stays as it arrived.
Precedes(events, j, i) ==
    Before(events[j], events[i]) \/ (~Before(events[i], events[j]) /\ j < i)

OrderEvents(events) ==
    [n \in 1..Len(events) |->
        events[CHOOSE i \in 1..Len(events) :
                  Cardinality({j \in 1..Len(events) : Precedes(events, j, i)}) = n - 1]]

\* DetectSkew: neighbours of different layers whose times go backwards.
DetectSkew(ordered) ==
    \E i \in 2..Len(ordered) :
        /\ ordered[i - 1].layer # ordered[i].layer
        /\ ordered[i].time < ordered[i - 1].time

-----------------------------------------------------------------------------
\* resolveOutcome: the first stop in causal order, else what the deepest layer
\* reported.
FirstStop(ordered) == SelectInSeq(ordered, LAMBDA e : e.terminating)

TerminatingLayer(ordered) ==
    IF FirstStop(ordered) = 0 THEN Nowhere ELSE ordered[FirstStop(ordered)].layer

Outcome(ordered) ==
    IF FirstStop(ordered) = 0 THEN Last(ordered).action
    ELSE ordered[FirstStop(ordered)].action

LayersOf(ordered) == {e.layer : e \in ToSet(ordered)}
EdgeServedFromCache(ordered) ==
    \E e \in ToSet(ordered) : e.layer = Edge /\ e.cacheHit

\* Mutant: a request answered from the cache is expected at the origin.
BoundaryIgnoresCache(ordered) ==
    IF TerminatingLayer(ordered) = Nowhere THEN Origin
    ELSE CHOOSE l \in LayersOf(ordered) : \A m \in LayersOf(ordered) : m <= l

\* completenessBoundary: the deepest layer the request is known to have reached.
CompletenessBoundary(ordered) ==
    LET reached  == LayersOf(ordered) \union {TerminatingLayer(ordered)}
        toOrigin == TerminatingLayer(ordered) = Nowhere /\ ~EdgeServedFromCache(ordered)
    IN  IF toOrigin THEN Origin
        ELSE CHOOSE l \in reached : \A m \in reached : m <= l

LayersMissing(ordered, expected) ==
    {l \in expected : l <= CompletenessBoundary(ordered)} \ LayersOf(ordered)

\* timeSpan, over the times that are known.
FirstSeen(ordered) ==
    LET known == {e.time : e \in ToSet(ordered)} \ {NoTime}
    IN  IF known = {} THEN NoTime ELSE CHOOSE t \in known : \A u \in known : t <= u

\* In tenths.  The clock_skew deduction reads the flow's flags before
\* propagateFlags has set any, so it never applies.
Confidence(method, present) ==
    CASE method = "exact"     -> 10
      [] method = "heuristic" -> IF Cardinality(present) >= 3 THEN 7 ELSE 6
      [] OTHER                -> 0

FlowFlags(ordered, method, bridged) ==
    UNION {e.flags : e \in ToSet(ordered)}
    \union (IF DetectSkew(ordered) THEN {"clock_skew"} ELSE {})
    \union (IF method = "heuristic" THEN {"heuristic_correlation"} ELSE {})
    \union (IF bridged THEN {"bridged_correlation"} ELSE {})

\* Materialize of a closed flow.
Materialize(key, events, opts) ==
    LET ordered == OrderEvents(events)
        missing == LayersMissing(ordered, opts.expected)
        present == {l \in opts.expected : l <= CompletenessBoundary(ordered)} \ missing
    IN  [key |-> key, events |-> ordered, method |-> opts.method, bridged |-> opts.bridged,
         outcome |-> Outcome(ordered), stoppedBy |-> TerminatingLayer(ordered),
         missing |-> missing,
         completeness |-> IF opts.method = "none" THEN "ambiguous"
                          ELSE IF missing = {} THEN "complete" ELSE "partial",
         confidence |-> Confidence(opts.method, present),
         firstSeen |-> FirstSeen(ordered),
         flags |-> FlowFlags(ordered, opts.method, opts.bridged),
         amended |-> FALSE]

\* Amender.Amend: a known event changes nothing, a new one has the flow worked
\* out again, under its key and against the default request path.
Amend(flow, late) ==
    IF late.id \in {e.id : e \in ToSet(flow.events)} THEN flow
    ELSE [Materialize(flow.key, Append(flow.events, late),
              [expected |-> Layer, method |-> flow.method, bridged |-> flow.bridged])
            EXCEPT !.amended = TRUE]

-----------------------------------------------------------------------------
(* Window's two reasons to close a flow before its late-arrival time.      *)

HasAllLayers(events, expectedLayers) ==
    Cardinality({e.layer : e \in events}) >= expectedLayers

\* Mutant: a stop closes the flow, whatever is missing above it.
AnyStop(events) == \E e \in events : e.terminating

TerminallyComplete(events) ==
    LET stops == {e.layer : e \in {f \in events : f.terminating}}
    IN  /\ stops # {}
        /\ LET stop == CHOOSE l \in stops : \A m \in stops : l <= m
           IN  Edge..stop \subseteq {e.layer : e \in events}

-----------------------------------------------------------------------------
(* verdict.Analyse over a flow's ordered events.                           *)

Allowed(ordered) == SelectInSeq(ordered, LAMBDA e : e.action = "allowed")
Blocked(ordered) ==
    SelectInSeq(ordered, LAMBDA e : e.action \in {"blocked", "challenge_failed"})

\* firstIndex of the layer of the event at i.
FirstOfLayer(ordered, i) ==
    SelectInSeq(ordered, LAMBDA e : e.layer = ordered[i].layer)

ScoreConflicts(ordered) ==
    {e \in ToSet(ordered) : e.action = "allowed" /\ e.suspicious}

\* Mutant: the block has to come before the allow.
BlockedAfterAllowSwapped(ordered) ==
    /\ Allowed(ordered) # 0
    /\ Blocked(ordered) # 0
    /\ FirstOfLayer(ordered, Blocked(ordered)) < FirstOfLayer(ordered, Allowed(ordered))

BlockedAfterAllow(ordered) ==
    /\ Allowed(ordered) # 0
    /\ Blocked(ordered) # 0
    /\ FirstOfLayer(ordered, Blocked(ordered)) > FirstOfLayer(ordered, Allowed(ordered))

Analyse(ordered) ==
    (IF ScoreConflicts(ordered) # {} THEN {"score_conflict"} ELSE {})
    \union (IF Allowed(ordered) # 0 /\ Blocked(ordered) # 0
            THEN {"layer_disagreement"} ELSE {})
    \union (IF BlockedAfterAllow(ordered) THEN {"blocked_after_allow"} ELSE {})
    \union (IF \E e \in ToSet(ordered) : ~e.mapped THEN {"unmapped_verdict"} ELSE {})
=============================================================================

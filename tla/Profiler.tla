----------------------------- MODULE Profiler -----------------------------
(***************************************************************************)
(* The traffic profiler: the worker of cmd/profilerd/main.go, the          *)
(* aggregator of internal/profile/aggregator.go, the profile_endpoint rows *)
(* of data/postgres/profilerepo.go and the SIEM_FLOWS consumer.            *)
(*                                                                         *)
(* One goroutine observes flows, writes what it has learned and then acks  *)
(* the messages.  An endpoint of the scope is named by its template, of    *)
(* which its id is a hash; what it has learned is the bag of the flows     *)
(* folded into it, in which every counter and ceiling of the code is       *)
(* monotonic.  A failed statement may have been carried out or not.        *)
(***************************************************************************)
EXTENDS PathTemplates

CONSTANTS
    Message,          \* the messages of SIEM_FLOWS
    FlowOf,           \* [Message -> flow id]: an amended flow is published again
    PathOf,           \* [Message -> Seq(Segment)]
    Garbled,          \* messages that do not decode
    MaxEndpoints,     \* Caps.EndpointsPerTenant and EndpointsPerHost
    MaxPendingFlows,  \* ProfilerConfig.MaxPendingFlows
    PolicyMayRefuse,  \* the tenant's policy may exclude a flow, or not be loaded
    MayCrash,         \* the process may die without a signal
    MaxFaults,        \* bound: failed statements, lost acks, slow deliveries and
                      \* flow ids that outlive seenTTL
    MaxBoots          \* bound: how often the process starts

FlowId == {FlowOf[m] : m \in Message}

ASSUME ProfilerAssumption ==
    /\ PathOf \in [Message -> Seq(Segment)]
    /\ Garbled \subseteq Message
    /\ {MaxEndpoints, MaxPendingFlows, MaxBoots} \subseteq Nat \ {0}
    /\ MaxFaults \in Nat
    /\ {PolicyMayRefuse, MayCrash} \subseteq BOOLEAN

VARIABLES
    engine,      \* Aggregator.engines of the scope
    endpoints,   \* Aggregator.endpoints: template -> bag of flow ids
    count,       \* Aggregator.tenantCount, hostCount
    dirty,       \* Aggregator.dirty
    retired,     \* Aggregator.retired
    seen,        \* Aggregator.seen
    pending,     \* worker.pending, a bag of messages
    flushing,    \* what Collect handed to flush: dirty and retired ids
    phase,       \* where the worker is
    stage,       \* "running", "stopping" (signalled), "closing" (loop left), "down"
    rows,        \* the table profile_endpoint: template -> bag of flow ids
    queue,       \* the messages SIEM_FLOWS can deliver
    acked        \* the messages it is done with

\* Bounds and observation variables.
VARIABLES
    learned,     \* how often each flow should be counted in endpoints
    refused,     \* messages that policy or decoding kept out
    capped,      \* flow ids that found no room
    wiped,       \* what left the table with the row of a live endpoint and is not
                 \* back, as pairs <<endpoint, flow id>>
    faults,
    boots

aggregator == <<engine, endpoints, count, dirty, retired, seen, learned, capped>>
worker     == <<pending, flushing, phase, stage>>
stream     == <<queue, acked, refused>>
table      == <<rows, wiped>>
profVars   == <<aggregator, worker, table, stream, faults, boots>>

Phases == {"loop", "batch", "collect", "upsert", "delete"}
NoWork == [dirty |-> {}, retired |-> {}]

Up == stage # "down"

\* The times that f was folded into a profile of a table: the i-th one into u.
Foldings(f, profiles) ==
    UNION {{u} \X (1..Copies(f, profiles[u])) : u \in DOMAIN profiles}

\* What the profiles of a table were folded from, and the flows among it.
Entries(profiles) ==
    UNION {{u} \X BagToSet(profiles[u]) : u \in DOMAIN profiles}
Flows(entries) == {x[2] : x \in entries}

\* How often each flow is counted in a table of profiles.
Evidence(profiles) == [f \in FlowId |-> Cardinality(Foldings(f, profiles))]

ProfInit ==
    /\ engine = EmptyEngine /\ endpoints = << >> /\ count = 0
    /\ dirty = {} /\ retired = {} /\ seen = {}
    /\ pending = EmptyBag /\ flushing = NoWork
    /\ phase = "loop" /\ stage = "running"
    /\ rows = << >> /\ wiped = {}
    /\ queue = Message /\ acked = {} /\ refused = {}
    /\ learned = Evidence(<< >>) /\ capped = {}
    /\ faults = 0 /\ boots = 1

Fault == faults < MaxFaults /\ faults' = faults + 1

-----------------------------------------------------------------------------
(* Aggregator.Observe *)

\* The endpoints whose template changes with a collapse, and where they move.
Target(e, u) == Renormalize(e, u)
MovedIds(e)  == {u \in DOMAIN endpoints : Target(e, u) # u}

\* Mutant: an endpoint that moves onto another replaces it.
MergedLast(e) ==
    [u \in {Target(e, w) : w \in DOMAIN endpoints} |->
        endpoints[CHOOSE w \in DOMAIN endpoints : Target(e, w) = u]]

\* The scope's endpoints after the move; those that meet are merged, one that no
\* other meets and that stays where it is is left alone.
SeenIn(f, met) == Cardinality(Foldings(f, [w \in met |-> endpoints[w]]))
Meeting(e, u) == {w \in DOMAIN endpoints : Target(e, w) = u}
Merged(e) ==
    [u \in {Target(e, w) : w \in DOMAIN endpoints} |->
        IF Meeting(e, u) = {u} THEN endpoints[u]
        ELSE [f \in UNION {BagToSet(endpoints[w]) : w \in Meeting(e, u)} |->
                SeenIn(f, Meeting(e, u))]]

\* How many of the moved endpoints met another one.
Absorbed(e) ==
    Cardinality(MovedIds(e))
        - Cardinality({Target(e, u) : u \in MovedIds(e)} \ DOMAIN endpoints)

\* The flow f is folded into the endpoint u, which is created if there is room.
\* after, size and touched are the endpoints, the count and the dirty ids that
\* renormalizeScope has left.
Fold(f, u, after, size, touched) ==
    IF u \notin DOMAIN after /\ size >= MaxEndpoints
    THEN /\ endpoints' = after
         /\ count' = size
         /\ dirty' = touched
         /\ capped' = capped \union {f}
         /\ UNCHANGED learned
    ELSE /\ endpoints' = [w \in {u} \union DOMAIN after |->
                            IF w # u THEN after[w]
                            ELSE IF w \in DOMAIN after THEN BagAdd(after[w], f)
                            ELSE SetToBag({f})]
         /\ count' = IF u \in DOMAIN after THEN size ELSE size + 1
         /\ dirty' = touched \union {u}
         /\ learned' = [learned EXCEPT ![f] = @ + 1]
         /\ UNCHANGED capped

Observe(f, path) ==
    \E r \in Normalize(engine, path) :
        /\ engine' = r.engine
        /\ IF r.collapsed
           THEN LET e == r.engine
                    moved == MovedIds(e)
                IN  /\ Fold(f, r.norm, Merged(e), count - Absorbed(e),
                            (dirty \ moved) \union {Target(e, u) : u \in moved})
                    /\ retired' = retired \union moved
           ELSE /\ Fold(f, r.norm, endpoints, count, dirty)
                /\ UNCHANGED retired

-----------------------------------------------------------------------------
(* worker.loop: receiving *)

\* Fetch returns up to 256 messages, and every one is observed before the loop
\* goes on.  A new batch starts only below twice the pending bound.
Receives(m) ==
    /\ m \in queue
    /\ \/ phase = "batch"
       \/ /\ phase = "loop" /\ stage = "running"
          /\ BagCardinality(pending) < 2 * MaxPendingFlows
    /\ queue' = queue \ {m}
    /\ phase' = "batch"

\* Mutant: a message that does not decode is left to be delivered again.
RefuseLeaves(m) ==
    /\ Receives(m)
    /\ m \in Garbled \/ PolicyMayRefuse
    /\ UNCHANGED <<aggregator, pending, flushing, stage, table, acked, refused, faults,
                   boots>>

\* A message that does not decode is terminated, one that policy excludes is acked.
Refuse(m) ==
    /\ Receives(m)
    /\ m \in Garbled \/ PolicyMayRefuse
    /\ acked' = acked \union {m}
    /\ refused' = refused \union {m}
    /\ UNCHANGED <<aggregator, pending, flushing, stage, table, faults, boots>>

\* A flow id that was observed less than seenTTL ago is not counted again; pruneSeen
\* forgets the older ones.
Learn(m) ==
    /\ Receives(m) /\ m \notin Garbled
    /\ IF FlowOf[m] \in seen
       THEN UNCHANGED <<aggregator, faults>>
       ELSE /\ Observe(FlowOf[m], PathOf[m])
            /\ \E kept \in SUBSET seen :
                  /\ seen' = kept \union {FlowOf[m]}
                  /\ IF kept = seen THEN UNCHANGED faults ELSE Fault
    /\ pending' = BagAdd(pending, m)
    /\ UNCHANGED <<flushing, stage, table, acked, refused, boots>>

EndBatch ==
    /\ phase = "batch"
    /\ phase' = IF BagCardinality(pending) >= MaxPendingFlows THEN "collect" ELSE "loop"
    /\ UNCHANGED <<aggregator, pending, flushing, stage, table, stream, faults, boots>>

-----------------------------------------------------------------------------
(* worker.flush *)

\* Mutant: a message that is being delivered again stays in the queue when acked.
AckPendingOnce ==
    \E lost \in SUBSET BagToSet(pending) :
        /\ \/ lost = {} /\ UNCHANGED faults
           \/ lost # {} /\ Fault
        /\ acked' = acked \union (BagToSet(pending) \ lost)
        /\ pending' = EmptyBag
        /\ phase' = "loop"
        /\ UNCHANGED <<queue, refused>>

\* The acks go out; some may not arrive.
AckPending ==
    \E lost \in SUBSET BagToSet(pending) :
        /\ \/ lost = {} /\ UNCHANGED faults
           \/ lost # {} /\ Fault
        /\ acked' = acked \union (BagToSet(pending) \ lost)
        /\ queue' = queue \ (BagToSet(pending) \ lost)
        /\ pending' = EmptyBag
        /\ phase' = "loop"
        /\ UNCHANGED refused

\* The ticker of the loop, which also fires while the signal waits.
FlushTick ==
    /\ phase = "loop" /\ stage \in {"running", "stopping"}
    /\ phase' = "collect"
    /\ UNCHANGED <<aggregator, pending, flushing, stage, table, stream, faults, boots>>

Collect ==
    /\ phase = "collect"
    /\ dirty' = {} /\ retired' = {}
    /\ flushing' = [dirty |-> dirty \intersect DOMAIN endpoints, retired |-> retired]
    /\ IF flushing' = NoWork
       THEN AckPending
       ELSE phase' = "upsert" /\ UNCHANGED <<pending, stream, faults>>
    /\ UNCHANGED <<engine, endpoints, count, seen, learned, capped, stage, table, boots>>

\* A flush of the loop fails once the loop's context is cancelled.
StatementFails == IF stage = "stopping" THEN UNCHANGED faults ELSE Fault

Upserted ==
    [u \in flushing.dirty \union DOMAIN rows |->
        IF u \in flushing.dirty THEN endpoints[u] ELSE rows[u]]
Remaining == [u \in DOMAIN rows \ flushing.retired |-> rows[u]]

\* The statement took effect, or it did not.
WriteRows ==
    /\ rows' = Upserted
    /\ wiped' = wiped \ Entries(rows')

\* A decision that is replaced by one of another type makes literals of the values
\* under it, so that a retired id may name an endpoint again when its row is deleted.
Revived == flushing.retired \intersect DOMAIN endpoints

DeleteRows ==
    /\ rows' = Remaining
    /\ wiped' = wiped \union {x \in Entries(rows) : x[1] \in Revived}

\* Mutant: the failed work is forgotten.
RequeueNothing(ids, gone) == UNCHANGED <<dirty, retired>>

Requeue(ids, gone) ==
    /\ dirty' = dirty \union (ids \intersect DOMAIN endpoints)
    /\ retired' = retired \union gone

UpsertEndpoints ==
    /\ phase = "upsert"
    /\ flushing.dirty = {} \/ stage # "stopping"
    /\ WriteRows
    /\ phase' = "delete"
    /\ UNCHANGED <<aggregator, pending, flushing, stage, stream, faults, boots>>

UpsertFails ==
    /\ phase = "upsert" /\ flushing.dirty # {}
    /\ StatementFails
    /\ WriteRows \/ UNCHANGED table
    /\ Requeue(flushing.dirty, flushing.retired)
    /\ flushing' = NoWork
    /\ phase' = "loop"
    /\ UNCHANGED <<engine, endpoints, count, seen, learned, capped, pending, stage,
                   stream, boots>>

DeleteEndpoints ==
    /\ phase = "delete"
    /\ flushing.retired = {} \/ stage # "stopping"
    /\ DeleteRows
    /\ flushing' = NoWork
    /\ AckPending
    /\ UNCHANGED <<aggregator, stage, boots>>

DeleteFails ==
    /\ phase = "delete" /\ flushing.retired # {}
    /\ StatementFails
    /\ DeleteRows \/ UNCHANGED table
    /\ Requeue({}, flushing.retired)
    /\ flushing' = NoWork
    /\ phase' = "loop"
    /\ UNCHANGED <<engine, endpoints, count, seen, learned, capped, pending, stage,
                   stream, boots>>

-----------------------------------------------------------------------------
(* run, and what the stream and the supervisor do *)

Signal ==
    /\ stage = "running" /\ boots < MaxBoots
    /\ stage' = "stopping"
    /\ UNCHANGED <<aggregator, pending, flushing, phase, table, stream, faults, boots>>

\* The loop returns, and run flushes once more with a context of its own.
LeaveLoop ==
    /\ stage = "stopping" /\ phase = "loop"
    /\ stage' = "closing" /\ phase' = "collect"
    /\ UNCHANGED <<aggregator, pending, flushing, table, stream, faults, boots>>

Gone ==
    /\ engine' = EmptyEngine /\ endpoints' = << >> /\ count' = 0
    /\ dirty' = {} /\ retired' = {} /\ seen' = {}
    /\ pending' = EmptyBag /\ flushing' = NoWork /\ phase' = "loop"
    /\ learned' = Evidence(<< >>)
    /\ stage' = "down"
    /\ UNCHANGED <<table, stream, capped, faults, boots>>

Exit  == stage = "closing" /\ phase = "loop" /\ Gone
Crash == Up /\ MayCrash /\ boots < MaxBoots /\ Gone

\* LoadAll and Aggregator.Load.
Boot ==
    /\ ~Up
    /\ boots' = boots + 1
    /\ stage' = "running"
    /\ endpoints' = rows
    /\ count' = Cardinality(DOMAIN rows)
    /\ engine' = Learned(DOMAIN rows)
    /\ learned' = Evidence(rows)
    /\ UNCHANGED <<dirty, retired, seen, capped, pending, flushing, phase, table,
                   stream, faults>>

\* AckWait ran out: the message was lost with a process or with its ack, or, slowly,
\* while the worker holds it.
Redeliver(m) ==
    /\ m \notin queue \union acked
    /\ BagIn(m, pending) => faults < MaxFaults
    /\ faults' = IF BagIn(m, pending) THEN faults + 1 ELSE faults
    /\ queue' = queue \union {m}
    /\ UNCHANGED <<aggregator, worker, table, acked, refused, boots>>

-----------------------------------------------------------------------------
Flush ==
    \/ Collect
    \/ UpsertEndpoints \/ UpsertFails
    \/ DeleteEndpoints \/ DeleteFails

Receive(m) == Refuse(m) \/ Learn(m)

ProfNext ==
    \/ \E m \in Message : Receive(m) \/ Redeliver(m)
    \/ EndBatch \/ FlushTick \/ Flush
    \/ Signal \/ LeaveLoop \/ Exit \/ Crash \/ Boot

ProfSpec == ProfInit /\ [][ProfNext]_profVars

\* The worker's goroutine runs, its ticker fires, and its select, which picks at
\* random, does not pass over the signal for ever; the consumer delivers while there
\* is a message that it can deliver; AckWait runs out; the process is started again
\* (systemd, restart: unless-stopped).
FairProfSpec ==
    /\ ProfSpec
    /\ SF_profVars(\E m \in Message : Receive(m))
    /\ WF_profVars(\E m \in Message : Redeliver(m))
    /\ WF_profVars(EndBatch) /\ SF_profVars(FlushTick) /\ WF_profVars(Flush)
    /\ SF_profVars(LeaveLoop) /\ WF_profVars(Exit) /\ WF_profVars(Boot)

-----------------------------------------------------------------------------
(* Properties *)

\* Every variable keeps its shape, and the ids that flush upserts are endpoints.
ProfTypeOK ==
    /\ DOMAIN endpoints \union DOMAIN rows \subseteq Seq(Segment \union ValueType)
    /\ \A u \in DOMAIN endpoints : BagToSet(endpoints[u]) \subseteq FlowId
    /\ \A u \in DOMAIN rows : BagToSet(rows[u]) \subseteq FlowId
    /\ count \in Nat
    /\ dirty \union flushing.dirty \subseteq DOMAIN endpoints
    /\ wiped \subseteq Seq(Segment \union ValueType) \X FlowId
    /\ seen \union capped \subseteq FlowId
    /\ BagToSet(pending) \union queue \union refused \subseteq Message
    /\ queue \intersect acked = {} /\ refused \subseteq acked
    /\ phase \in Phases
    /\ stage \in {"running", "stopping", "closing", "down"}
    /\ faults \in 0..MaxFaults /\ boots \in 1..MaxBoots

\* What was acked is in the table: no message is acked before the flush that covers it
\* has committed, whatever failed, merged, crashed or was delivered twice; nothing but
\* the deletion of a row whose id had come back takes it out again.
AckedIsCommitted ==
    \A m \in acked \ refused : FlowOf[m] \in capped \union Flows(Entries(rows) \union wiped)

\* The table follows the aggregator: a row that no flush has still to write is up to
\* date, or it is gone because it was deleted under the endpoint, and a row without
\* an endpoint has still to be deleted.
RowsFollowEndpoints ==
    Up =>
      /\ \A u \in DOMAIN endpoints \ (dirty \union IF phase = "upsert" THEN flushing.dirty
                                                  ELSE {}) :
            \/ u \in DOMAIN rows /\ rows[u] = endpoints[u]
            \/ u \notin DOMAIN rows /\ {u} \X BagToSet(endpoints[u]) \subseteq wiped
      /\ DOMAIN rows \subseteq DOMAIN endpoints \union retired \union flushing.retired

\* Merging the endpoints of a collapsed position neither loses nor doubles what they
\* have learned, and their number, on which the caps rest, stays right.
EvidenceConserved ==
    /\ Evidence(endpoints) = learned
    /\ count = Cardinality(DOMAIN endpoints)

\* After a collapse no endpoint is left under a literal that now belongs to the
\* parameter, in a process that started from an empty table.
TemplatesSettled ==
    boots = 1 => \A u \in DOMAIN endpoints : Renormalize(engine, u) = u

\* Every flow that was published is acked in the end: neither the pending bound, nor
\* failed flushes, nor restarts leave the worker waiting for ever.
EventuallyFlushed == <>(Message \subseteq acked)
=============================================================================

------------------------------ MODULE Pipeline ------------------------------
(***************************************************************************)
(* The correlation pipeline of logproc: internal/biz/flow/pipeline.go over *)
(* internal/correlate/window/window.go and the VictoriaLogs flow store.    *)
(*                                                                         *)
(* One goroutine feeds parsed events (accumulate); the goroutines of       *)
(* Flusher call Correlate and Flush.  Both take Pipeline.mu, but Flush     *)
(* releases it before it merges with the stored flows and writes them.     *)
(*                                                                         *)
(* Time is the age of each open window in clock ticks, counted only up to  *)
(* LateArrival: nothing in the code tells larger ages apart.  A critical   *)
(* section reads the clock once, so no tick falls inside one.              *)
(***************************************************************************)
EXTENDS Integers, Sequences, FiniteSets

CONSTANTS
    Event,          \* event ids
    Identifier,     \* "ns:value" strings, as numbers in their lexicographic order
    Tenant,
    Flusher,        \* the goroutines that call Correlate and Flush
    Ids,            \* [Event -> SUBSET Identifier]: schema.Event.Identifiers
    TenantOf,       \* [Event -> Tenant]
    LayerOf,        \* [Event -> 0..3]: schema.Layer.Order
    Terminating,    \* the events whose verdict ended the request
    TimeOf,         \* [Event -> Nat]: EventTime, by the provider's clock
    ExpectedLayers, \* window.Options.ExpectedLayers
    LateArrival,    \* window.Options.LateArrival, in ticks
    StoreChunk,     \* flows per bulk insert
    StoreMayFail,   \* the bulk insert may return an error
    LoadMayFail,    \* FlowRepo.Get may return an error
    MayForget       \* recentKeys may reach its limit and be pruned

NoKey == 0

ASSUME PipelineAssumption ==
    /\ Identifier \subseteq Nat \ {NoKey}
    /\ \A S \in SUBSET Identifier :
          S # {} => \E x \in S : \A y \in S : x <= y
    /\ Ids \in [Event -> SUBSET Identifier]
    /\ TenantOf \in [Event -> Tenant]
    /\ LayerOf \in [Event -> 0..3]
    /\ Terminating \subseteq Event
    /\ TimeOf \in [Event -> Nat]
    /\ ExpectedLayers \in Nat \ {0}
    /\ LateArrival \in Nat \ {0}
    /\ StoreChunk \in Nat \ {0}
    /\ {StoreMayFail, LoadMayFail, MayForget} \subseteq BOOLEAN

\* A window, and with it a flow, is named by one of its identifiers; a flow's
\* id is "flow:" followed by that key, so flows are named by keys here as well.
Key == Identifier

Window == [events : SUBSET Event, tenant : SUBSET Tenant, age : 0..LateArrival]
Flow   == [key : Key, tenant : SUBSET Tenant, events : SUBSET Event,
           bridged : BOOLEAN, amended : BOOLEAN]

\* The map entry that is not there.  A window's tenant is a set of at most one
\* tenant, so that the absent window has a value of the same kind.
NoWindow == [events |-> {}, tenant |-> {}, age |-> 0]

VARIABLES
    events,      \* Pipeline.events: parsed events not yet popped with a flow
    records,     \* Pipeline.records: events waiting for the next Correlate
    windows,     \* Window.states, NoWindow for a missing key
    idIndex,     \* Pipeline.idIndex, NoKey for a missing identifier
    keyIDs,      \* Pipeline.keyIDs, {} for a missing key
    bridged,     \* the keys with Pipeline.bridged set
    recentKeys,  \* the keys of Pipeline.recentKeys
    op,          \* where each flusher is: "idle", "correlate" or "store"
    popped,      \* each flusher's closed flows not yet looked up in the store
    chunk,       \* each flusher's flows collected for the next bulk insert
    store        \* the flow documents in VictoriaLogs, which only appends

\* Observation variables: no action of the code reads them.
VARIABLES
    accepted,    \* every event accumulate has ever taken
    latest,      \* the last document written for each key, {} before the first
    waited       \* how long each event has been in an open window, in ticks

memory == <<events, records, windows, idIndex, keyIDs, bridged>>
calls  == <<op, popped, chunk>>
vars   == <<events, records, windows, idIndex, keyIDs, bridged, recentKeys,
            op, popped, chunk, store, accepted, latest, waited>>

-----------------------------------------------------------------------------
Init ==
    /\ events = {}
    /\ records = << >>
    /\ windows = [k \in Key |-> NoWindow]
    /\ idIndex = [s \in Identifier |-> NoKey]
    /\ keyIDs = [k \in Key |-> {}]
    /\ bridged = {}
    /\ recentKeys = {}
    /\ op = [p \in Flusher |-> "idle"]
    /\ popped = [p \in Flusher |-> {}]
    /\ chunk = [p \in Flusher |-> {}]
    /\ store = {}
    /\ accepted = {}
    /\ latest = [k \in Key |-> {}]
    /\ waited = [e \in Event |-> 0]

\* Pipeline.mu: Correlate holds it from its first record to its last; every
\* other critical section is a single step.
MuFree == \A p \in Flusher : op[p] # "correlate"

Smallest(S) == CHOOSE x \in S : \A y \in S : x <= y
Oldest(ages) == {x \in ages : \A y \in ages : y <= x}

Queued  == {records[i] : i \in DOMAIN records}
Open    == {k \in Key : windows[k].events # {}}
Members == UNION {windows[k].events : k \in Key}

-----------------------------------------------------------------------------
\* Mutant: the redelivery of an event in memory is queued again.
AccumulateAgain(e) ==
    /\ MuFree
    /\ events' = events \union {e}
    /\ records' = Append(records, e)
    /\ accepted' = accepted \union {e}
    /\ UNCHANGED <<windows, idIndex, keyIDs, bridged, recentKeys, calls, store,
                   latest, waited>>

\* The end of ProcessBatch for one kept event.  An event that is still in
\* memory is a redelivery and is ignored.
Accumulate(e) ==
    /\ MuFree
    /\ events' = events \union {e}
    /\ records' = IF e \in events THEN records ELSE Append(records, e)
    /\ accepted' = accepted \union {e}
    /\ UNCHANGED <<windows, idIndex, keyIDs, bridged, recentKeys, calls, store,
                   latest, waited>>

BeginCorrelate(p) ==
    /\ op[p] = "idle"
    /\ MuFree
    /\ op' = [op EXCEPT ![p] = "correlate"]
    /\ UNCHANGED <<memory, recentKeys, popped, chunk, store, accepted, latest,
                   waited>>

\* Mutants: windows are found by their keys only; canonicalOf returns the zero
\* key it starts from; the windows e bridges are left apart; mergeKeyState leaves
\* the absorbed identifiers where they were.
ExistingByKey(e) == Ids[e] \intersect Open
KeyForUnset(e)   == IF \A s \in Ids[e] : idIndex[s] = NoKey
                    THEN Smallest(Ids[e]) ELSE NoKey
OthersNone(e)    == {}
MovedOwn(e)      == Ids[e]

\* The windows that e's identifiers already belong to, the window e goes to, and
\* those that are merged into it.
Existing(e) == {idIndex[s] : s \in Ids[e]} \ {NoKey}
KeyFor(e)   == IF Existing(e) = {} THEN Smallest(Ids[e]) ELSE Smallest(Existing(e))
Others(e)   == Existing(e) \ {KeyFor(e)}

\* The identifiers that Correlate and mergeKeyState point at e's window.
Moved(e) == Ids[e] \union UNION {keyIDs[k] : k \in Others(e)}

\* Mutant: the merged window keeps the FirstArrival of the window it merges into.
AbsorbYoung(dst, others, e) ==
    LET from == Open \intersect (others \union {dst})
    IN  {[events |-> {e} \union UNION {windows[k].events : k \in from},
          tenant |-> IF dst \in from THEN windows[dst].tenant ELSE {TenantOf[e]},
          age    |-> windows[dst].age]}

\* Window.Merge of every other window into dst, then Window.Add of e.  The
\* merged window keeps the earliest FirstArrival, which is the greatest age.
\* When dst itself is not open, the merge re-keys whichever window comes first.
Absorb(dst, others, e) ==
    LET from   == Open \intersect (others \union {dst})
        owners == IF dst \in from THEN {windows[dst].tenant}
                  ELSE IF from # {} THEN {windows[k].tenant : k \in from}
                  ELSE {{TenantOf[e]}}
        ages   == IF from = {} THEN {0} ELSE Oldest({windows[k].age : k \in from})
    IN  {[events |-> {e} \union UNION {windows[k].events : k \in from},
          tenant |-> t, age |-> a] : t \in owners, a \in ages}

\* One turn of Correlate's loop, with mergeKeyState for every absorbed window.
Attach(e) ==
    LET dst == KeyFor(e)
    IN  /\ \E w \in Absorb(dst, Others(e), e) :
              windows' = [k \in Key |-> IF k = dst THEN w
                                        ELSE IF k \in Others(e) THEN NoWindow
                                        ELSE windows[k]]
        /\ idIndex' = [s \in Identifier |-> IF s \in Moved(e) THEN dst ELSE idIndex[s]]
        /\ keyIDs' = [k \in Key |-> IF k = dst THEN keyIDs[k] \union Moved(e)
                                    ELSE IF k \in Others(e) THEN {}
                                    ELSE keyIDs[k]]
        /\ bridged' = (bridged \ Others(e)) \union
                      (IF \/ \E s, t \in Ids[e] : s # t
                          \/ Others(e) # {}
                       THEN {dst} ELSE {})

\* A record without identifiers is skipped, and so is one whose event has left
\* Pipeline.events.
CorrelateRecord(p) ==
    /\ op[p] = "correlate"
    /\ records # << >>
    /\ LET e == Head(records)
       IN  IF Ids[e] # {} /\ e \in events
           THEN Attach(e)
           ELSE UNCHANGED <<windows, idIndex, keyIDs, bridged>>
    /\ records' = Tail(records)
    /\ UNCHANGED <<events, recentKeys, calls, store, accepted, latest, waited>>

EndCorrelate(p) ==
    /\ op[p] = "correlate"
    /\ records = << >>
    /\ op' = [op EXCEPT ![p] = "idle"]
    /\ UNCHANGED <<memory, recentKeys, popped, chunk, store, accepted, latest,
                   waited>>

-----------------------------------------------------------------------------
HasAllLayers(w) ==
    Cardinality({LayerOf[e] : e \in w.events}) >= ExpectedLayers

\* The request was stopped, and every layer down to the shallowest one that
\* stopped it has reported.
TerminallyComplete(w) ==
    \E stop \in {LayerOf[e] : e \in w.events \intersect Terminating} :
        /\ \A e \in w.events \intersect Terminating : stop <= LayerOf[e]
        /\ \A o \in 0..stop : \E e \in w.events : LayerOf[e] = o

\* Mutant: a window that stays incomplete never closes.
ClosesEarlyOnly(w) == HasAllLayers(w) \/ TerminallyComplete(w)

Closes(w) ==
    \/ HasAllLayers(w)
    \/ TerminallyComplete(w)
    \/ w.age >= LateArrival

Ready == {k \in Open : Closes(windows[k])}

\* Mutant: only the windows' own keys leave idIndex.
ClosedKeys == Ready

\* The identifiers of the windows that close.
ClosedIds == UNION {keyIDs[k] : k \in Ready}

\* Materialize, as far as the store and the merge look at the flow.
Materialize(k) ==
    [key |-> k, tenant |-> windows[k].tenant, events |-> windows[k].events,
     bridged |-> k \in bridged, amended |-> FALSE]

\* The part of Flush under the lock.
FlushCollect(p) ==
    /\ op[p] = "idle"
    /\ MuFree
    /\ op' = [op EXCEPT ![p] = "store"]
    /\ popped' = [popped EXCEPT ![p] = {Materialize(k) : k \in Ready}]
    /\ windows' = [k \in Key |-> IF k \in Ready THEN NoWindow ELSE windows[k]]
    /\ events' = events \ UNION {windows[k].events : k \in Ready}
    /\ bridged' = bridged \ Ready
    /\ idIndex' = [s \in Identifier |->
                     IF s \in ClosedIds THEN NoKey ELSE idIndex[s]]
    /\ keyIDs' = [k \in Key |-> IF k \in Ready THEN {} ELSE keyIDs[k]]
    /\ waited' = [e \in Event |-> IF \E k \in Ready : e \in windows[k].events
                                  THEN 0 ELSE waited[e]]
    /\ UNCHANGED <<records, recentKeys, chunk, store, accepted, latest>>

\* FlowRepo.Get sorts a flow's documents by _time, newest first, and takes one.
\* A document's _time is FirstSeen, the earliest time of its events.
FirstSeen(d) == Smallest({TimeOf[e] : e \in d.events})
LoadedAnyFlow(k, t) == store    \* mutant: the query lost its flow_id filter
Loaded(k, t) ==
    LET versions == {d \in store : d.key = k /\ d.tenant = t}
    IN  {d \in versions : \A o \in versions : FirstSeen(o) <= FirstSeen(d)}

\* Mutant: the late events are not added.
MergeDropsLate(existing, late) == [existing EXCEPT !.amended = TRUE]

MergeWithStored(existing, late) ==
    IF late.events \subseteq existing.events THEN existing
    ELSE [existing EXCEPT !.events  = @ \union late.events,
                          !.bridged = @ \/ late.bridged,
                          !.amended = TRUE]

\* Flush's loop over the popped flows, in key order: a flow whose key was
\* stored recently is merged with what the store returns for it.
MergeNext(p) ==
    /\ op[p] = "store"
    /\ Cardinality(chunk[p]) < StoreChunk
    /\ \E f \in popped[p] :
          /\ \A g \in popped[p] : f.key <= g.key
          /\ \E g \in
               IF f.key \notin recentKeys THEN {f}
               ELSE {MergeWithStored(d, f) : d \in Loaded(f.key, f.tenant)} \union
                    (IF LoadMayFail \/ Loaded(f.key, f.tenant) = {} THEN {f} ELSE {}) :
                chunk' = [chunk EXCEPT ![p] = @ \union {g}]
          /\ popped' = [popped EXCEPT ![p] = @ \ {f}]
    /\ UNCHANGED <<memory, recentKeys, op, store, accepted, latest, waited>>

\* The documents D reach the store.
Write(D) ==
    /\ store' = store \union D
    /\ latest' = [k \in Key |-> IF \E d \in D : d.key = k
                                THEN {d \in D : d.key = k} ELSE latest[k]]

ChunkDue(p) ==
    /\ op[p] = "store"
    /\ Cardinality(chunk[p]) >= StoreChunk \/ popped[p] = {}

\* emit: the bulk insert, then the merge index.  Above its limit the index is
\* pruned of the keys past the merge horizon: here, of any keys but the new ones.
Emit(p) ==
    /\ ChunkDue(p)
    /\ Write(chunk[p])
    /\ \E kept \in IF MayForget THEN SUBSET recentKeys ELSE {recentKeys} :
          recentKeys' = kept \union {d.key : d \in chunk[p]}
    /\ chunk' = [chunk EXCEPT ![p] = {}]
    /\ op' = [op EXCEPT ![p] = IF popped[p] = {} THEN "idle" ELSE "store"]
    /\ UNCHANGED <<memory, popped, accepted, waited>>

\* The insert failed, perhaps after some or all of it was written.  Flush
\* returns the error and with it drops every flow it had popped.
EmitFails(p) ==
    /\ ChunkDue(p)
    /\ chunk[p] # {}
    /\ \E D \in SUBSET chunk[p] : Write(D)
    /\ chunk' = [chunk EXCEPT ![p] = {}]
    /\ popped' = [popped EXCEPT ![p] = {}]
    /\ op' = [op EXCEPT ![p] = "idle"]
    /\ UNCHANGED <<memory, recentKeys, accepted, waited>>

Older(n) == IF n < LateArrival THEN n + 1 ELSE n

Tick ==
    /\ MuFree
    /\ windows' = [k \in Key |-> IF k \in Open
                                 THEN [windows[k] EXCEPT !.age = Older(@)]
                                 ELSE windows[k]]
    /\ waited' = [e \in Event |-> IF e \in Members THEN Older(waited[e]) ELSE waited[e]]
    /\ UNCHANGED <<events, records, idIndex, keyIDs, bridged, recentKeys, calls,
                   store, accepted, latest>>

-----------------------------------------------------------------------------
Flush(p) ==
    \/ FlushCollect(p)
    \/ MergeNext(p)
    \/ Emit(p)
    \/ StoreMayFail /\ EmitFails(p)

Correlate(p) ==
    \/ BeginCorrelate(p)
    \/ CorrelateRecord(p)
    \/ EndCorrelate(p)

Next ==
    \/ \E e \in Event : Accumulate(e)
    \/ \E p \in Flusher : Correlate(p) \/ Flush(p)
    \/ Tick

Spec == Init /\ [][Next]_vars

-----------------------------------------------------------------------------
(* What Correlate and Flush promise, without keys and indexes: the open     *)
(* windows are groups of events that share identifiers.                     *)
Requests == INSTANCE RequestGroups WITH
                waiting <- Queued,
                groups  <- {windows[k].events : k \in Open}

-----------------------------------------------------------------------------
(* Properties *)

\* Every variable keeps its shape: the maps of pipeline.go and window.go hold
\* only known events, keys and identifiers.
TypeOK ==
    /\ events \subseteq Event
    /\ records \in Seq(Event)
    /\ windows \in [Key -> Window]
    /\ idIndex \in [Identifier -> Key \union {NoKey}]
    /\ keyIDs \in [Key -> SUBSET Identifier]
    /\ bridged \subseteq Key
    /\ recentKeys \subseteq Key
    /\ op \in [Flusher -> {"idle", "correlate", "store"}]
    /\ popped \in [Flusher -> SUBSET Flow]
    /\ chunk \in [Flusher -> SUBSET Flow]
    /\ store \subseteq Flow
    /\ accepted \subseteq Event
    /\ latest \in [Key -> SUBSET Flow]
    /\ waited \in [Event -> 0..LateArrival]

\* accumulate's deduplication: an event in memory is queued once or sits in one
\* open window, never both, and Pipeline.events knows it either way.
EventsHeldOnce ==
    /\ Queued \union Members \subseteq events
    /\ Queued \intersect Members = {}
    /\ \A i, j \in DOMAIN records : records[i] = records[j] => i = j
    /\ \A k, m \in Key : windows[k].events \intersect windows[m].events # {} => k = m

\* The two maps that Correlate, mergeKeyState and Flush maintain by hand agree
\* with each other and with the windows: an identifier is indexed exactly when an
\* open window has an event that carries it, and to that window.  A window's key
\* is one of its own identifiers.
IndexConsistent ==
    /\ \A s \in Identifier, k \in Key : s \in keyIDs[k] <=> idIndex[s] = k
    /\ \A k \in Key : keyIDs[k] = UNION {Ids[e] : e \in windows[k].events}
    /\ \A k \in Open : k \in keyIDs[k]

\* No request is split while its windows are open (FR-016): two events of open
\* windows that share an identifier are in the same window, and only there.
OneWindowPerRequest ==
    \A k, m \in Open : \A e \in windows[k].events, f \in windows[m].events :
        Ids[e] \intersect Ids[f] # {} => k = m

\* Correlate never mixes two requests in a window, however many merges built it:
\* the window cannot be cut in two parts that share no identifier.
WindowsAreRequests == \A k \in Key : Requests!Whole(windows[k].events)

\* Neither do Flush and mergeWithStored, which trust the key alone: every stored
\* document is about one request.
DocumentsAreRequests == \A d \in store : Requests!Whole(d.events)

\* The keyed windows, the two indexes and the merges implement the plain grouping
\* of RequestGroups, step by step.
ImplementsRequestGroups == Requests!Spec

\* Identifiers that name requests of one tenant only.
TenantsDisjoint ==
    \A e, f \in Event : Ids[e] \intersect Ids[f] # {} => TenantOf[e] = TenantOf[f]

\* A window takes its tenant from its first event, and Flush stores under it
\* whatever the window collected: no document holds another tenant's event, as
\* long as no identifier is shared between tenants.
TenantIsolation ==
    TenantsDisjoint =>
        \A d \in store : d.tenant = {TenantOf[e] : e \in d.events}

\* The events that a flow document, or a flow on its way there, still holds.
Stored   == UNION {d.events : d \in store}
InFlight == UNION {f.events : f \in UNION {popped[p] \union chunk[p] : p \in Flusher}}

\* Between accumulate and the store, across Correlate, Merge, Ready, the chunks
\* and the merge with a stored flow, no event with an identifier is dropped.
AcceptedIsKept ==
    \A e \in accepted :
        Ids[e] # {} => e \in Queued \union Members \union InFlight \union Stored

\* Merging never postpones a close (FR-019): a window is at least as old as the
\* time its longest waiting event has spent in any window.
AgeCoversWait ==
    \A k \in Key : \A e \in windows[k].events : waited[e] <= windows[k].age

-----------------------------------------------------------------------------
(* What the repository says of the program and the code does not do.       *)

\* query.go:220: the query that feeds the merge returns the newest version, since
\* "a merge against a stale copy silently drops events".
CurrentVersionGrows ==
    [][\A k \in Key : \A old \in latest[k], new \in latest'[k] :
         old.events \subseteq new.events]_vars
=============================================================================

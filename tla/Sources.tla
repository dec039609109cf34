-------------------------------- MODULE Sources --------------------------------
(***************************************************************************)
(* How records come in and how the system notices that they do not: a feed *)
(* and its token, the cached credentials and filters of logproc, the       *)
(* receivers, the DataDome puller, SIEM_RAW, the consumer, and the health  *)
(* registry with its silence loop.                                         *)
(*                                                                         *)
(* One tenant has one push feed and one pulled source.  Time passes in     *)
(* ticks that are longer than JetStream's window for duplicates.  What     *)
(* becomes of a consumed record is LogProc's subject.  SIEM_RAW's limits   *)
(* of age and bytes, which discard its oldest messages, are left out.      *)
(***************************************************************************)
EXTENDS Receivers

CONSTANTS
    Provider,    \* providers a feed may be created for
    Bodies,      \* the bodies that the feed's sender has to deliver, in order
    RuleSets,    \* the sets of ingest filters the tenant may save
    Exported,    \* the times at which DataDome logged a record
    Cadence,     \* ExpectedCadence
    PullWindow,  \* DataDomePuller.Window
    ChunkLimit,  \* records in a message
    MaxTime,     \* bound of now
    MaxSecret,   \* bound on the tokens issued
    MaxFaults    \* bound on failing calls, restarts and switches of the feed

ASSUME SourcesAssumption ==
    /\ {Cadence, PullWindow, ChunkLimit, MaxTime, MaxSecret} \subseteq Nat \ {0}
    /\ MaxFaults \in Nat
    /\ Exported \subseteq Nat \ {0}
    /\ Bodies \in Seq(ToSet(Bodies))
    /\ \A b \in DOMAIN Bodies :
          LET lines == Bodies[b].lines
          IN  lines \in Seq(ToSet(lines)) /\ (Bodies[b].kind # "lines" => lines = <<>>)

Push == "feed"
Pull == "dd-1"
Source == {Push, Pull}

NoFeed == [provider |-> "none", enabled |-> FALSE, secret |-> 0]
Unregistered == [state |-> "unregistered", lastRecordAt |-> 0]
Awaiting == [state |-> "awaiting", lastRecordAt |-> 0]

VARIABLES
    feed,          \* the row of table feed
    sourceRow,     \* the rows of table log_source
    byID, loaded,  \* feedauth.Store
    stream,        \* the messages of SIEM_RAW
    consumed,      \* how many of them logproc has processed
    rules,         \* tenant.ingest_filters
    sets,          \* filterCache.sets
    registry,      \* Registry.sources
    watermark      \* the puller's; 0 before the first
VARIABLES
    sender,        \* the feed's sender: its token, the next body (external)
    issued,        \* the last token the operator was shown (external)
    now,
    faults

\* Observation variables.
VARIABLES answered,   \* the bodies answered with 200, and by which receiver
          ingested,   \* the records handed to the pipeline
          everRules,  \* every rule the tenant has saved
          arrivedAt,  \* when each source last really delivered
          pulledFrom  \* where the puller started

feedVars   == <<feed, sourceRow, byID, loaded, issued>>
filterVars == <<rules, sets, everRules>>
bufferVars == <<stream, consumed, ingested>>
sendVars   == <<sender, answered>>
pullVars   == <<watermark, pulledFrom>>
healthVars == <<registry, arrivedAt>>
vars == <<feedVars, filterVars, bufferVars, sendVars, pullVars, healthVars, now, faults>>

Init ==
    /\ feed = NoFeed
    /\ sourceRow = [s \in Source |-> IF s = Pull THEN Awaiting ELSE Unregistered]
    /\ byID = NoFeed
    /\ loaded = FALSE
    /\ stream = <<>>
    /\ consumed = 0
    /\ rules = {}
    /\ sets = {}
    /\ registry = [s \in Source |-> IF s = Pull THEN Awaiting ELSE Unregistered]
    /\ watermark = 0
    /\ sender = [token |-> 0, next |-> 1]
    /\ issued = 0
    /\ now = 1
    /\ faults = 0
    /\ answered = {}
    /\ ingested = {}
    /\ everRules = {}
    /\ arrivedAt = [s \in Source |-> 0]
    /\ pulledFrom = 0

Fault == faults < MaxFaults /\ faults' = faults + 1

-----------------------------------------------------------------------------
(* The feed's life (service/feedsvc.go over postgres/feedrepo.go).         *)

\* Create answers with the token after both inserts; if the second one fails
\* the feed is there and nobody has seen its token.
Create(provider) ==
    /\ feed = NoFeed
    /\ feed' = [provider |-> provider, enabled |-> TRUE, secret |-> 1]
    /\ \/ /\ sourceRow' = [sourceRow EXCEPT ![Push] = Awaiting]
          /\ issued' = 1
          /\ UNCHANGED faults
       \/ /\ Fault
          /\ UNCHANGED <<sourceRow, issued>>
    /\ UNCHANGED <<byID, loaded, filterVars, bufferVars, sendVars, pullVars, healthVars, now>>

SetEnabled(enabled) ==
    /\ feed # NoFeed
    /\ feed.enabled # enabled
    /\ Fault
    /\ feed' = [feed EXCEPT !.enabled = enabled]
    /\ UNCHANGED <<sourceRow, byID, loaded, issued, filterVars, bufferVars, sendVars,
                   pullVars, healthVars, now>>

RotateToken ==
    /\ feed # NoFeed
    /\ feed.secret < MaxSecret
    /\ feed' = [feed EXCEPT !.secret = @ + 1]
    /\ issued' = feed.secret + 1
    /\ UNCHANGED <<sourceRow, byID, loaded, filterVars, bufferVars, sendVars, pullVars,
                   healthVars, now, faults>>

\* The operator configures the sender with the token last shown.
Configure ==
    /\ sender.token # issued
    /\ sender' = [sender EXCEPT !.token = issued]
    /\ UNCHANGED <<feedVars, filterVars, bufferVars, answered, pullVars, healthVars, now,
                   faults>>

\* Store.Refresh; one that fails changes nothing.
Refresh ==
    /\ byID' = IF feed.enabled THEN feed ELSE NoFeed
    /\ loaded' = TRUE
    /\ UNCHANGED <<feed, sourceRow, issued, filterVars, bufferVars, sendVars, pullVars,
                   healthVars, now, faults>>

-----------------------------------------------------------------------------
(* The filters (service/filtersvc.go, filterCache).                        *)

SetFilters(set) ==
    /\ set # rules
    /\ Compile(set) = set
    /\ rules' = set
    /\ everRules' = everRules \union set
    /\ UNCHANGED <<feedVars, sets, bufferVars, sendVars, pullVars, healthVars, now, faults>>

RefreshFilters ==
    /\ sets' = Compile(rules)
    /\ UNCHANGED <<feedVars, rules, everRules, bufferVars, sendVars, pullVars, healthVars,
                   now, faults>>

-----------------------------------------------------------------------------
(* The health registry.                                                    *)

RegisterSource(r, s) ==
    IF r[s] = Unregistered THEN [r EXCEPT ![s] = Awaiting] ELSE r

RecordDelivery(r, s, at) ==
    IF r[s] = Unregistered THEN r
    ELSE [r EXCEPT ![s] = [state |-> "healthy", lastRecordAt |-> at]]

\* Mutant: a source that has never delivered is silent.
EvaluateSilenceOfAll(r) ==
    [s \in Source |->
        IF r[s] # Unregistered /\ now - r[s].lastRecordAt > Cadence
        THEN [r[s] EXCEPT !.state = "silent"] ELSE r[s]]

EvaluateSilence(r) ==
    [s \in Source |->
        CASE r[s] = Unregistered -> Unregistered
          [] r[s] # Unregistered /\ r[s].lastRecordAt = 0 -> Awaiting
          [] r[s].lastRecordAt # 0 /\ now - r[s].lastRecordAt > Cadence ->
                [r[s] EXCEPT !.state = "silent"]
          [] OTHER -> r[s]]

\* UpdateHealth; a NULL time keeps the one in the row, a missing row stays so.
UpdateHealth(row, observed) ==
    IF row = Unregistered \/ observed = Unregistered THEN row
    ELSE [state |-> observed.state,
          lastRecordAt |-> IF observed.lastRecordAt = 0 THEN row.lastRecordAt
                           ELSE observed.lastRecordAt]

\* One round of silenceLoop: evaluate, then bring the rows up to date.
SilenceLoop ==
    /\ registry' = EvaluateSilence(registry)
    /\ sourceRow' = [s \in Source |-> UpdateHealth(sourceRow[s], registry'[s])]
    /\ UNCHANGED <<feed, byID, loaded, issued, filterVars, bufferVars, sendVars, pullVars,
                   arrivedAt, now, faults>>

-----------------------------------------------------------------------------
(* A delivery (feedauth.Handler, the receivers, Buffer.Append).            *)

\* Store.Check of the sender's token.
Check ==
    CASE ~loaded -> "unavailable"
      [] loaded /\ byID # NoFeed /\ byID.secret = sender.token -> "allowed"
      [] OTHER -> "denied"

\* JetStream takes a message id once in its window for duplicates.
Taken(id) == \E i \in DOMAIN stream : stream[i].id = id /\ stream[i].at = now

\* Append published the first n chunks of a batch.  It stops at the first that
\* fails, so what an earlier attempt left is a prefix, and that is not appended
\* again.
AppendChunks(source, batchId, chunks, n) ==
    LET Message(c) == [id |-> <<batchId, c>>, source |-> source, at |-> now,
                       records |-> chunks[c]]
        taken == CHOOSE k \in 0..n : \A c \in 1..n : Taken(<<batchId, c>>) <=> c <= k
    IN  stream \o [i \in 1..n - taken |-> Message(taken + i)]

\* Mutant: the receiver answers before it has appended.
AckedFirst(n, chunks) == 200

\* 200 after every chunk, 503 after the first that fails.
AppendStatus(n, chunks) == IF n = Len(chunks) THEN 200 ELSE 503

\* A 5xx is sent again; a 4xx is given up, as mux.go has it.
SenderSees(status) ==
    /\ sender' = IF status = 503 THEN sender ELSE [sender EXCEPT !.next = @ + 1]
    /\ answered' = IF status = 200
                   THEN answered \union {[body |-> sender.next, provider |-> byID.provider]}
                   ELSE answered

Refuse ==
    /\ sender.next <= Len(Bodies)
    /\ sender.token # 0
    /\ Check # "allowed"
    /\ SenderSees(IF Check = "unavailable" THEN 503 ELSE 401)
    /\ UNCHANGED <<feedVars, filterVars, bufferVars, pullVars, healthVars, now, faults>>

\* OnAccepted comes first, so a delivery counts as arrived whatever becomes of
\* it.  A fault publishes some chunks, or all of them with the answer lost; a chunk
\* that the server refuses ends every attempt at the same place.
Deliver ==
    /\ sender.next <= Len(Bodies)
    /\ sender.token # 0
    /\ Check = "allowed"
    /\ registry' = RecordDelivery(RegisterSource(registry, Push), Push, now)
    /\ arrivedAt' = [arrivedAt EXCEPT ![Push] = now]
    /\ LET answer == Receive(byID.provider, Bodies[sender.next])
           chunks == SplitBatch(answer.records, ChunkLimit)
       IN  \/ /\ Publishable(chunks) = Len(chunks)
              /\ stream' = AppendChunks(Push, <<sender.next>>, chunks, Len(chunks))
              /\ SenderSees(answer.status)
              /\ UNCHANGED faults
           \/ \E n \in 0..Len(chunks) - 1 :
                 /\ \/ n <= Publishable(chunks) /\ Fault
                    \/ n = Publishable(chunks) /\ UNCHANGED faults
                 /\ stream' = AppendChunks(Push, <<sender.next>>, chunks, n)
                 /\ SenderSees(AppendStatus(n, chunks))
           \/ /\ chunks # <<>>
              /\ Publishable(chunks) = Len(chunks)
              /\ Fault
              /\ stream' = AppendChunks(Push, <<sender.next>>, chunks, Len(chunks))
              /\ UNCHANGED <<sender, answered>>
    /\ UNCHANGED <<feedVars, filterVars, consumed, ingested, pullVars, now>>

-----------------------------------------------------------------------------
(* DataDomePuller.Poll; a fetch that fails changes nothing.                *)

From == IF watermark = 0 THEN now - PullWindow ELSE watermark
To   == IF From + PullWindow > now THEN now ELSE From + PullWindow

\* What the export answers for a window, in whatever order.
Fetched(from, to) == SetToSeq({t \in Exported : from <= t /\ t < to})
PulledRecords(from, to) ==
    LET items == Fetched(from, to)
    IN  [i \in DOMAIN items |-> [record |-> items[i], host |-> "", size |-> "fits"]]

\* Mutant: the watermark moves although the batch was not buffered.
Skip(n, chunks) == To
\* Where the watermark stands after Append published n of the chunks.
Advance(n, chunks) == IF n = Len(chunks) THEN To ELSE watermark

\* A fault is an Append that fails, or a Set that fails after it.
Poll ==
    /\ To > From
    /\ LET chunks == SplitBatch(PulledRecords(From, To), ChunkLimit)
       IN  \/ /\ stream' = AppendChunks(Pull, <<From, To>>, chunks, Len(chunks))
              /\ watermark' = Advance(Len(chunks), chunks)
              /\ UNCHANGED faults
           \/ /\ Fault
              /\ \E n \in 0..Len(chunks) :
                    /\ stream' = AppendChunks(Pull, <<From, To>>, chunks, n)
                    /\ watermark' = IF n = Len(chunks) THEN watermark
                                    ELSE Advance(n, chunks)
    /\ arrivedAt' = IF Fetched(From, To) = <<>> THEN arrivedAt
                    ELSE [arrivedAt EXCEPT ![Pull] = now]
    /\ pulledFrom' = IF pulledFrom = 0 \/ watermark = 0 THEN From ELSE pulledFrom
    /\ UNCHANGED <<feedVars, filterVars, consumed, ingested, sendVars, registry, now>>

-----------------------------------------------------------------------------
\* Mutant: the time of processing.
ProcessedAt(m) == now
\* The time of a batch as consume reports it: batch.ReceivedAt.
ReportedAt(m) == m.at

\* consume: ProcessBatch drops what the tenant's filters match, hands the rest
\* on, and the batch counts as a delivery of its source.
Consume ==
    /\ consumed < Len(stream)
    /\ LET m == stream[consumed + 1]
       IN  /\ ingested' = ingested \union
                  {r \in {m.records[i] : i \in DOMAIN m.records} : ~Drops(sets, r)}
           /\ registry' = RecordDelivery(registry, m.source, ReportedAt(m))
    /\ consumed' = consumed + 1
    /\ UNCHANGED <<feedVars, filterVars, stream, sendVars, pullVars, arrivedAt, now, faults>>

Tick ==
    /\ now < MaxTime
    /\ now' = now + 1
    /\ UNCHANGED <<feedVars, filterVars, bufferVars, sendVars, pullVars, healthVars, faults>>

\* logproc starts again: its caches and its registry are empty.
Restart ==
    /\ Fault
    /\ byID' = NoFeed
    /\ loaded' = FALSE
    /\ sets' = {}
    /\ registry' = [s \in Source |-> IF s = Pull THEN Awaiting ELSE Unregistered]
    /\ UNCHANGED <<feed, sourceRow, issued, rules, everRules, bufferVars, sendVars, pullVars,
                   arrivedAt, now>>

Next ==
    \/ \E p \in Provider : Create(p)
    \/ \E enabled \in BOOLEAN : SetEnabled(enabled)
    \/ RotateToken
    \/ Configure
    \/ Refresh
    \/ \E set \in RuleSets : SetFilters(set)
    \/ RefreshFilters
    \/ SilenceLoop
    \/ Refuse
    \/ Deliver
    \/ Poll
    \/ Consume
    \/ Tick
    \/ Restart

Spec == Init /\ [][Next]_vars

-----------------------------------------------------------------------------
Health ==
    [state : {"unregistered", "awaiting", "healthy", "silent"}, lastRecordAt : 0..MaxTime]
FeedRows == [provider : Provider \union {"none"}, enabled : BOOLEAN, secret : 0..MaxSecret]

\* Type invariant.  A registered source is awaiting exactly as long as it has not
\* delivered (StateAwaiting is not StateSilent).
SourcesTypeOK ==
    /\ feed \in FeedRows /\ byID \in FeedRows /\ loaded \in BOOLEAN
    /\ sourceRow \in [Source -> Health] /\ registry \in [Source -> Health]
    /\ \A s \in Source :
          registry[s].lastRecordAt = 0 <=> registry[s].state \in {"unregistered", "awaiting"}
    /\ consumed \in 0..Len(stream)
    /\ \A i \in DOMAIN stream : Len(stream[i].records) \in 1..ChunkLimit
    /\ rules \in RuleSets \union {{}} /\ sets \in RuleSets \union {{}}
    /\ watermark \in 0..MaxTime /\ now \in 1..MaxTime /\ faults \in 0..MaxFaults
    /\ sender \in [token : 0..MaxSecret, next : 1..Len(Bodies) + 1]

InStream(r) == \E i \in consumed + 1..Len(stream) : r \in ToSet(stream[i].records)

\* FR-005, FR-006: a record of a body that was answered with 200 is still in the
\* stream, was handed to the pipeline, or matches a filter the tenant saved;
\* whatever failed, was retried, cached or restarted meanwhile.  The exception
\* is what Vector sends from an oversized line on.
AnsweredIsKept ==
    \A a \in answered :
        LET read == Scanned(Bodies[a.body].lines)
        IN  /\ a.provider = "cloudflare" => read = Bodies[a.body].lines
            /\ \A r \in ToSet(Records(read)) :
                  InStream(r) \/ r \in ingested \/ Drops(everRules, r)

\* datadome.go: what DataDome logged before the watermark, and since the puller
\* started, is in the stream or was handed on: no failure skips a window.
WatermarkBehindBuffer ==
    \A t \in Exported :
        pulledFrom <= t /\ t < watermark =>
            \E r \in ingested \union UNION {ToSet(stream[i].records) : i \in DOMAIN stream} :
                r.record = t

\* FR-070: after a round of the silence loop no source is healthy that has not
\* delivered within its cadence, however late its batches are consumed.
SilenceIsSeen ==
    [][SilenceLoop =>
          \A s \in Source :
              registry'[s].state = "healthy" => now - arrivedAt[s] <= Cadence]_vars

\* main.go: a consumer that lags does not make a delivering source look silent.
LagIsNotSilence ==
    registry[Push].state = "silent" => now - arrivedAt[Push] > Cadence
=============================================================================

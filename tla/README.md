# siem-v2: models and proofs

TLA+ models of the WAF SIEM in `src/`, checked with TLC and proved with TLAPS.
Paths below are relative to `src/backend/` unless they start with `src/`.

1. [The system](#1-the-system)
2. [Modules and how they correspond to the code](#2-modules-and-how-they-correspond-to-the-code)
3. [The runs](#3-the-runs)
4. [Fairness](#4-fairness)
5. [What is proved](#5-what-is-proved)
6. [What the code does not keep](#6-what-the-code-does-not-keep)
7. [Not modelled, and the plan](#7-not-modelled-and-the-plan)

## 1. The system

Log records of one HTTP request reach the system from several providers
(Cloudflare, DataDome, F5 ASM, nginx), at different times and more than once.
`logproc` joins them into one *flow* per request and stores it; `profilerd` learns
from the stored flows what the traffic of a host looks like; `apiserver` serves
the user interface; `retentiond` expires what is old.

    receivers, puller --Append--> SIEM_RAW --Consume--> logproc --insert--> VictoriaLogs
                                 (JetStream)              |  ^                  |
                                              snapshot    v  |  boot            | Get, to merge
                                                       Valkey  <----------------'
    logproc --OnFlow--> SIEM_FLOWS --Fetch--> profilerd --upsert, delete--> PostgreSQL

| Component | State | Operations | What is hard | What makes it correct |
|---|---|---|---|---|
| Correlation pipeline, `biz/flow/pipeline.go`, `correlate/window` | records, events, windows, `idIndex`, `keyIDs`, `bridged`, `recentKeys` | `ProcessBatch`, `Correlate`, `Flush`, `Snapshot`, `Restore` | records that bridge windows, redelivery, two flushers, the lock released during I/O | no request is split or mixed, nothing accepted is dropped, a late record amends |
| Flow store, `data/victorialogs` | documents, append only | `StoreFlows`, `Get` | partial inserts, which version is the newest | documents are about one request and one tenant |
| `cmd/logproc` | goroutines, shutdown stage | consume, flush loop, shutdown, boot | redelivery, crash and graceful restart in every interleaving | what was acked survives a restart; every record is stored in the end |
| SIEM_RAW, `data/jetstream/buffer.go` | messages, delivered, acked | `Append`, `Consume` | poison messages, lost acks, fetch errors | a message is in one state |
| Correlation state, `data/valkey/correlation.go` | one snapshot | `Save`, `Load`, `Clear` | failing calls, replay of an old snapshot | the saved parts belong together |
| `cmd/profilerd` | pending messages | observe, flush, ack | commit and ack apart, failed flushes, crash | acked is committed; every flow is acked in the end |
| Aggregator, `profile/aggregator.go` | endpoints, dirty and retired ids, dedupe set, counters | `Observe`, `Collect`, `Requeue`, `Load` | endpoints that merge when a template collapses | nothing is lost or doubled, the table follows |
| Template engine, `profile/template.go` | collapses, statistics per position | `Normalize`, `Renormalize`, `LearnTemplate` | re-keying of deeper positions, map order | a settled template stays settled |
| Type lattice, `profile/types.go` | none | `Join`, `Matches` | an order that must not matter | `Join` is a least upper bound |
| Parsers and masker, `normalize/` | none | `Parse`, `ApplyTimeQuality`, `Masker.Apply` | two shapes of one provider, answers spread over several fields, clocks | an unknown word is never a guess, no credential stays readable |
| Flow as read off its events, `biz/flow/materialize.go`, `correlate/order.go`, `biz/verdict` | none | order, outcome, coverage, early close, conflicts | skewed clocks, late records, caches, blocks of the response | the flow is blamed on the layer that stopped the request, its gaps are real, order of arrival does not matter |
| Grouping library and Amender, `correlate/group`, `biz/flow/amend.go` | union-find | group, amend | chains of identifiers, ambiguous clusters | components of the shared-identifier graph, no guess (used by tests only) |
| Receivers, feeds, filters, puller (which no command constructs), `ingest/`, `service/feedsvc.go` | feed rows, cached feeds and filters, watermark | deliver, refresh, poll, administer | partly appended batches, resent bodies, records the server never takes, stale caches, a crash between append and watermark | what was answered with 200 is kept, the watermark skips nothing |
| Source health, `observability/health.go`, the silence loop of `cmd/logproc` | last delivery and state per source, rows of `log_source` | record, evaluate, sync | two reporters, a consumer that lags | a silent source is noticed, a delivering one is not called silent |
| Sessions, `auth/`, `service/authsvc.go` | principals, tokens, revocations | login, second factor, refresh, logout | handlers of several statements side by side | a revoked token opens no session, a request goes by the account as it is |
| Invites, users and the start, `service/invitesvc.go`, `usersvc.go`, `bootstrap.go`, `seedDev` | invites, principals | issue, redeem, update, seed, bootstrap | check and then act, a failure half-way | a link sets one password |
| Retention, `biz/retention`, `cmd/retentiond` | partitions, archive, holds, raw records, windows | apply, hold, release, raw pass | what was read at the start is stale, calls fail half-way, a bucket that cannot protect | held data is not deleted, evidence is recorded for protected copies only |
| Alerting, `alerting/` | suppression windows, delivery states | fire, dispatch | window edges, failing destinations | an alert is not lost |

The hazards of each part, with the line where each bites and the properties that would
notice, are listed in `PROJECT.json`.

## 2. Modules and how they correspond to the code

| Module | Extends | Models |
|---|---|---|
| `RequestGroups` | | what correlation promises: events that share identifiers form one group, and a group closes as a whole |
| `Pipeline` | | `flow.Pipeline` over `window.Window` and the flow store |
| `LogProc` | `Pipeline` | the process around it: consumer, flush loop, shutdown, snapshot, boot |
| `TypeLattice` | | `profile/types.go` |
| `PathTemplates` | `TypeLattice` | the template engine, as operators |
| `Profiler` | `PathTemplates` | worker, aggregator, rows, SIEM_FLOWS |
| `Providers` | | what the providers write and the parsers and the masker make of it, as operators |
| `Grouping` | | `group.Exact` with its union-find, `group.Heuristic` |
| `FlowVerdict` | `Providers` | order, `Materialize`, early close, `Amend`, `Analyse` |
| `Journey` | `FlowVerdict`, `Grouping` | one request through the layers, its records, and the flow made of them |
| `Receivers` | | the push receivers, `splitBatch` and the filters, as operators |
| `Sources` | `Receivers` | feeds, caches, deliveries, puller, SIEM_RAW, consumer, health registry |
| `Access` | | accounts, links, logins, tokens, guarded requests |
| `Retention` | | retention runs, holds, archive bucket, raw windows |
| `MCPipeline`, `MCLogProc`, `MCProfiler`, `MCJourney`, `MCSources`, `MCAccess`, `MCRetention` | each its module | small instances for TLC |
| `RequestGroups_proofs`, `Pipeline_proofs`, `LogProc_proofs`, `Profiler_proofs`, `Journey_proofs`, `Sources_proofs`, `Retention_proofs`, `Access_proofs` | each its module | theorems |

Definitions keep the names of the code. A definition whose comment begins with
*Mutant* is a plausible bug; no specification uses it.

### Pipeline

| Variable | Code |
|---|---|
| `events`, `records`, `idIndex`, `keyIDs`, `bridged`, `recentKeys` | the fields of `Pipeline` |
| `windows` | `Window.states`; a missing entry is `NoWindow` |
| `op`, `popped`, `chunk` | where each caller of `Correlate` and `Flush` is, and the locals of `Flush` |
| `store` | the documents in VictoriaLogs: an insert adds, nothing is replaced |
| `accepted`, `latest`, `waited` | observation only |

`accumulate`, `Correlate` and the first half of `Flush` run under `Pipeline.mu`;
`Correlate` is one action per record, between `BeginCorrelate` and `EndCorrelate`,
which hold the lock. `Flush` leaves the lock after `FlushCollect`, and each lookup in
the store (`MergeNext`) and each bulk insert (`Emit`, `EmitFails`) is a step of its
own that anything may come between. Abstractions:

- An identifier is a number and stands for `"ns:value"`; only their order counts,
  since `Canonical` takes the smallest. A flow is named by its key.
- Go's map order in `Ready` and in the merge of several windows is a choice in
  `Absorb`; `Flush` sorts the keys, and so does `MergeNext`.
- Time is the age of a window in ticks up to `LateArrival`. `TimeOf` is the provider's
  clock, which only the stored document's `_time` depends on.
- A window's own identifiers (`State.Identifiers`) are read from `keyIDs`.
- `mergeWithStored` keeps events, key, tenant, `bridged` and `amended`.

### LogProc

The three goroutines of `run` share `Pipeline`'s variables. `stage` follows `run` from
the signal through the final `Flush`, `IdentifierIndex`, `Snapshot` (with its
`Correlate`), `Save` and the exit. `Gone` forgets everything the process held, and
`Boot` restores what the snapshot has, or starts empty when `Load` fails; the windows
have aged by the downtime. Simplifications: a message holds one record;
redeliveries come at the end of the queue; encoding the snapshot and sending it is
one step; the flow publisher is not part of it, and the silence loop is in `Sources`.

### PathTemplates and Profiler

A path is the sequence of its segments and a template a path with some segments
replaced by a type. Operators that depend on Go's map order return the set of their
outcomes. An endpoint's profile is the bag of the flows folded into it: every counter,
ceiling and parameter type of the code is monotonic in that bag, which is what the
properties tell apart. One goroutine does everything, so a step of `Profiler` is one
message, one statement, or one flush decision. `UpsertFails` and `DeleteFails` may or
may not have been carried out. One scope (tenant, host, method) is modelled; with
`PolicyMayRefuse` policy may refuse any flow; the dedupe set forgets older ids at most
`MaxFaults` times.

`wiped` observes what a flush takes out of the table although the aggregator still has
it: the evidence of a live endpoint whose row is deleted because an earlier collapse
retired its id. A row that is written again is no longer wiped.

### Providers, Grouping, FlowVerdict and Journey

`Providers` gives each parser as an operator from a record, which is the fields the
parser reads, to the set of its event; the set is empty for a `ParseError`. Words of a
provider's vocabulary are kept, scores are one flag, header values are the set of the
readable ones. An identifier may be absent or a placeholder (`-`, `n/a`, ...), which is
present for the parser that looks for it and joins nothing. `Grouping` and `FlowVerdict` are the functions of their packages;
union-find is a recursive function over parents, and its loops over records and
identifiers are recursive functions of the round. `OrderEvents` puts an event at the place
that the number of its predecessors gives it. `Journey` has the variables

| Variable | Code |
|---|---|
| `open`, `loose` | the events in windows; those without identifiers, in `Pipeline.events` only |
| `dead` | the dead letters |
| `flows` | the stored flows, as `Materialize` and `Amend` returned them |
| `journey`, `delivered`, `early` | observation: what happened to the request, which records arrived, which windows closed early |

`journey` is chosen once: what each layer answers, what its clock says, whether
DataDome's verdict comes by Cloudflare's Worker or by its own export, where F5 logs the
ray. `Records` says which records the layers then write; that part is external. `Deliver`
is `ProcessBatch` for one record, `Close` takes one component out of its windows. The
keyed windows and the store are `Pipeline`'s subject and are not repeated:
`group.Exact` over the open events takes their place, which `ImplementsRequestGroups`
and `ExactIsConnectivity` justify, and only one flow per key is closed.

### Receivers and Sources

| Variable | Code |
|---|---|
| `feed`, `sourceRow`, `rules` | the tables `feed`, `log_source`, and the tenant's `ingest_filters` |
| `byID`, `loaded` | `feedauth.Store`, for one feed |
| `sets` | `filterCache.sets` |
| `stream`, `consumed` | the messages of SIEM_RAW and how far `consume` has come |
| `registry` | `observability.Registry` |
| `watermark` | `DataDomePuller.Watermarks` |
| `sender`, `issued` | external: the feed's sender with its token and its next body; the token last shown |
| `answered`, `ingested`, `everRules`, `arrivedAt`, `pulledFrom` | observation only |

One action per handler or loop round: each calls out to PostgreSQL or JetStream once
that matters, or splits where it does not (`Deliver` and `Poll` may publish any number of
chunks before they fail, or lose the answer). A message id is the batch and the number
of the chunk; of a batch that is published again, the chunks that JetStream has seen
within the window for duplicates are dropped. The order in which an export lists its
records is a choice. `Receivers` says what a body comes to. A
token is the number of its rotation. A body is a sequence of lines that fit, are too heavy
for a message once encoded, are truncated (and then as heavy), or break the scanner. A
heavy record travels in a message of its own, as every record does with the `ChunkLimit`
of the run, and the server refuses it each time, with no fault needed. What `SIEM_RAW`
discards at its limits of age and bytes (`buffer.go:72`) is left out. A tick is longer than JetStream's window for duplicates
(two minutes by default), so a message id is recognised within a tick only.

### Access

| Variable | Code |
|---|---|
| `principal`, `invites` | the tables, one row per account, one per link |
| `refresh`, `access`, `challenges` | the tokens issued, by purpose |
| `revoked` | the keys of `valkey.Revocations` with their expiry |
| `server` | what the API server does: a step of its start, or it serves |
| `call` | for each client the handler that works for it, the statement it makes next, and its locals |
| `uses`, `gone`, `late`, `barred` | observation only |

A handler is one action until its first write and one per statement from then on; what
it read stays in `call`. `Fails` ends a handler between any two statements. Who presents
a password, a code or a link presents the right one, and an unauthorised request changes
nothing, so only requests that pass the check are steps. A start seeds the people of
`seedDev`, upserts the bootstrap administrator if no active account has a password, and
makes its link, each a step after which it may fail and begin again; nobody is served
before. `Second` parts of time make a second: a token's expiry and Valkey's `EX` are whole
seconds, so `Revoke` gives the entry the whole seconds of what is left, and fails for less
than one. Routes that only read end where
they are authorised, and are guarded by the same `Authorise`.

### Retention

| Variable | Code |
|---|---|
| `stored`, `cold`, `protected` | the partitions by day: in the stores, in the archive, under its legal hold |
| `holds`, `bucket` | the hold registry; whether the bucket exists and has Object Lock |
| `up`, `run` | the process; the `Apply` in progress with what it has read |
| `rawDays`, `raw`, `windows`, `todo` | `tenant.raw_retention_days`, the raw records, and the locals of `expireRaw` |
| `heldAtStart`, `shortest` | observation only |

`Apply` is one action per partition, and three for a prevented expiry (archive, protect,
record), each of which may fail. A month has one day in place of thirty. The order of
`Apply`'s partitions and of the tenants is a choice; so is the hold that gets the
evidence when several cover a day, since nothing orders `HoldStore.Open`.

## 3. The runs

Passing runs, with their sizes in distinct states:

| Run | States | Instance | Shows |
|---|---|---|---|
| `bridge` | 124,000 | four records of one request, three identifiers: two records that share nothing, joined by a third, and a fourth behind it; one flusher, chunks of one flow, windows of two ticks; lookups may fail | every order of arrival, redelivery, merge and close: indexes and windows agree, no request is split or mixed, nothing is dropped, merging postpones no close, and every step is a step of `RequestGroups` |
| `flushers` | 797,000 | two tenants, two flushers, chunks of two, inserts and lookups that may fail, pruning | every document is about one request |
| `restart` | 1,337,000 | two records, one of them bridging; a graceful restart, a lost ack or a slow delivery, inserts and fetches that fail | what was acked is in memory, stored or saved, with three exceptions (section 6) |
| `deliver` | 131,000 | a good record, one that does not parse, one without a parser; a crash or a restart, a lost ack or a slow delivery, failing Valkey | the record is stored, and what can be acked is acked, in the end |
| `profiler` | 296,000 | two numbers and then two uuids at one position with a segment below, then the first paths again; an undecodable message; three endpoints at most; a crash or restart and one fault | acked is committed and the table follows, but for rows that a flush deletes under a live endpoint; merging conserves the evidence, templates settle, everything is acked in the end |
| `journey` | 137,000 | a sample of each layer's answers, one per family of fields; two sets of clocks; DataDome by Worker or by export; F5 with the ray in the request's text or a placeholder in its field; one visit of the same client besides | the records of a request are one component, the flow is blamed on the layer that stopped it and names only real gaps, order of arrival and amendments make no difference, an early close is complete, conflicts are surfaced, ambiguous records are not joined |
| `sources` | 1,478,000 | four bodies (a probe; two messages; an oversized line; a long line, which the server refuses each time), one rotation, one set of filters, two exported records, three ticks, one failing call, restart or switch | what was answered with 200 is kept or filtered, the watermark skips nothing, the silence loop leaves no silent source healthy |
| `access` | 1,228,000 | two requests at a time, time in half seconds, an administrator and an analyst or a fresh deployment, two links, two sessions | a link sets one password, a revoked token opens no session until its last second, callers are entitled, no enrolment without a secret |
| `retention` | 509,000 | three days, two tenants, two holds with every kind of scope, two policies | holds are kept, evidence is protected, raw records outlive their window |

Bounds, and why they are enough:

- `MaxDocuments` (a state constraint) limits the stored documents: each redelivery
  after a close may add one. One is enough for a first amendment, two for an amendment
  by another record, three for `CurrentVersionGrows`.
- `LateArrival` 1 or 2: with 2 a window may be young, older, or due; ages are compared
  with the limit only.
- Three or four records: a bridge needs two windows and a third record. A longer chain
  repeats the same step, and the theorems cover it.
- `MaxBoots` 2: one restart; `MaxFaults` 1: one lost ack or slow delivery. The
  snapshot and the rows are all that a boot depends on.
- `deliver`: the two poison messages are published before the record (`PoisonFirst`, an
  action constraint). Where they stand in the stream depends on who is redelivered first,
  which it leaves open.
- Profiler thresholds: two samples of two values collapse a position, in place of 64 and
  8; `MaxEndpoints` 3, so that the cap is met. Six messages are what a retired id needs to
  come back: a collapse for numbers, its replacement for uuids, and the first paths
  again. `Bounds` is an action constraint: JetStream delivers the oldest message it can
  (`InStreamOrder`), and a fault strikes the first process, takes one message's ack and
  makes the dedupe set forget one id (`OneFaultEarly`). Policy refuses nothing in the
  run: what it would refuse goes through the same action as the undecodable message.
- `journey`: one record per layer and the Worker's fetch row; times of three ticks tell
  apart what is behind, equal and in the future, next to a missing and an unreadable
  clock. Two orders of arrival per closed window put any two events in both orders.
- `sources`: one feed and one pulled source, since no state is shared between feeds of
  different names; a chunk is one record, so that a batch of two can be half published.
  Cadence and pull window are one tick, and `MaxTime` 3 leaves a source silent and back.
  `QuietAtTheEnd` (a state constraint) ends a behaviour at the last tick if a token was
  rotated or a filter saved in it: what these meet, a delivery that is under way, a stale
  cache, a restart, comes within the two ticks before.
- `access`: two clients suffice for a race of two handlers; a third repeats one of them.
  Time is counted in half seconds and has two ticks: after one, the link, the access
  token and the challenge of the start have expired; a refresh token has not, and one that
  was revoked at once outlives its entry by half a second. Lifetimes of hours would add nothing to the comparisons with
  them. One person is seeded; `DevSkipMFA` is off.
  `FewIssued` (a state constraint) allows three sessions and links in all: two sessions
  and a link, or the reverse. Sessions and links meet only in an account's row, which one
  of each reaches.
- `retention`: with three days and two policies a partition meets every tier; two holds
  can cover one day, and one of them be released. Raw windows are one or two days, so
  that one tenant's window is shorter than the other's. `HoldsOrWindows` (a state
  constraint) varies the holds or the windows: `Apply` reads the former only and the raw
  pass the latter only, and the process and the clock are all they share.

The three runs that expect a violation are those of section 6. `newest_version` bounds the
behaviours to which its finding applies: no two versions of a flow have one `_time`
(`NoTies`) and no record is delivered twice (`DeliveredOnce`). `deliver` and `profiler`,
which check liveness on the whole graph, have no state constraint; their action constraints
remove steps of JetStream and of the faults, and no step that fairness asks for is left out
where it could be taken otherwise: of several messages one is always the oldest. The state
constraints of the other runs cut safety properties only. The theorems of section 5 have no
constraint.

Symmetry is used for the clients of `access` and for the holds and the tenants of
`retention`, whose properties name none of them and are safety properties. Identifiers
are ordered, and the liveness properties forbid symmetry elsewhere. `access` stops in
states in which its bounds leave nothing to do; the other runs check for deadlock.

## 4. Fairness

`LogProc`: the goroutines run (weak fairness on what is always enabled when it is
enabled once), and strong fairness where a mutex is taken, since a Go mutex hands
itself to a waiter after a millisecond; time passes; JetStream redelivers after
AckWait (default 30 s, no limit of deliveries); the supervisor restarts the process
(`restart: unless-stopped` in `src/deploy/compose/docker-compose.yml`). Nothing makes
a record arrive, a signal come, an insert fail or an ack get lost.

`Profiler`: the worker's loop and ticker run; `select` picks among ready cases at
random, hence strong fairness for the ticker and the exit, and for the receipt of some
message, which need not be any given one; a message that waits is delivered in the order of
the stream; AckWait (at least five minutes, `cmd/profilerd/main.go`)
runs out for some message if it does for any; the supervisor restarts. That every
message is acked then follows from the number of messages. A failing statement counts as a fault and `MaxFaults` bounds
them: a database that always fails stops the worker, as it should.

## 5. What is proved

For all values of the constants that satisfy the module's assumption. The assumptions
give each constant its type, and beyond that say: identifiers are positive numbers in
which every non-empty set has a smallest one (`PipelineAssumption`); `Loop` and `Main`
are the flushers, and the process boots at least once (`LogProcAssumption`); a segment is
no type name, and the thresholds are positive (`TemplatesAssumption`,
`ProfilerAssumption`); bodies and exports are finite lists, cadence, windows and limits
are positive (`SourcesAssumption`); lifetimes, windows and the parts of a second are positive
(`RetentionAssumption`, `AccessAssumption`); no account is enrolled without a secret when
the model starts (`StartsAssumption`: the migration adds both columns as `NULL`, and nothing
but the statements of the model writes them).

| Theorem | Module | States |
|---|---|---|
| `TypeCorrect` | `Pipeline_proofs` | `TypeOK` |
| `IndexesAgree` | `Pipeline_proofs` | `IndexConsistent`, with `EventsHeldOnce` |
| `EventsHeldOnceAlways` | `Pipeline_proofs` | `EventsHeldOnce` |
| `RequestsNotSplit` | `Pipeline_proofs` | `OneWindowPerRequest` |
| `RequestsNotMixed` | `Pipeline_proofs` | `WindowsAreRequests` |
| `Refinement` | `Pipeline_proofs` | `ImplementsRequestGroups` |
| `NothingDropped` | `Pipeline_proofs` | `AcceptedIsKept`, assuming `~StoreMayFail` |
| `DocumentsAreClean` | `Pipeline_proofs` | `DocumentsAreRequests`, `TenantIsolation` |
| `MergingNeverPostpones` | `Pipeline_proofs` | `AgeCoversWait` |
| `GroupsStayApart`, `GroupsStayWhole` | `RequestGroups_proofs` | the abstract specification keeps its groups apart and connected |
| `LogProcTypeOKAlways` | `LogProc_proofs` | `LogProcTypeOK` |
| `RestartKeepsAckedAlways` | `LogProc_proofs` | `RestartKeepsAcked`, assuming `~MayCrash` and `~ValkeyMayFail` |
| `LeastUpperBound`, `OrderFree` | `Profiler_proofs` | `Join` is what its comment says, by cases over the fourteen types |
| `EvidenceKept` | `Profiler_proofs` | `EvidenceConserved` |
| `NoStaleLiterals` | `Profiler_proofs` | `TemplatesSettled` |
| `ProfTypes` | `Profiler_proofs` | `ProfTypeOK` |
| `TableFollows` | `Profiler_proofs` | `RowsFollowEndpoints` |
| `NothingAckedEarly` | `Profiler_proofs` | `AckedIsCommitted` |
| `WipedOnlyWhereTypesMix` | `Profiler_proofs` | `wiped # {} => TypesMix`: without two promotable types at one depth the last two have no exception |
| `JourneyTypes` | `Journey_proofs` | `JourneyTypeOK` |
| `OrderDoesNotMatter` | `Journey_proofs` | `SameFlowWhateverOrder` |
| `NoGuesses` | `Journey_proofs` | `NeverGuesses` |
| `UnionFindIsConnectivity` | `Journey_proofs` | `ExactIsConnectivity`, assuming `Calls = 1` |
| `RowsJoinTheJourney` | `Journey_proofs` | `WholeJourney`, assuming `Calls = 1` |
| `BlamesTheRightLayer` | `Journey_proofs` | `BlamesTheStop`, assuming `OneVerdict` |
| `MissingLayersWerePassed` | `Journey_proofs` | `GapsAreReal`, assuming `OneVerdict` |
| `DisagreementsShow` | `Journey_proofs` | `DisagreementSurfaced`, assuming `OneVerdict` |
| `EarlyIsComplete` | `Journey_proofs` | `EarlyCloseIsComplete`, assuming `OneVerdict` |
| `SourcesTypeOKAlways` | `Sources_proofs` | `SourcesTypeOK` |
| `AnsweredIsKeptAlways` | `Sources_proofs` | `AnsweredIsKept` |
| `WatermarkBehindBufferAlways` | `Sources_proofs` | `WatermarkBehindBuffer` |
| `SilenceIsSeenAlways` | `Sources_proofs` | `SilenceIsSeen` |
| `RetentionInvariant` | `Retention_proofs` | the inductive invariant of the next three |
| `HeldIsKeptAlways` | `Retention_proofs` | `HeldIsKept` |
| `RecordedIsPreservedAlways` | `Retention_proofs` | `RecordedIsPreserved` |
| `RawOutlivesWindowAlways` | `Retention_proofs` | `RawOutlivesWindow` |
| `LinkSetsOnePasswordAlways` | `Access_proofs` | `LinkSetsOnePassword` |
| `AccessTypeOKAlways` | `Access_proofs` | `AccessTypeOK` |
| `RevokedStaysOutAlways` | `Access_proofs` | `RevokedStaysOut` |
| `CallerWasEntitledAlways` | `Access_proofs` | `CallerWasEntitled` |
| `EnrolledHasSecretAlways` | `Access_proofs` | `EnrolledHasSecret` |

**Pipeline.** The inductive invariant is
`IInv == TypeOK /\ IndexConsistent /\ EventsHeldOnce`. None of the three is inductive
alone: that `Attach` finds every window of the request needs the index to be exact,
that the index stays exact when `Flush` pops windows needs every event to be in one
window, and that needs the redelivery check of `accumulate`, which reads `events`.
`AttachJoins` then says what one record does to the windows in terms of groups,
`AttachIsGroup` and `CollectIsClose` map the steps to those of `RequestGroups`, and
the two request theorems come over from there by the refinement, where they are
short: joining connected groups by a common event gives a connected group.
`NothingDropped` strengthens `AcceptedIsKept` with the flows that a flusher holds
(`StepKeeps` has one case per action); its assumption is needed: with `StoreMayFail` set
in `Pipeline_bridge.cfg`, TLC finds the lost flow. `DocumentsAreClean` carries
connectedness and the tenant from the windows over `popped` and `chunk` to `store`.
`MergingNeverPostpones` adds to `AgeCoversWait` that an event outside all windows has not
waited (`WaitInv`); `AbsorbAge` says that a merged window is as old as the oldest of those
it is made of, in whatever order the code's map gives them.

**LogProc.** `LogInv` is the type of the pipeline, of what JetStream and `consume` hold
(`MsgInv`: the messages of queue and inbox are pending, each once, none of them acked), of
the snapshot and the index (`ImageInv`) and of the process (`RunInv`).
`RestartKeepsAckedAlways` follows an event through the stages of `run`. `KeptInv` says
that until the snapshot is taken an accepted event with an identifier is queued, in a
window or out (popped, on its way, stored, or `refused`: its insert failed), and from then
on saved, stored, `refused` or `missed`. `missed` is what consume took in after `Snapshot`
or the flush loop had popped by then, and no insert that fails adds to it; `StageInv` says what each stage has dealt with already: no flusher
is left in the store when the drain begins, and what is queued when `Snapshot` is over
came too late. `AckInv` ties the acks to it: `consume` acks what it has handed to
`ProcessBatch`. A crash loses what was acked and not yet stored, and a failed `Save` what
was to be saved; hence the two assumptions, which the `restart` run has too. Failing
inserts and fetches are allowed.

**Profiler.** `EvidenceInv` relates what the engine decides to what the profiles count. A
template is `Settled` when it has no literal at a position whose collapse matches it, and
`RenormalizeSettles` says that re-keying returns a settled template and leaves one that is
settled alone. The loop over the segments of `Renormalize` is a recursive function of the
round, and `Loop`, which follows from the least element of a set of numbers, carries what
holds after one round to the next: what was re-keyed in front decides which collapse
applies behind. `NormalizeSettles` does the same for a flow's path, and `CollapseKeeps`
says what a decision changes for templates it does not touch. For the evidence,
`MergedEvidence` counts the foldings, which are pairs of an endpoint and one occurrence
of a flow in its profile: when endpoints meet under one parameter the pairs are those
from before, in bijection, so that no flow is lost or counted twice. A crash
between the upserts and the deletes leaves the rows of both sides of a collapse, and the
next process restores them; hence `boots = 1` in `TemplatesSettled`.

`KnownInv` relates what the worker has acked, has pending and has seen to the flows that
the endpoints and the rows are folded from, apart from those the cap refused and those that
were wiped; `FlushInv` relates the phases of a flush to what is dirty. `FoldKeeps` has the
substance: when endpoints move and meet, no flow is forgotten. An endpoint is `Held` by the
table when its row is up to date, or gone with all of its evidence in `wiped`; the deletes
of a flush are the only step that adds to it, and `RowsHoldEndpoints` takes this to the
flows. The three theorems have no assumption on the paths: they say of every scope what
the table holds and what is missing from it.

When something is missing is a theorem of its own. `TypesMix` says of the constants that
identifiers of two promotable types meet at one depth of the scope's paths, and
`WipedOnlyWhereTypesMix` that a row is deleted under a live endpoint only then. Without it
(`OneTypePerDepth`; literals beside the identifiers are free) a decision can only widen,
from that type to `var` or `freetext` (`Wider`): `CollapseWidens` says that a
collapse keeps every earlier decision or widens it. A retired id is `Dead`: at some
position it has a literal that the decision there would replace, or a token narrower than
that decision, and `CollapseDead` with `StaysDead` carries this through every later collapse. `RenormalizeIs`
and `NormalizeCareful` say that neither re-keying nor a new flow yields a dead template,
so nothing leads back to a retired one (`RetiredInv`). Templates are followed from the path to the
token, position by position (`Backed`, `Under`, `Typed`), because re-keying moves the
decisions for deeper positions along with the endpoints. In the `profiler` run types do
mix, and rows are wiped.

**Journey.** `BaseInv` says what is held and stored: the events of open windows and of flows
are made of the journey's records (`HeldOK`), and a stored flow is `Faithful`, which is to
say that it is sorted and reads as `Materialize` reads its events (`FlowsOK`). Deliveries,
closes and amendments keep it for any answers, clocks and deployments. From it follow the
first three theorems: `ParseIs` and `MaskIs` give the shape of every event; `Before` is a
strict linear order of events with ids of their own (`BeforeIsLinear`), a sequence sorted by
it is determined by its set (`SortedIsUnique`), and so is the flow; and a run of the
heuristic that stops at an event leaves no joinable one within the window (`RunGoesOn`).

For union-find, `Ranked` says that a parent has the greater rank, so that `FromTheRoots`
carries what holds of the roots to every node, and `FindIs` that `Find` returns the root.
`LinkJoins` and `LinkRespects` say what a link does: the two ids have one root from then on,
and a set of ids that has both of them or neither is still made of whole trees. `ForestIs`
says both of the whole loop: the ids of a record have one root, and a set of ids that no
record straddles is made of whole trees; `ExactFindsComponents` takes a component for that set. The loops are recursive functions of the round, and what
holds after every round comes from `Loop`, which follows from the least element of a set of
numbers, where the library's induction theorem would take the predicate as a parameter.

`EventIs` says for each kind of record which event it parses to, and `MadeTellsTrue` what
that event says of the journey: a terminating event is of the layer that stopped the
request, and the layers behind it wrote none. `BoundaryIs` says where the flow's boundary
is (its deepest record, its stop, its cache), and `NoneHidden` that no layer that the
request reached lies behind it, so that `GapsAreReal` holds both ways: what is missing was
passed, and what was passed and left no record is missing. This needs one verdict of each layer:
`OneVerdict == Calls = 1 /\ "both" \notin Deployment`. Without it a later answer of
DataDome, or the export's, may contradict the one in the flow; the `masked` run shows the
former.
`EarlyInv` says which layers a flow has whose window closed early: all, or all down to the
one that stopped the request; late records only add to them. `Kept` says that no delivered
event with an identifier is lost, and `RowsLinkAll` that the identifiers of all of them are
linked to the visitor's row once the site's rows are there. `Calls = 1` is what gives the
events ids of their own (`MadeNamed`): two calls of a Worker derive two events with one id.

**Sources.** `SourcesInv` has six parts. `StreamInv`: a message of SIEM_RAW carries the chunk
its id names, of a body or of an export, and the chunks before it are there from the same
tick. `CacheInv`: cached feeds and filters were saved once. `KeptInv`: every chunk of a
body that was answered with 200 is in the stream, and what was consumed was handed on or
dropped by a rule that was saved. `HealthInv`: the registry never believes in a delivery
later than the last one that arrived, which is why `SilenceIsSeen` holds although a
lagging consumer moves its times back. `PullInv`: what was exported before the watermark
is in the stream. The lemmas under them are `Split` (`splitBatch` keeps every record, no
message is empty or too long), `Appended` (what is there of a batch is a prefix, an append
that fails leaves a longer prefix, one that succeeds all of it) and `IdFixesRecords`: the
ids that JetStream drops as duplicates stand for the records that would have been
appended, so that a retry within its window for duplicates loses nothing. For the one
puller of the model its batch id is its window, which fixes the records; between two
tenants it does not (section 6).

**Access.** `LinkSetsOnePassword` is not inductive, since its step only counts up.
`SpentByOne` says why it never reaches two: a handler before `SetPassword` holds a link
that is no longer open and has set none, and no other handler holds the same; a link that
has set one is not open, and `InsertInvite`, the only step that rewrites all links, opens
none again. `AccessInv` adds what the other theorems need. `RevocationsOK`: an entry of
`revoked` lapses less than a second before its token, so a token that was revoked is on the
list or in its last second (`RevokeEnters`); a refresh that begins in that second opens a
session, and `RevokedStaysOut` says of no other that it does not.
`ServedInv`: no handler that began later was served, and each handler under way has a
caller who was entitled when it was let in. `AccountsOK` and `OneOpenLink` are about
the tables: an enrolment needs a secret, a reset takes both away, and an administrator's
change keeps the secret; a new link retires the open one of its account. `HandlersMove`
says once how any step may change any handler, and most cases cite nothing else.

**Retention.** `RetentionInv` relates what a run has read to what is there now: the
snapshot of the registry covers `heldAtStart` (`SnapshotKeeps`), its open holds have the
scopes the registry still has (`ScopesAreFixed`), the day and the hold that the three
calls of a prevented expiry pass on are archived, protected and in scope
(`EvidenceIsReady`), and the windows of a pass are not shorter than the shortest since
(`WindowsCoverPass`). `CoversIsMeant` is the step from the code's comparison of bounds to
what a scope means, unreadable bounds included.

**Only model-checked:**

- `EventuallyStored`, `EventuallyAcked` and `EventuallyFlushed`: liveness under fairness
  and `ENABLED` are out of the prover's reach;
- a Worker that asks DataDome twice, which the theorems with `Calls = 1` leave out and
  `masked` explores. DataDome's verdict over both channels at once, which `OneVerdict`
  leaves out too, no run explores;
- the three properties of section 6, which do not hold.

## 6. What the code does not keep

Three runs expect the violation, and `PROJECT.json` quotes the line of the repository:

- `newest_version`: the version that a merge starts from is the one with the latest
  *first* event, which is not the newest once an older record has amended the flow; the
  next amendment loses events. In the trace three records arrive, each older than the one
  before: the document of the third is made from that of the first, without the second.
- `masked`: the event derived from a Worker's call to DataDome is named after the parent
  request, so the second call of one request is dropped as a duplicate, and a first
  answer that is unknown hides a block. In the trace the first call is abandoned (499) and
  the second answered with 403 and `hard_block`: the block's record is dropped, and the
  outcome of the flow is unknown.
- `lagging`: a consumer that works through a backlog moves a source's last delivery back,
  and the silence loop calls a delivering source silent.

The models follow the code in these points too, and their properties are worded around
them; no run of its own refutes what a reader might expect instead.

Pipeline and `logproc`:

- The key of a window, hence the flow id, depends on which records came first
  (`pipeline.go:247`), although `keys/identifiers.go:84` wants one identity however the
  records were ordered.
- A failed insert loses the flows that `Flush` has popped (`refused`). A graceful restart
  loses what consume takes in after `Snapshot`, and what the flush loop has popped
  (`missed`). These are the three exceptions in `RestartKeepsAcked`.
- The saved identifier index is older than the saved windows (`main.go:184`), so a request
  may be split after a restart. The bridged flags are not saved at all.
- A redelivery or a late record that does not name its flow's key opens a second window.
- The error of `StoreRaw` is discarded. `Consume` ends for good at any error of `Fetch`
  but a timeout.

Profiler:

- Flows are counted twice after a crash between commit and ack, where
  `src/docs/deploying-traffic-profiler.md:190` has the dedupe set absorb them.
- A second promotable type at a position replaces the first one's collapse
  (`template.go:305`): literals come back, and a retired id can come to life and be
  deleted by the flush that has just written it. The endpoint is clean from then on, so its
  row stays away until it is observed again; if the process restarts before, flows that were
  acked are in no row. The ack did wait for the commit; it is the deletes of the same flush
  that take the row out again. `wiped` names these flows,
  and `AckedIsCommitted` and `RowsFollowEndpoints` except them.

Flows:

- An enforced DataDome `block` is *challenged* when it comes by the Worker
  (`cloudflare/datadome.go:105`) and *blocked* when it comes by the export
  (`datadome/parser.go:40`).
- The confidence is computed before the flags are propagated (`materialize.go:81`, `:88`),
  so its deduction for clock skew never applies.
- `clusterByTime` chains gaps, so a cluster may be longer than what `heuristic.go:25` calls
  the maximum separation.
- A request that was challenged reads as partial: `challenged` is not terminal.
- F5's `cf_ray` field is used as it stands (`f5asm/parser.go:193`), while nginx strips the
  datacentre's suffix from the same header (`nginx/parser.go:154`): a suffixed field joins
  nothing. A placeholder in the field suppresses the search of the request's text, and the
  record is without a key. The latter is in the `journey` run.

Ingest:

- The receiver of Vector ignores the scanner's error (`vectorhttp/receiver.go:106`): what
  follows an oversized line is dropped and answered with 200. No caller looks at the flag
  of `TruncateRecord`, although `validate.go:9` wants truncation recorded.
- A record of nearly `MaxRecordBytes` (1 MiB, `validate.go:13`) does not fit a message of
  NATS's default `max_payload` once it is base64 in JSON, although `buffer.go:130` calls
  the bound well below that ceiling. It is refused at every attempt, and so is the rest of
  its body: the sender gets 503 and sends the body again without end, and a puller would
  never get past it. `AnsweredIsKept` holds because nothing of this is answered with 200.
- `SIEM_RAW` discards its oldest messages at its limits of age and bytes
  (`buffer.go:72`), consumed or not: answered records may go. The model has no limits.
- JetStream's message id is the batch id and the chunk (`buffer.go:122`) without source or
  tenant, and the puller's batch id is its window: equal windows of two tenants are taken
  for one, and so is a window that is read again with a record that came late.
- A feed that was just created or rotated is refused with 401 until the next refresh, and
  a sender gives a 401 up.
- If the second insert of `Create` fails, a feed exists whose token nobody has seen.
- A restart forgets the registry of push feeds; the row of a silent feed keeps its state
  until the feed delivers again.
- A delivery counts as arrived before it is buffered, and also when that fails.

Accounts:

- Two concurrent refreshes with one token both succeed; a refresh that is under way during
  a logout leaves a live session.
- A revocation is entered for the whole seconds of what is left of its token
  (`valkey/revocation.go:41`), so it lapses up to a second before the token, where
  `tokens.go:49` says it lasts until at least its ttl has elapsed: a refresh in that gap
  opens a session. `RevokedStaysOut` excepts a token's last second.
- With less than a second left, `EX 0` fails and nothing is revoked. `Logout` ignores the
  error of `Revoke` and reports success.
- `seedDev` runs at every start of the API server, in production too: the seeded people are
  active again and have their old roles, whatever an administrator changed.
- An enrolment is stamped on the secret the row holds by then, which another login may have
  replaced after the code was checked; that other login may also undo the enrolment.
- A link is spent even if the password cannot be set.
- `CreateInvite` sets the role and the activation of any account of the tenant, the
  caller's own included, which `UpdateUser` refuses. Two administrators can deactivate
  each other.
- `bootstrap.go:23` says that a deployment whose only administrator was deactivated
  recovers; `AnyPasswordSet` counts every active account with a password, so an analyst's
  prevents it, and so does one of another tenant.

Retention:

- No command calls `Apply`, and the raw pass does not read the holds, although
  `cmd/retentiond/main.go:119` calls that a precondition.
- A hold that is placed during a run does not protect the partitions still to come; only
  one of the holds that cover a day gets the evidence; every run archives and records
  again.
- `EnsureBucket` accepts a bucket without Object Lock, and then no protection succeeds.
- With no cold window a partition expires without having been archived. `Validate` is
  called by nobody.

## 7. Not modelled, and the plan

`PROJECT.json` lists every component with its status and reason. Left out for good:
read-only queries (search, dashboards, listings), field extraction and scores of the
parsers, password hashes, codes and signatures, clients of external services (Cloudflare
rules, OWASP replay, the wirefilter service), migrations, configuration, the frontend.
Alerting and dead-letter replay are constructed by no command: without
a caller there is no order of calls that a model could be faithful to. Source onboarding is
called by the API server, which runs `Validate` and `Upsert` on `POST /api/v1/sources`; that
upsert of a `log_source` row is not modelled, and `Enable` and `Health` have no caller.
`DataDomePuller` is constructed by no command either: `Sources` models `Poll`, and assumes
of a caller only that it polls one window at a time.

What would follow, in this order:

1. In `Profiler`: the API's delete, tenant policy and two scopes under one tenant cap.
2. In `LogProc`: the raw insert, the publisher's bounded queue, and saving the snapshot in
   two steps.

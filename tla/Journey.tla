------------------------------- MODULE Journey -------------------------------
(***************************************************************************)
(* One request on its way through the monitored layers, and the flow the   *)
(* system makes of the records the layers write about it: parsed, masked,  *)
(* grouped at exact tier, closed, read off and amended, in any order of    *)
(* arrival and with redeliveries.  The layers themselves are external; the *)
(* grouping here is group.Exact over what has arrived, where Pipeline has  *)
(* the incremental one.                                                    *)
(***************************************************************************)
EXTENDS FlowVerdict, Grouping

CONSTANTS
    EdgeAnswer,     \* what Cloudflare may answer: its action fields, cacheHit, lowScore
    BotAnswer,      \* what DataDome may answer: status and response type
    WafAnswer,      \* request_status, and "blocked_response" for a block of the response
    OriginAnswer,   \* the origin's status
    Clock,          \* [Layer -> time]: what the layers' clocks may say
    RayCapture,     \* where F5 may log the ray: "field", "request", "none", or in the
                    \* request with a "placeholder" in the field
    Deployment,     \* where DataDome's verdict comes from: "worker", a Cloudflare
                    \* Worker's call, "export", its own pull feed, or "both"
    Calls,          \* how often a Worker may call DataDome for one request
    ReceivedAt,     \* the receiver's clock
    JoinWindow,     \* HeuristicOptions.Window
    Stranger        \* events of another visit of this client without identifiers

ASSUME JourneyAssumption ==
    /\ EdgeAnswer \subseteq [security : STRING, firewall : STRING, wafAction : STRING,
                             cacheHit : BOOLEAN, lowScore : BOOLEAN]
    /\ BotAnswer \subseteq [status : Nat, type : STRING]
    /\ WafAnswer \subseteq STRING
    /\ OriginAnswer \subseteq Nat
    /\ Clock \subseteq [Layer -> Int]
    /\ RayCapture \subseteq {"field", "request", "placeholder", "none"}
    /\ Deployment \subseteq {"worker", "export", "both"}
    /\ Calls \in 1..2
    /\ {ReceivedAt, JoinWindow} \subseteq Int
    /\ Stranger \subseteq EventType

VARIABLES
    open,        \* the events in windows
    loose,       \* events without identifiers: kept, never correlated
    dead,        \* dead-lettered records
    flows        \* the stored flows

\* Observation variables.
VARIABLES
    journey,     \* what really happened to the request
    delivered,   \* the records that arrived
    early        \* the keys of the flows whose windows closed early

vars == <<open, loose, dead, flows, journey, delivered, early>>

-----------------------------------------------------------------------------
(* The request path (external).                                            *)

\* The identifiers, in their lexicographic order.
DataDomeId == 1
VisitorRay == 2
FetchRay   == 3
CallRay    == 4

ViaWorker(j) == j.deployment \in {"worker", "both"}
ViaExport(j) == j.deployment \in {"export", "both"}

\* A Worker's fetch has a ray of its own, which is what the origin sees.
OriginRay(j) == IF ViaWorker(j) THEN FetchRay ELSE VisitorRay

PassesEdge(j) ==
    /\ ~j.edge.cacheHit
    /\ CloudflareVerdict(j.edge).action \notin Terminal \union {"challenged"}

EdgeRow(j, ray, parent, answer) ==
    [provider |-> "cloudflare", ray |-> ray, parent |-> parent, host |-> "site",
     security |-> answer.security, firewall |-> answer.firewall,
     wafAction |-> answer.wafAction, cacheHit |-> answer.cacheHit,
     lowScore |-> answer.lowScore, status |-> 200, type |-> "", time |-> j.clock[Edge],
     requestHeaders |-> {"cookie"}, requestId |-> DataDomeId, attributes |-> 1,
     responseHeaders |-> IF ray = VisitorRay /\ PassesEdge(j)
                         THEN {"x-datadome-requestid"} ELSE {}]

NoAnswer == [security |-> "", firewall |-> "", wafAction |-> "", cacheHit |-> FALSE,
             lowScore |-> FALSE]

VisitorRow(j) == EdgeRow(j, VisitorRay, Absent, j.edge)
FetchRow(j)   == EdgeRow(j, FetchRay, VisitorRay, NoAnswer)
CallRow(j, n) ==
    [EdgeRow(j, CallRay + n, VisitorRay, NoAnswer) EXCEPT
        !.host = "datadome", !.status = j.bot[n].status, !.type = j.bot[n].type,
        !.time = j.clock[Bot]]

ExportRecord(j) ==
    [provider |-> "datadome", requestId |-> DataDomeId, type |-> j.bot[1].type,
     lowScore |-> FALSE, time |-> j.clock[Bot], attributes |-> 1]

F5Record(j) ==
    [provider |-> "f5asm", supportId |-> 1, time |-> j.clock[Waf], attributes |-> 1,
     requestStatus |-> IF j.waf = "blocked_response" THEN "blocked" ELSE j.waf,
     rayField |-> CASE j.capture = "field"       -> OriginRay(j)
                    [] j.capture = "placeholder" -> Placeholder
                    [] OTHER                     -> Absent,
     rayText |-> IF j.capture \in {"request", "placeholder"} THEN OriginRay(j) ELSE Absent]

NginxRecord(j) ==
    [provider |-> "nginx", hash |-> 1, time |-> j.clock[Origin], hasURI |-> TRUE,
     status |-> j.origin, ray |-> OriginRay(j), attributes |-> 1]

\* DataDome let the request through: by its last answer, if it was asked twice.
LetThrough(j) ==
    LET answer == j.bot[Len(j.bot)]
    IN  IF ViaWorker(j) THEN answer.status = 200
        ELSE answer.type \notin {"block", "hard_block", "interstitial"}

Reaches(j) ==
    IF ~PassesEdge(j) THEN {Edge}
    ELSE IF ~LetThrough(j) THEN {Edge, Bot}
    ELSE IF j.waf = "blocked" THEN {Edge, Bot, Waf}
    ELSE Layer

Records(j) ==
    LET reached == Reaches(j)
    IN  {VisitorRow(j)}
        \union (IF Bot \in reached /\ ViaWorker(j)
                THEN {CallRow(j, n) : n \in DOMAIN j.bot} ELSE {})
        \union (IF Bot \in reached /\ ViaExport(j) THEN {ExportRecord(j)} ELSE {})
        \union (IF Waf \in reached /\ ViaWorker(j) THEN {FetchRow(j)} ELSE {})
        \union (IF Waf \in reached THEN {F5Record(j)} ELSE {})
        \union (IF Origin \in reached THEN {NginxRecord(j)} ELSE {})

Journeys ==
    [edge : EdgeAnswer, bot : UNION {[1..n -> BotAnswer] : n \in 1..Calls},
     waf : WafAnswer, origin : OriginAnswer, clock : Clock, capture : RayCapture,
     deployment : Deployment]

\* One journey for those that differ only in answers nobody was asked for, or in
\* what a record says that no parser accepts.
Canonical(j) ==
    /\ Bot \notin Reaches(j) => j.bot = <<CHOOSE a \in BotAnswer : TRUE>>
    /\ Waf \notin Reaches(j) => j.waf = CHOOSE a \in WafAnswer : TRUE
    /\ Waf \notin Reaches(j) \/ j.clock[Waf] = Unreadable
            => j.capture = CHOOSE c \in RayCapture : TRUE
    /\ Origin \notin Reaches(j) => j.origin = CHOOSE a \in OriginAnswer : TRUE

Init ==
    /\ journey \in Journeys
    /\ Canonical(journey)
    /\ open = {}
    /\ loose = {}
    /\ dead = {}
    /\ flows = {}
    /\ delivered = {}
    /\ early = {}

-----------------------------------------------------------------------------
\* Mutants: the masker is not run; it has run before the parser reads the headers.
NormalizeUnmasked(r) == Parse(r, ReceivedAt)
NormalizeMasked(r) ==
    {Mask(e) : e \in IF r.provider = "cloudflare"
                     THEN Parse([r EXCEPT !.requestHeaders = {}, !.responseHeaders = {}],
                                ReceivedAt)
                     ELSE Parse(r, ReceivedAt)}

Normalize(r) == {Mask(e) : e \in Parse(r, ReceivedAt)}

Held(e) == \E f \in open \union loose : f.id = e.id

\* A parsed event whose identifiers do not name a stored flow waits in a window,
\* or alone if it has none.  A known event id is a redelivery.
Accept(e) ==
    /\ ~\E f \in flows : f.key \in e.ids
    /\ open' = IF e.ids # {} /\ ~Held(e) THEN open \union {e} ELSE open
    /\ loose' = IF e.ids = {} /\ ~Held(e) THEN loose \union {e} ELSE loose
    /\ UNCHANGED flows

\* A late event of a stored flow.
AcceptLate(e) ==
    /\ \E f \in flows :
          /\ f.key \in e.ids
          /\ flows' = (flows \ {f}) \union {Amend(f, e)}
    /\ UNCHANGED <<open, loose>>

\* A record arrives, possibly again.
Deliver(r) ==
    /\ delivered' = delivered \union {r}
    /\ \/ /\ Normalize(r) = {}
          /\ dead' = dead \union {r}
          /\ UNCHANGED <<open, loose, flows>>
       \/ /\ \E e \in Normalize(r) : Accept(e) \/ AcceptLate(e)
          /\ UNCHANGED dead
    /\ UNCHANGED <<journey, early>>

ByKey(S) ==
    [n \in 1..Cardinality(S) |->
        CHOOSE e \in S : Cardinality({f \in S : SmallerId(f.id, e.id)}) = n - 1]

\* The orders in which S may have arrived; of two events, each is first in one.
Arrivals(S) == {ByKey(S), Reverse(ByKey(S))}

Flow(c, arrived) ==
    Materialize(c.key, arrived,
                [expected |-> Layer, method |-> "exact", bridged |-> c.bridged])

ClosesEarly(c) == HasAllLayers(c.events, 4) \/ TerminallyComplete(c.events)

\* A window of the request closes; it may have waited LateArrival.  A second
\* flow of the same key is merged into the first and is Pipeline's subject.
Close(c) ==
    /\ ~\E f \in flows : f.key = c.key
    /\ \E arrived \in Arrivals(c.events) :
          flows' = flows \union {Flow(c, arrived)}
    /\ open' = open \ c.events
    /\ early' = IF ClosesEarly(c) THEN early \union {c.key} ELSE early
    /\ UNCHANGED <<loose, dead, journey, delivered>>

Next ==
    \/ \E r \in Records(journey) : Deliver(r)
    \/ \E c \in Exact(ByKey(open)) : Close(c)

Spec == Init /\ [][Next]_vars

-----------------------------------------------------------------------------
EventsOf(f) == ToSet(f.events)
Parsed == open \union UNION {EventsOf(f) : f \in flows}

\* Type invariant.  What is kept of the events is parsed and masked: no header
\* that carries a credential is readable (normalize.Masker, FR-015).
JourneyTypeOK ==
    /\ \A e \in Parsed \union loose : e \in EventType /\ e.readable \intersect Secret = {}
    /\ dead \subseteq Records(journey)
    /\ journey \in Journeys
    /\ delivered \subseteq Records(journey)
    /\ \A f, g \in flows : f.key = g.key => f = g

\* FR-016: once Cloudflare's rows are there, the records of the request that
\* carry an identifier are one component, whichever layers wrote them: the
\* rows' parent rays and captured header bridge the identifier spaces.
WholeJourney ==
    LET rows == {e \in Parsed : e.provider = "cloudflare"}
    IN  {r \in Records(journey) : r.provider = "cloudflare" /\ r.host = "site"}
            \subseteq delivered /\ Cardinality(rows) > 0
        => Cardinality(Exact(ByKey(Parsed))) = 1

\* Union-find finds the components of the shared-identifier graph: no component
\* could be split, and no two share an identifier (group.Exact).
ExactIsConnectivity ==
    LET components == Exact(ByKey(Parsed))
        Linked(e, f) == e.ids \intersect f.ids # {}
    IN  /\ UNION {c.events : c \in components} = {e \in Parsed : e.ids # {}}
        /\ \A c \in components :
              \A part \in SUBSET c.events : part # {} /\ part # c.events =>
                  \E e \in part, f \in c.events \ part : Linked(e, f)
        /\ \A c, d \in components : c # d => \A e \in c.events, f \in d.events : ~Linked(e, f)

\* DataDome's verdict: the last answer to the Worker, or what its export says.
BotStops(j) ==
    LET answer == j.bot[Len(j.bot)]
    IN  IF ViaWorker(j) THEN DataDomeVerdict(answer.status, answer.type).terminating
        ELSE Translated(ExportAction, j.bot[1].type).terminating

\* The layer that really stopped the request by a verdict, if one did.
StoppedAt(j) ==
    IF CloudflareVerdict(j.edge).terminating THEN Edge
    ELSE IF Bot \in Reaches(j) /\ Waf \notin Reaches(j) /\ BotStops(j) THEN Bot
    ELSE IF Waf \in Reaches(j) /\ j.waf \in {"blocked", "blocked_response"} THEN Waf
    ELSE Nowhere

\* FR-027: a flow is blamed on the layer that stopped the request as soon as it
\* has that layer's record, and on no other layer ever.
BlamesTheStop ==
    \A f \in flows :
        /\ f.stoppedBy \in {Nowhere, StoppedAt(journey)}
        /\ StoppedAt(journey) \in LayersOf(f.events) => f.stoppedBy = StoppedAt(journey)

\* Whether the request was answered by a verdict, the cache or the origin; a
\* challenge ends it as well, but Action.Terminal does not count it.
Answered(j) == StoppedAt(j) # Nowhere \/ j.edge.cacheHit \/ Origin \in Reaches(j)
LastLayer(j) ==
    CHOOSE l \in Reaches(j) : \A m \in Reaches(j) : m <= l

\* FR-019: once the flow has the record of the layer that answered the request, it
\* reports as missing the layers that the request passed and that it has no record of:
\* none that the request never came to, and no gap is hidden.
GapsAreReal ==
    \A f \in flows :
        Answered(journey) /\ LastLayer(journey) \in LayersOf(f.events)
            => f.missing = Reaches(journey) \ LayersOf(f.events)

\* A window that closes early closes a complete flow, and no late record makes
\* it partial again: window.Ready and Materialize agree on what complete means.
EarlyCloseIsComplete == \A f \in flows : f.key \in early => f.completeness = "complete"

\* FR-022: what a flow says depends on its events and not on the order in which
\* they arrived, amendments included.
SameFlowWhateverOrder ==
    \A f \in flows :
        LET again == Materialize(f.key, ByKey(EventsOf(f)),
                        [expected |-> Layer, method |-> f.method, bridged |-> f.bridged])
        IN  f = [again EXCEPT !.amended = f.amended]

\* verdict.Analyse: when a layer blocked what a shallower one had let through,
\* and the flow has the records of both, the flow shows it.
DisagreementSurfaced ==
    \A f \in flows :
        StoppedAt(journey) \in LayersOf(f.events)
        /\ f.outcome = "blocked"
        /\ (\E e \in EventsOf(f) : e.layer < StoppedAt(journey) /\ e.action = "allowed")
            => "blocked_after_allow" \in Analyse(f.events)

\* FR-021, FR-072d: records without identifiers are not joined while another
\* record of a provider among them is within the window of any of them.
NeverGuesses ==
    \A cluster \in Heuristic(loose \union Stranger, JoinWindow) :
        \A f \in loose \union Stranger :
            Joinable(f) /\ (\E e \in cluster : e # f /\ e.provider = f.provider)
                => \A g \in cluster : \/ g.time - f.time > JoinWindow
                                       \/ f.time - g.time > JoinWindow

\* datadome.go: an unknown answer must never mask a real block.  DataDome has stopped
\* the request, its block was delivered and waits in no window, and yet a flow has an
\* answer of unknown action and does not say that the bot layer stopped the request.
UnknownNeverMasks ==
    \A f \in flows : \A held \in EventsOf(f) :
        StoppedAt(journey) = Bot /\ held.layer = Bot /\ held.action = "unknown" =>
            \A r \in delivered : \A e \in Normalize(r) :
                e.layer = Bot /\ e.terminating /\ e \notin open => f.stoppedBy = Bot
=============================================================================

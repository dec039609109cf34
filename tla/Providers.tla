------------------------------ MODULE Providers ------------------------------
(***************************************************************************)
(* What the four providers write about a request and what the parsers make *)
(* of it: internal/normalize and its parsers.                              *)
(*                                                                         *)
(* A record is the fields the parsers read.  An identifier, a ray or a     *)
(* request id is a number, Absent when the field is missing, Placeholder   *)
(* when it holds a word for that.  Client, host, path and method are one   *)
(* number, Absent if any is missing.  A time is a number of ticks, NoTime  *)
(* for a missing and Unreadable for a malformed timestamp.                 *)
(* Parse returns the set of the event, empty for a ParseError.             *)
(***************************************************************************)
EXTENDS Integers, FiniteSets

Absent      == 0
Placeholder == 7
NoTime      == 0
Unreadable  == -1

\* NewIdentifier: neither a missing value nor "-", "n/a" and the like is a join key.
Usable(values) == values \ {Absent, Placeholder}

\* schema.Layer, numbered by Layer.Order.
Edge   == 0
Bot    == 1
Waf    == 2
Origin == 3
Layer  == Edge..Origin

Action == {"allowed", "logged", "rate_limited", "challenged", "challenge_passed",
           "challenge_failed", "blocked", "unknown"}

\* Action.Terminal.
Terminal == {"blocked", "challenge_failed", "rate_limited"}

Verdict(a, known) == [action |-> a, terminating |-> a \in Terminal, mapped |-> known]
Decided(a)     == Verdict(a, TRUE)
Unrecognised   == Verdict("unknown", FALSE)

\* A provider's word in its vocabulary; an unknown word is not guessed at.
Translated(vocabulary, word) ==
    IF word \in DOMAIN vocabulary THEN Decided(vocabulary[word]) ELSE Unrecognised

-----------------------------------------------------------------------------
\* AssessTime's bounds, in ticks: only their order matters.
SkewNotable   == 1
MaxFutureSkew == 3
MaxPastSkew   == 6

TimeFlags(time, receivedAt) ==
    CASE time = NoTime                      -> {"implausible_time"}
      [] time - receivedAt > MaxFutureSkew  -> {"implausible_time"}
      [] receivedAt - time > MaxPastSkew    -> {"implausible_time"}
      [] time - receivedAt > SkewNotable    -> {"clock_skew"}
      [] OTHER                              -> {}

\* Headers, by Masker's classification; one it does not list is sensitive.
Secret    == {"cookie"}
Sensitive == {"x-datadome-requestid"}

\* Masker.Apply: the values of these headers are no longer readable.
Mask(e) ==
    LET masked == e.readable \intersect (Secret \union Sensitive)
    IN  [e EXCEPT !.readable = @ \ masked,
                  !.flags = @ \union (IF masked = {} THEN {} ELSE {"fields_masked"})]

\* schema.Event, as far as it is modelled, for identifiers up to 6.
EventType ==
    [id : (1..4) \X Nat, provider : {"cloudflare", "datadome", "f5asm", "nginx"},
     layer : Layer, ids : SUBSET (1..6), action : Action,
     terminating : BOOLEAN, mapped : BOOLEAN, time : Int, cacheHit : BOOLEAN,
     suspicious : BOOLEAN, attributes : {0, 1},
     readable : SUBSET (Secret \union Sensitive),
     flags : SUBSET {"implausible_time", "clock_skew", "fields_masked",
                     "unmapped_values", "datadome_fields_absent", "no_correlation_key"}]

\* The fields every parser fills in the same way.
Observed(id, provider, layer, ids, verdict, r, receivedAt) ==
    [id |-> id, provider |-> provider, layer |-> layer, ids |-> Usable(ids),
     action |-> verdict.action, terminating |-> verdict.terminating,
     mapped |-> verdict.mapped, time |-> r.time, cacheHit |-> FALSE,
     suspicious |-> FALSE, readable |-> {}, attributes |-> r.attributes,
     flags |-> (IF verdict.mapped THEN {} ELSE {"unmapped_values"})
               \union TimeFlags(r.time, receivedAt)]

\* Event ids order as their strings do: by prefix, then by what follows it.
CF(n)  == <<1, n>>
DD(n)  == <<2, n>>
F5(n)  == <<3, n>>
NGX(n) == <<4, n>>
SmallerId(a, b) == a[1] < b[1] \/ (a[1] = b[1] /\ a[2] < b[2])

-----------------------------------------------------------------------------
(* Cloudflare Logpush.                                                     *)

\* One word for each group of synonyms in actionMap.
CloudflareAction ==
    [allow |-> "allowed", skip |-> "allowed", log |-> "logged", block |-> "blocked",
     managed_challenge |-> "challenged", solved |-> "challenge_passed",
     rate_limit |-> "rate_limited"]

\* The numeric WAFAction, by what its values mean.
LegacyWAFAction ==
    [allow |-> "allowed", block |-> "blocked", challenge |-> "challenged",
     log |-> "logged"]

\* The current fields win over the older ones; none of them is an allow.
CloudflareVerdict(r) ==
    CASE r.security # "" -> Translated(CloudflareAction, r.security)
      [] r.security = "" /\ r.firewall # "" -> Translated(CloudflareAction, r.firewall)
      [] r.security = "" /\ r.firewall = "" /\ r.wafAction # "" ->
            Translated(LegacyWAFAction, r.wafAction)
      [] OTHER -> Decided("allowed")

\* Mutant: the response type alone decides, enforced or not.
DataDomeVerdictByType(status, type) ==
    CASE type = "hard_block" -> Decided("blocked")
      [] type \in {"interstitial", "block"} -> Decided("challenged")
      [] OTHER -> Decided("allowed")

\* DataDome's decision is logged if it was not enforced, and its type says which one
\* it was if it was.
DataDomeVerdict(status, type) ==
    LET monitored == IF type \in {"interstitial", "block", "hard_block"}
                     THEN Decided("logged")
                     ELSE Verdict("allowed", type \in {"authorize", ""})
        enforced  == IF type = "hard_block" THEN Decided("blocked")
                     ELSE Verdict("challenged", type \in {"interstitial", "block", ""})
    IN  IF status = 200 THEN monitored
        ELSE IF status = 403 THEN enforced
        ELSE Unrecognised

\* "00", the parent of a top-level request, is Absent here.
IsDataDomeCall(r) == r.host = "datadome" /\ r.parent # Absent

\* The Worker's call becomes the bot layer's verdict on the request it was made
\* for, named by that request's ray.  Its timestamp may be malformed.
DeriveDataDome(r, receivedAt) ==
    LET when == [r EXCEPT !.time = IF r.time = Unreadable THEN NoTime ELSE @,
                          !.attributes = Absent]
    IN  Observed(DD(r.parent), "datadome", Bot, {r.parent},
                 DataDomeVerdict(r.status, r.type), when, receivedAt)

\* headerLookup over the captured response and request headers.
Captured(r, header) == header \in r.responseHeaders \union r.requestHeaders

\* identifiers: a row may carry three, and joins what knows any of them.
CloudflareIds(r) ==
    {r.ray, r.parent}
    \union (IF Captured(r, "x-datadome-requestid") THEN {r.requestId} ELSE {})

\* mapBot: any of these headers shows that DataDome ran.
DataDomeSignals ==
    {"x-datadome-requestid", "x-datadome-isbot", "x-datadome-traffic-rule-response"}
DataDomePresent(r) == \E header \in DataDomeSignals : Captured(r, header)

EdgeEvent(r, receivedAt) ==
    LET seen == Observed(CF(r.ray), "cloudflare", Edge, CloudflareIds(r),
                         CloudflareVerdict(r), r, receivedAt)
    IN  [seen EXCEPT
            !.cacheHit = r.cacheHit,
            !.suspicious = r.lowScore,
            !.readable = r.requestHeaders,
            !.flags = @ \union (IF DataDomePresent(r) THEN {}
                                ELSE {"datadome_fields_absent"})]

ParseCloudflare(r, receivedAt) ==
    IF r.ray = Absent THEN {}
    ELSE IF IsDataDomeCall(r) THEN {DeriveDataDome(r, receivedAt)}
    ELSE IF r.time = Unreadable THEN {}
    ELSE {EdgeEvent(r, receivedAt)}

-----------------------------------------------------------------------------
(* DataDome's own export, F5 ASM and nginx.                                *)

ExportAction ==
    [allow |-> "allowed", authorize |-> "allowed", block |-> "blocked",
     hard_block |-> "blocked", captcha |-> "challenged",
     interstitial |-> "challenged", challenge |-> "challenged"]

ParseDataDome(r, receivedAt) ==
    IF r.requestId = Absent \/ r.time = Unreadable THEN {}
    ELSE LET e == Observed(DD(r.requestId), "datadome", Bot, {r.requestId},
                           Translated(ExportAction, r.type), r, receivedAt)
         IN  {[e EXCEPT !.suspicious = r.lowScore]}

RequestStatus == [blocked |-> "blocked", alerted |-> "logged", passed |-> "allowed"]

NoKeyFlag(ray) == IF Usable({ray}) = {} THEN {"no_correlation_key"} ELSE {}

\* What a dedicated field holds, taken as it is (a colo suffix, which cfRayRE and the
\* parser of nginx strip, makes it another identifier), else the header in the captured
\* request text.  A placeholder in the field keeps the text from being looked at.
F5Ray(r) == IF r.rayField # Absent THEN r.rayField ELSE r.rayText

ParseF5(r, receivedAt) ==
    IF r.supportId = Absent \/ r.time = Unreadable THEN {}
    ELSE LET e == Observed(F5(r.supportId), "f5asm", Waf, {F5Ray(r)},
                           Translated(RequestStatus, r.requestStatus), r, receivedAt)
         IN  {[e EXCEPT !.flags = @ \union NoKeyFlag(F5Ray(r))]}

\* statusToAction; an application's answer never terminates a request.
StatusAction(status) ==
    CASE status = 429 -> "rate_limited"
      [] status \in {401, 403} -> "blocked"
      [] OTHER -> "allowed"

StatusVerdict(status) ==
    [action |-> StatusAction(status), terminating |-> FALSE, mapped |-> TRUE]

ParseNginx(r, receivedAt) ==
    IF r.time = Unreadable \/ (r.time = NoTime /\ ~r.hasURI) THEN {}
    ELSE LET e == Observed(NGX(r.hash), "nginx", Origin, {r.ray},
                           StatusVerdict(r.status), r, receivedAt)
         IN  {[e EXCEPT !.flags = @ \union NoKeyFlag(r.ray)]}

Parse(r, receivedAt) ==
    CASE r.provider = "cloudflare" -> ParseCloudflare(r, receivedAt)
      [] r.provider = "datadome"   -> ParseDataDome(r, receivedAt)
      [] r.provider = "f5asm"      -> ParseF5(r, receivedAt)
      [] r.provider = "nginx"      -> ParseNginx(r, receivedAt)
=============================================================================

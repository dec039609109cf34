----------------------------- MODULE MCPipeline -----------------------------
(***************************************************************************)
(* Small instances of Pipeline.  Identifiers are numbered in their         *)
(* lexicographic order, so that a key is the smallest of a set.            *)
(***************************************************************************)
EXTENDS Pipeline, TLC

CONSTANTS edge, bot, fetch, origin, stray, acme, globex, loop, main

CONSTANT MaxDocuments    \* how many flow documents a run lets into the store

\* One request in four records.  Cloudflare's row carries DataDome's request id 1
\* and its own ray 2, its origin-fetch row the parent ray 2 and the origin ray 3;
\* the bot record has only the request id, the nginx record only the origin ray.
OneRequestIds    == (edge :> {1, 2}) @@ (bot :> {1}) @@ (fetch :> {2, 3}) @@ (origin :> {3})
OneRequestLayer  == (edge :> 0) @@ (bot :> 1) @@ (fetch :> 0) @@ (origin :> 3)
OneRequestTime   == (edge :> 1) @@ (bot :> 2) @@ (fetch :> 2) @@ (origin :> 3)
OneRequestTenant == [e \in {edge, bot, fetch, origin} |-> acme]

\* The same request without the nginx record.
ThreeIds    == [e \in {edge, bot, fetch} |-> OneRequestIds[e]]
ThreeLayer  == [e \in {edge, bot, fetch} |-> OneRequestLayer[e]]
ThreeTime   == [e \in {edge, bot, fetch} |-> OneRequestTime[e]]
ThreeTenant == [e \in {edge, bot, fetch} |-> acme]

\* A request whose records all carry its ray, 1.  Each is older than those that the
\* stream delivers before it, as when providers deliver at different speeds.
RayIds    == (edge :> {1, 2}) @@ (fetch :> {1, 3}) @@ (origin :> {1})
RayLayer  == [e \in {edge, fetch, origin} |-> OneRequestLayer[e]]
RayTime   == (edge :> 3) @@ (fetch :> 2) @@ (origin :> 1)
RayTenant == [e \in {edge, fetch, origin} |-> acme]

\* Another tenant's request beside it.
TwoTenantIds  == (edge :> {1, 2}) @@ (bot :> {1}) @@ (stray :> {3})
StrayLayer    == (edge :> 0) @@ (bot :> 1) @@ (stray :> 3)
StrayTime     == (edge :> 1) @@ (bot :> 2) @@ (stray :> 2)
StrayTenant   == (edge :> acme) @@ (bot :> acme) @@ (stray :> globex)

\* Redelivery has no bound in the code; each one may add a document.
FewDocuments == Cardinality(store) <= MaxDocuments

\* No two versions of a flow have the same _time, so that which one is the newest does
\* not depend on how the store breaks a tie.
NoTies ==
    \A d, e \in store : d.key = e.key /\ d # e => FirstSeen(d) # FirstSeen(e)

\* No record is delivered twice.
DeliveredOnce == Len(records') > Len(records) => records'[Len(records')] \notin accepted
=============================================================================

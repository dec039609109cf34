----------------------------- MODULE MCLogProc -----------------------------
(***************************************************************************)
(* Small instances of LogProc: the records of MCPipeline, one message each.*)
(***************************************************************************)
EXTENDS LogProc, TLC

CONSTANTS edge, fetch, bad, alien, acme

\* The edge row and the origin-fetch row of one request: neither has the other's
\* smallest identifier.
BridgeIds    == (edge :> {1, 2}) @@ (fetch :> {2, 3})
BridgeLayer  == [e \in {edge, fetch} |-> 0]
BridgeTime   == (edge :> 1) @@ (fetch :> 2)
BridgeTenant == [e \in {edge, fetch} |-> acme]

\* A good record beside one that does not parse and one without a parser.
PoisonIds    == (edge :> {1}) @@ (bad :> {}) @@ (alien :> {})
PoisonLayer  == [e \in {edge, bad, alien} |-> 0]
PoisonTime   == [e \in {edge, bad, alien} |-> 1]
PoisonTenant == [e \in {edge, bad, alien} |-> acme]

\* The two poison messages are published before the good record.
PoisonFirst ==
    \A e \in pending' \ pending :
        /\ e = bad => alien \in pending
        /\ e = edge => bad \in pending \union acked

\* Redelivery after a close may add a document each time.
CONSTANT MaxDocuments
FewDocuments == Cardinality(store) <= MaxDocuments
=============================================================================

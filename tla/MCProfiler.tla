---------------------------- MODULE MCProfiler ----------------------------
(***************************************************************************)
(* Small instances of Profiler.  The thresholds are as small as they can   *)
(* be: two samples of one type collapse a position.                        *)
(***************************************************************************)
EXTENDS Profiler

CONSTANTS m1, m2, m3, m4, m5, m6, bad, n1, n2, u1, u2

Kinds == [s \in {n1, n2} |-> "int"] @@ [s \in {u1, u2} |-> "uuid"]

\* The stream: two numbers at one position, with a segment below them; then two uuids,
\* whose collapse replaces the decision for the numbers; then the first paths again,
\* which have become literal and meet what was learned of them before.
Stream == <<bad, m1, m2, m3, m4, m5, m6>>
Paths == (m1 :> <<n1, n2>>) @@ (m2 :> <<n2, n2>>) @@ (m3 :> <<u1>>) @@ (m4 :> <<u2>>)
         @@ (m5 :> <<n1, n2>>) @@ (m6 :> <<n2, n2>>) @@ (bad :> << >>)
JobFlow == [m \in Message |-> CHOOSE i \in DOMAIN Stream : Stream[i] = m]
JobPath == [m \in Message |-> Paths[m]]

\* Of the messages that it can deliver, a consumer delivers the oldest.
InStreamOrder ==
    \A m \in queue \ queue' : \A n \in queue : FlowOf[m] <= FlowOf[n]

\* A fault strikes the first process, and of a flush or a look at the dedupe set one
\* message.
OneFaultEarly ==
    /\ faults' > faults => boots = 1
    /\ stage' # "down" =>
          /\ pending' = EmptyBag => Cardinality(BagToSet(pending) \ acked') <= 1
          /\ Cardinality(seen \ seen') <= 1

Bounds == InStreamOrder /\ OneFaultEarly
============================================================================

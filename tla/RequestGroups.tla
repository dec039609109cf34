---------------------------- MODULE RequestGroups ----------------------------
(***************************************************************************)
(* What correlation promises, whatever its data structures: events that    *)
(* share an identifier, directly or through other open events, form one    *)
(* group, and a group closes as a whole.  Pipeline implements it.          *)
(***************************************************************************)
CONSTANTS Event, Ids

VARIABLES
    waiting,    \* events accepted and not yet grouped
    groups      \* the open groups, sets of events

Init ==
    /\ waiting = {}
    /\ groups = {}

Linked(e, f) == Ids[e] \intersect Ids[f] # {}

\* The open groups that e belongs to.
Touched(e) == {G \in groups : \E f \in G : Linked(e, f)}

Accept(e) ==
    /\ waiting' = waiting \union {e}
    /\ UNCHANGED groups

\* e joins every group it shares an identifier with, which makes them one.
Group(e) ==
    /\ e \in waiting
    /\ Ids[e] # {}
    /\ waiting' = waiting \ {e}
    /\ groups' = (groups \ Touched(e)) \union {{e} \union UNION Touched(e)}

\* An event without identifiers joins nothing.
Skip(e) ==
    /\ e \in waiting
    /\ Ids[e] = {}
    /\ waiting' = waiting \ {e}
    /\ UNCHANGED groups

Close ==
    /\ \E closed \in SUBSET groups : groups' = groups \ closed
    /\ UNCHANGED waiting

Next ==
    \/ \E e \in Event : Accept(e) \/ Group(e) \/ Skip(e)
    \/ Close

Spec == Init /\ [][Next]_<<waiting, groups>>

-----------------------------------------------------------------------------
TypeOK ==
    /\ waiting \subseteq Event
    /\ groups \subseteq SUBSET Event

\* Two groups share no identifier.
GroupsApart ==
    \A G, H \in groups : \A e \in G, f \in H : Linked(e, f) => G = H

\* A group cannot be cut in two parts that share no identifier.
Whole(G) ==
    \A part \in SUBSET G :
        part # {} /\ part # G => \E e \in part, f \in G \ part : Linked(e, f)

GroupsWhole == \A G \in groups : Whole(G)
=============================================================================

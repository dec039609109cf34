------------------------- MODULE RequestGroups_proofs -------------------------
(***************************************************************************)
(* The two halves of "a group is a connected component": what is apart     *)
(* shares no identifier, what is together cannot be cut.                   *)
(***************************************************************************)
EXTENDS RequestGroups, TLAPS

\* Groups hold events and nothing else.
THEOREM GroupsTyped == Spec => []TypeOK
<1>1. Init => TypeOK
  BY DEF Init, TypeOK
<1>2. TypeOK /\ [Next]_<<waiting, groups>> => TypeOK'
  BY DEF TypeOK, Next, Accept, Group, Skip, Close, Touched
<1> QED
  BY <1>1, <1>2, PTL DEF Spec

\* Linking is symmetric.
LEMMA LinkedSymmetric == \A e, f : Linked(e, f) <=> Linked(f, e)
BY DEF Linked

\* The group e makes contains e and every group it touched, and no identifier of
\* it is left in any other group.
LEMMA GroupKeepsApart ==
    ASSUME GroupsApart, NEW e, Group(e)
    PROVE  GroupsApart'
<1> DEFINE new == {e} \union UNION Touched(e)
<1>1. groups' = (groups \ Touched(e)) \union {new}
  BY DEF Group
<1>2. \A H \in groups \ Touched(e) : \A f \in new, g \in H : ~ Linked(f, g)
  <2> SUFFICES ASSUME NEW H \in groups \ Touched(e), NEW f \in new, NEW g \in H,
                      Linked(f, g)
               PROVE  FALSE
    OBVIOUS
  <2>1. CASE f = e
    BY <2>1 DEF Touched
  <2>2. CASE f # e
    <3>1. PICK G \in Touched(e) : f \in G
      BY <2>2
    <3>2. G = H
      BY <3>1 DEF GroupsApart, Touched
    <3> QED
      BY <3>1, <3>2
  <2> QED
    BY <2>1, <2>2
<1>3. \A G, H \in groups' : \A f \in G, g \in H : Linked(f, g) => G = H
  <2> SUFFICES ASSUME NEW G \in groups', NEW H \in groups',
                      NEW f \in G, NEW g \in H, Linked(f, g)
               PROVE  G = H
    OBVIOUS
  <2>1. CASE G = new /\ H # new
    BY <1>1, <1>2, <2>1
  <2>2. CASE H = new /\ G # new
    BY <1>1, <1>2, <2>2, LinkedSymmetric
  <2>3. CASE G # new /\ H # new
    BY <1>1, <2>3 DEF GroupsApart
  <2> QED
    BY <2>1, <2>2, <2>3
<1> QED
  BY <1>3 DEF GroupsApart, Linked

\* Two open groups never share an identifier: no request is split.
THEOREM GroupsStayApart == Spec => []GroupsApart
<1>1. Init => GroupsApart
  BY DEF Init, GroupsApart
<1>2. GroupsApart /\ [Next]_<<waiting, groups>> => GroupsApart'
  <2> SUFFICES ASSUME GroupsApart, [Next]_<<waiting, groups>>
               PROVE  GroupsApart'
    OBVIOUS
  <2>1. CASE UNCHANGED groups
    BY <2>1 DEF GroupsApart, Linked
  <2>2. ASSUME NEW e \in Event, Group(e)
        PROVE  GroupsApart'
    BY <2>2, GroupKeepsApart
  <2>3. CASE Close
    BY <2>3 DEF Close, GroupsApart, Linked
  <2> QED
    BY <2>1, <2>2, <2>3 DEF Next, Accept, Skip
<1> QED
  BY <1>1, <1>2, PTL DEF Spec

\* A new event glues whole groups, each linked to it, into a whole group.
LEMMA GluingIsWhole ==
    ASSUME NEW e, NEW S, \A G \in S : Whole(G),
           \A G \in S : \E f \in G : Linked(e, f)
    PROVE  Whole({e} \union UNION S)
<1> DEFINE new == {e} \union UNION S
<1> SUFFICES ASSUME NEW part \in SUBSET new, part # {}, part # new
             PROVE  \E f \in part, g \in new \ part : Linked(f, g)
  BY DEF Whole
\* Some member lies on the other side of the cut than e.
<1>1. PICK x \in new : x \in part <=> e \notin part
  OBVIOUS
<1>2. PICK G \in S : x \in G
  BY <1>1
<1>3. PICK f \in G : Linked(e, f)
  OBVIOUS
<1>4. CASE f \in part <=> e \notin part
  BY <1>2, <1>3, <1>4, LinkedSymmetric
\* Otherwise the cut goes through G, which is whole.
<1>5. CASE f \in part <=> e \in part
  <2> DEFINE piece == part \intersect G
  <2>1. piece \in SUBSET G /\ piece # {} /\ piece # G
    BY <1>1, <1>2, <1>3, <1>5
  <2>2. PICK h \in piece, g \in G \ piece : Linked(h, g)
    BY <2>1 DEF Whole
  <2> QED
    BY <2>2, <1>2
<1> QED
  BY <1>4, <1>5

\* A group never holds two requests that nothing connects.
THEOREM GroupsStayWhole == Spec => []GroupsWhole
<1>1. Init => GroupsWhole
  BY DEF Init, GroupsWhole
<1>2. GroupsWhole /\ [Next]_<<waiting, groups>> => GroupsWhole'
  <2> SUFFICES ASSUME GroupsWhole, [Next]_<<waiting, groups>>
               PROVE  GroupsWhole'
    OBVIOUS
  <2>1. CASE UNCHANGED groups
    BY <2>1 DEF GroupsWhole, Whole, Linked
  <2>2. ASSUME NEW e \in Event, Group(e)
        PROVE  GroupsWhole'
    <3>1. Whole({e} \union UNION Touched(e))
      BY GluingIsWhole DEF GroupsWhole, Touched
    <3>2. \A G \in groups' : Whole(G)
      BY <2>2, <3>1 DEF Group, GroupsWhole
    <3> QED
      BY <3>2 DEF GroupsWhole, Whole, Linked
  <2>3. CASE Close
    BY <2>3 DEF Close, GroupsWhole, Whole, Linked
  <2> QED
    BY <2>1, <2>2, <2>3 DEF Next, Accept, Skip
<1> QED
  BY <1>1, <1>2, PTL DEF Spec
=============================================================================

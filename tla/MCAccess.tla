-------------------------------- MODULE MCAccess --------------------------------
(***************************************************************************)
(* The instance of Access for TLC.                                         *)
(***************************************************************************)
EXTENDS Access, TLC

Row(active, role, password, enrolled) ==
    [known |-> TRUE, active |-> active, role |-> role, password |-> password,
     secret |-> enrolled, enrolled |-> enrolled]

\* A fresh deployment, and one with an administrator and an analyst.
Tables == {[root |-> NoRow, ann |-> NoRow],
           [root |-> Row(TRUE, "admin", TRUE, TRUE),
            ann  |-> Row(TRUE, "analyst", FALSE, FALSE)]}

\* The analyst is one of the seeded people.
People == [p \in {"ann"} |-> "analyst"]

Bodies == {[active |-> "off", role |-> "analyst", resetMFA |-> TRUE]}

\* Three sessions and links in all: two sessions and a link, or the reverse.
FewIssued == Len(refresh) + Len(invites) <= 3

SameClients == Permutations(Client)
=============================================================================

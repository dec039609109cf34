------------------------------ MODULE MCRetention ------------------------------
(***************************************************************************)
(* The instance of Retention for TLC.                                      *)
(***************************************************************************)
EXTENDS Retention, TLC

\* Everything; the first day only; a range whose end cannot be parsed.
HoldScopes == {[from |-> Absent, to |-> Absent],
               [from |-> 1, to |-> 1],
               [from |-> 2, to |-> Unreadable]}

\* Through all the tiers; without a cold window.
TierPolicies == {[hot |-> 1, warm |-> 0, cold |-> 2], [hot |-> 1, warm |-> 1, cold |-> 0]}

\* Nothing but the process and the clock is shared by the runs of Apply, which read
\* the holds, and the raw passes, which read the windows: one of the two varies.
HoldsOrWindows ==
    \/ \A h \in Hold : holds[h].state = "none"
    \/ \A t \in Tenant : {rawDays[t], shortest[t]} = {RawRetentionMinDays}

SameIds == Permutations(Hold) \cup Permutations(Tenant)
===============================================================================

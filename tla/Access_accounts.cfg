CONSTANTS
    Client       = {c1, c2}
    Account      = {"root", "ann"}
    Bootstrap    = "root"
    Starts       <- Tables
    Changes      <- Bodies
    Offered      = {"analyst"}
    DevSkipMFA   = FALSE
    Seeds        <- People
    SeedPassword = FALSE
    Second       = 2
    AccessTTL    = 1
    RefreshTTL   = 3
    ChallengeTTL = 2
    InviteTTL    = 1
    Begin        = 1
    MaxTime      = 3
    MaxToken     = 2
    MaxInvite    = 2
SPECIFICATION Spec
CONSTRAINT FewIssued
SYMMETRY SameClients
CHECK_DEADLOCK FALSE
INVARIANTS
    AccessTypeOK
    LinkSetsOnePassword
    RevokedStaysOut
    CallerWasEntitled
    EnrolledHasSecret

CONSTANTS
    Hold      = {h1, h2}
    NoHold    = NoHold
    Scopes    <- HoldScopes
    Policies  <- TierPolicies
    Tenant    = {t1, t2}
    RawRetentionMinDays = 1
    RawRetentionMaxDays = 2
    MaxTime   = 3
SPECIFICATION Spec
CONSTRAINT HoldsOrWindows
SYMMETRY SameIds
INVARIANT
    RecordedIsPreserved
PROPERTIES
    HeldIsKept
    RawOutlivesWindow

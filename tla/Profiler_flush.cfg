SPECIFICATION FairProfSpec
ACTION_CONSTRAINT Bounds
CONSTANTS
    m1 = m1
    m2 = m2
    m3 = m3
    m4 = m4
    m5 = m5
    m6 = m6
    bad = bad
    n1 = n1
    n2 = n2
    u1 = u1
    u2 = u2
    Segment = {n1, n2, u1, u2}
    KindOf <- Kinds
    Message = {m1, m2, m3, m4, m5, m6, bad}
    FlowOf <- JobFlow
    PathOf <- JobPath
    MinSamples = 2
    MaxDistinct = 2
    MinDistinctForType = 2
    VarRepeatFactor = 2
    Garbled = {bad}
    MaxEndpoints = 3
    MaxPendingFlows = 1
    PolicyMayRefuse = FALSE
    MayCrash = TRUE
    MaxFaults = 1
    MaxBoots = 2
INVARIANTS
    ProfTypeOK
    AckedIsCommitted
    RowsFollowEndpoints
    EvidenceConserved
    TemplatesSettled
PROPERTIES
    EventuallyFlushed

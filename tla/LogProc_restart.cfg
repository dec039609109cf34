SPECIFICATION LogProcSpec
CONSTANTS
    edge = edge
    fetch = fetch
    bad = bad
    alien = alien
    acme = acme
    Loop = Loop
    Main = Main
    Event = {edge, fetch}
    Identifier = {1, 2, 3}
    Tenant = {acme}
    Flusher = {Loop, Main}
    Ids <- BridgeIds
    TenantOf <- BridgeTenant
    LayerOf <- BridgeLayer
    TimeOf <- BridgeTime
    Terminating = {}
    ExpectedLayers = 3
    LateArrival = 1
    StoreChunk = 1
    StoreMayFail = TRUE
    LoadMayFail = FALSE
    MayForget = FALSE
    MayCrash = FALSE
    FetchMayFail = TRUE
    ValkeyMayFail = FALSE
    Unparsable = {}
    NoParser = {}
    MaxFaults = 1
    MaxBoots = 2
    MaxDocuments = 2
INVARIANTS
    LogProcTypeOK
    RestartKeepsAcked
CONSTRAINT FewDocuments

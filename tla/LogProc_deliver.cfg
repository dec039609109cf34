SPECIFICATION FairLogProcSpec
CONSTANTS
    edge = edge
    fetch = fetch
    bad = bad
    alien = alien
    acme = acme
    Loop = Loop
    Main = Main
    Event = {edge, bad, alien}
    Identifier = {1}
    Tenant = {acme}
    Flusher = {Loop, Main}
    Ids <- PoisonIds
    TenantOf <- PoisonTenant
    LayerOf <- PoisonLayer
    TimeOf <- PoisonTime
    Terminating = {}
    ExpectedLayers = 3
    LateArrival = 1
    StoreChunk = 1
    StoreMayFail = FALSE
    LoadMayFail = FALSE
    MayForget = FALSE
    MayCrash = TRUE
    FetchMayFail = FALSE
    ValkeyMayFail = TRUE
    Unparsable = {bad}
    NoParser = {alien}
    MaxFaults = 1
    MaxBoots = 2
    MaxDocuments = 2
PROPERTIES
    EventuallyStored
    EventuallyAcked
ACTION_CONSTRAINT PoisonFirst

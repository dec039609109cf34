SPECIFICATION Spec
CONSTANTS
    edge = edge
    bot = bot
    fetch = fetch
    origin = origin
    stray = stray
    acme = acme
    globex = globex
    loop = loop
    main = main
    Event = {edge, bot, stray}
    Identifier = {1, 2, 3}
    Tenant = {acme, globex}
    Flusher = {loop, main}
    Ids <- TwoTenantIds
    TenantOf <- StrayTenant
    LayerOf <- StrayLayer
    TimeOf <- StrayTime
    Terminating = {bot}
    ExpectedLayers = 3
    LateArrival = 1
    StoreChunk = 2
    StoreMayFail = TRUE
    LoadMayFail = TRUE
    MayForget = TRUE
    MaxDocuments = 2
INVARIANTS
    DocumentsAreRequests
CONSTRAINT FewDocuments

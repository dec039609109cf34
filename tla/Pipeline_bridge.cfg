SPECIFICATION Spec
CONSTANTS
    edge = edge
    bot = bot
    fetch = fetch
    origin = origin
    stray = stray
    acme = acme
    globex = globex
    loop = loop
    main = main
    Event = {edge, bot, fetch, origin}
    Identifier = {1, 2, 3}
    Tenant = {acme, globex}
    Flusher = {loop}
    Ids <- OneRequestIds
    TenantOf <- OneRequestTenant
    LayerOf <- OneRequestLayer
    TimeOf <- OneRequestTime
    Terminating = {}
    ExpectedLayers = 3
    LateArrival = 2
    StoreChunk = 1
    StoreMayFail = FALSE
    LoadMayFail = TRUE
    MayForget = FALSE
    MaxDocuments = 1
INVARIANTS
    TypeOK
    IndexConsistent
    EventsHeldOnce
    OneWindowPerRequest
    WindowsAreRequests
    AcceptedIsKept
    AgeCoversWait
PROPERTIES
    ImplementsRequestGroups
CONSTRAINT FewDocuments

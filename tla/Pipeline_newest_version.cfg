SPECIFICATION Spec
CONSTANTS
    edge = edge
    bot = bot
    fetch = fetch
    origin = origin
    stray = stray
    acme = acme
    globex = globex
    loop = loop
    main = main
    Event = {edge, fetch, origin}
    Identifier = {1, 2, 3}
    Tenant = {acme, globex}
    Flusher = {loop}
    Ids <- RayIds
    TenantOf <- RayTenant
    LayerOf <- RayLayer
    TimeOf <- RayTime
    Terminating = {}
    ExpectedLayers = 3
    LateArrival = 1
    StoreChunk = 1
    StoreMayFail = FALSE
    LoadMayFail = FALSE
    MayForget = FALSE
    MaxDocuments = 3
PROPERTIES
    CurrentVersionGrows
CONSTRAINTS FewDocuments NoTies
ACTION_CONSTRAINT DeliveredOnce

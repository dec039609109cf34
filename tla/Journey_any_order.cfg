CONSTANTS
    EdgeAnswer   <- EdgeAnswers
    BotAnswer    <- BotAnswers
    WafAnswer    <- WafAnswers
    OriginAnswer = {200, 403}
    Clock        <- Clocks
    RayCapture   = {"request", "placeholder"}
    Deployment   = {"worker", "export"}
    Calls        = 1
    ReceivedAt   = 3
    JoinWindow   = 1
    Stranger     <- Strangers
SPECIFICATION Spec
INVARIANTS
    JourneyTypeOK
    WholeJourney
    ExactIsConnectivity
    BlamesTheStop
    GapsAreReal
    EarlyCloseIsComplete
    SameFlowWhateverOrder
    DisagreementSurfaced
    NeverGuesses

CONSTANTS
    EdgeAnswer   <- EdgeAnswers
    BotAnswer    <- BotAnswers
    WafAnswer    <- WafAnswers
    OriginAnswer = {200, 403}
    Clock        <- Clocks
    RayCapture   = {"request", "none"}
    Deployment   = {"worker"}
    Calls        = 2
    ReceivedAt   = 3
    JoinWindow   = 1
    Stranger     <- Strangers
SPECIFICATION Spec
INVARIANT
    UnknownNeverMasks

CONSTANTS
    Provider   = {"cloudflare", "nginx"}
    Bodies     <- Deliveries
    RuleSets   <- AssetRules
    Exported   = {1, 3}
    Cadence    = 1
    PullWindow = 1
    ChunkLimit = 1
    MaxTime    = 3
    MaxSecret  = 2
    MaxFaults  = 1
SPECIFICATION Spec
CONSTRAINT QuietAtTheEnd
INVARIANTS
    SourcesTypeOK
    AnsweredIsKept
    WatermarkBehindBuffer
PROPERTY
    SilenceIsSeen

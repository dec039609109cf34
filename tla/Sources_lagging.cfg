CONSTANTS
    Provider   = {"cloudflare", "nginx"}
    Bodies     <- Readable
    RuleSets   <- AssetRules
    Exported   = {1, 3}
    Cadence    = 1
    PullWindow = 1
    ChunkLimit = 1
    MaxTime    = 4
    MaxSecret  = 1
    MaxFaults  = 0
SPECIFICATION Spec
INVARIANT
    LagIsNotSilence

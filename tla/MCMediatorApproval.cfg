SPECIFICATION AllSpec
CONSTANTS
    Manifests <- MCManifests
    Paths <- MCPaths
    Start = 0
    LastTime = 2
    Manifest <- GateManifest
    Ops <- MCOps
    Boots <- MCBoots
    LiveStates = {"bound"}
    Tier <- MCTier
    Ttl <- MCTtl
    Cap <- MCCap
    MaxCalls = 3
    MaxTime = 3
    FaultBudget = 0
    MayCrash = FALSE
INVARIANTS
    ExplicitWins
    ApprovalNeverBypassed
    EffectsAuthorised
    AutoConsumeJustified
    NoNagging
PROPERTIES
    DeniedStaysDenied

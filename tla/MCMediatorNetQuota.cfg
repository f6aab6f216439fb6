SPECIFICATION Spec
CONSTANTS
    Manifest <- MCManifest
    Ops <- MCOps
    Tier <- MCTier
    Ttl <- MCTtl
    Cap <- MCCap
    Boots <- MCBoots
    LiveStates = {"bound", "drifted", "missing"}
    MaxCalls = 3
    MaxTime = 0
    FaultBudget = 1
    MayCrash = TRUE
INVARIANTS
    NetworkQuotaHolds

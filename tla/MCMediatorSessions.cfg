SPECIFICATION Spec
CONSTANTS
    Manifest <- MCManifest
    Ops <- MCOps
    Tier <- MCTier
    Ttl <- MCTtl
    Cap <- MCCap
    Boots <- MCBoots
    LiveStates = {"bound", "drifted", "missing"}
    MaxCalls = 3
    MaxTime = 1
    FaultBudget = 1
    MayCrash = TRUE
INVARIANTS
    QuotaHolds
    ResultsAccounted
    LedgerMatchesEffects
    AttestationFaithful
    HaltOnDrift

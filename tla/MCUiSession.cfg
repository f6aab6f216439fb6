SPECIFICATION FairSpec
CONSTANTS
    Conns = {c1, c2}
    Forks = {f1, f2}
    First = m1
    Models = {m1, m2, m3}
    Cached = {m1, m2}
    BackendKinds = {"llama", "litertlm", "stub"}
    Raws <- MCRaws
    MaxTokens = 1
    MaxChunks = 2
    Budgets <- MCBudgets
INVARIANTS
    FramesWellFormed
    TurnsDoNotMix
    HandlesOwned
    ForkSound

    
CHECK_DEADLOCK FALSE

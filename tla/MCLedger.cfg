SPECIFICATION MCSpec
CONSTANTS
    MaxAppends = 4
    MaxFailures = 2
    MaxEdits = 2
INVARIANTS
    AcceptedIsAcked
    CrashLeavesChain
    AckedDurable
    VerifyIsExact
    HashCommits

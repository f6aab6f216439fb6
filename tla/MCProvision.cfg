SPECIFICATION Spec
CONSTANTS
    Pullers = {p1, p2}
    Artefacts = {"model", "image", "unsigned", "unannotated", "misannotated"}
    Initers = {i1, i2}
    NoOne = NoOne
    Budgets <- MCBudgets
INVARIANTS
    PullVerified
    BadgeHonest
    KilledPullHarmless
    OneCa
    BoundVerified
    StalePolicyCaught
CHECK_DEADLOCK FALSE

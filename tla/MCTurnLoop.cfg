SPECIFICATION Spec
CONSTANTS
    Limits <- MCLimits
    Usages = {0, 2}
    U64Max = 3
    CallBound <- MCCallBound
    MaxElapsed = 1
INVARIANTS
    TurnsBracketed
    HistoryFaithful
    BudgetHolds
    CapOnlyUnfinished

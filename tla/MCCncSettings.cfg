SPECIFICATION Spec
CONSTANTS
    w1 = w1
    w2 = w2
    Windows <- TwoWindows
    Choices <- MCChoices
    Stored <- MCStored
    Budgets <- MCBudgets
SYMMETRY Alike
INVARIANTS
    TypeOK
    ShownIsSaved
    OthersWritten
    PortOpen

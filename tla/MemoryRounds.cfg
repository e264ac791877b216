CONSTANTS
    k1 = k1
    k2 = k2
    k3 = k3
    Keys <- ThreeKeys
    Rss = {1, 3}
    MaxIdle = 1
    Budgets <- SmallBudgets
    Unset = Unset
    MiB = 2
    WordSize = 16
    MaxChanges = 1
SPECIFICATION FairSpec
CHECK_DEADLOCK FALSE
INVARIANTS
    TypeOK
    PriorityKept
    LastChoiceNeeded
    QuietRoundMeetsBudget
    OnlyPressureEvicts
PROPERTIES
    BudgetIsMetInTheEnd

CONSTANTS
    Nodes = {"a", "b", "c", "d", "e", "f", "g", "h", "i"}
    Top = "top"
    Codes = {"p", "q", "r", "s", "t"}
    Budgets <- SmallBudgets
    PageSize = 2
    SelfInPages = {TRUE, FALSE}
    Configured = {0, 1, 2, 3}
    Fails = {0, 3, 6}
    None = None
SPECIFICATION TreeFairSpec
INVARIANTS
    CompleteTree
    CountsEachLeafOnce
PROPERTIES
    BuildEnds
CHECK_DEADLOCK FALSE

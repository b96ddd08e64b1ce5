CONSTANTS
    Codes = {"c1", "c2", "c3", "c4", "c5", "c6", "d1", "d2"}
    Dims = {"project", "other"}
    NoCode = "none"
    Parent <- Hierarchy
    MaxLevels = 5
    Trees <- AllTrees
    Branches <- TwoLayers
    NoTree = NoTree
SPECIFICATION MatchSpec
INVARIANTS
    MatchIsJustified
    RefusalIsJustified
CHECK_DEADLOCK FALSE

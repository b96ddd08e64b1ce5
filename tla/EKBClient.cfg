CONSTANTS
    Callers = {consumer, retry, sync}
    Consumer = consumer
    Syncer = sync
    NoOutcome = NoOutcome
    Projects = {}
    Departments = {d}
    AnsweredAsProject = {}
    Parents <- ParentsOfIds
    Life = 2
    FeeHierarchies <- Hierarchies
    MaxLevels = 3
    MaxFails = 1
    Nothing = Nothing
    f = f
    g = g
    h = h
    root = root
    NoParent = NoParent
SPECIFICATION EKBFairSpec
INVARIANTS
    OneFetchPerExpiry
    NoLostWakeup
    ErrorsAreExplained
    FreshLinks
    CachedAsAnswered
    WalkInOneSync
PROPERTIES
    RequestsReturn

CONSTANTS
    Tasks = {t1, t2}
    Verdicts = {"accept", "refuse"}
    MaxCallbackRetries = 3
    QueueSize = 1
    NoTask = NoTask
    NoVerdict = "none"
    MaxEpisodes = 2
    MaxCrashes = 1
SPECIFICATION FairSpec
INVARIANTS
    TasksAccountedFor
    CallBudget
    OneVerdict
    TruthfulHistory
    PauseBound
PROPERTIES
    EndIsFinal
    Settles
    MeetsContract
CHECK_DEADLOCK FALSE

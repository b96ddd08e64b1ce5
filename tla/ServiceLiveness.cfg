CONSTANTS
    Packages = {p1}
    Named = {}
    Requests = {}
    Background = bg
    Interval = 60
    MaxFails = 1
    MinBackoff = 1
    MaxBackoff = 10
    Tasks = {t1}
    Verdicts = {"accept"}
    MaxCallbackRetries = 1
    QueueSize = 1
    NoTask = NoTask
    NoVerdict = "none"
    MaxEpisodes = 3
    MaxCrashes = 0
    MaxChanges = 2
SPECIFICATION ServiceFairSpec
PROPERTIES
    RequestsEnd
    SyncingEnds
    Converges
CHECK_DEADLOCK FALSE

CONSTANTS
    Packages = {p1}
    Named = {}
    Requests = {r1}
    Background = bg
    Interval = 60
    MaxFails = 1
    MinBackoff = 1
    MaxBackoff = 10
    Tasks = {t1}
    Verdicts = {"accept"}
    MaxCallbackRetries = 1
    QueueSize = 1
    NoTask = NoTask
    NoVerdict = "none"
    MaxEpisodes = 3
    MaxCrashes = 1
    MaxChanges = 1
SPECIFICATION ServiceSpec
INVARIANTS
    ConsumesOnlyData
    ChecksItsTargets

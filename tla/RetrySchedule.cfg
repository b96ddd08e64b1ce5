CONSTANTS
    Tasks = {t1, t2}
    Verdicts = {"accept"}
    Delay <- CodeDelays
    ScanEvery = 2
    CallTime = 2
    MaxTokenWait = 2
SPECIFICATION ScheduleSpec
INVARIANTS
    OutageRiddenOut
    NoRetryStarves
PROPERTIES
    ImplementsBucket

CONSTANTS
    Goroutines = {main, consumer, sync}
    Main = main
    Free = Free
    MaxPeriod = 2
SPECIFICATION LogFairSpec
PROPERTIES
    LoggingEnds
CHECK_DEADLOCK FALSE

SPECIFICATION FairSpec
CONSTANTS
    Crons <- MCCrons
    Settings <- MCSettings
    Schedules <- MCSchedules
    Calendar = 4
    Year = 2
    PerMinute = 2
    Interval = 2
    Timeout = 3
INVARIANTS TypeOK LoopsOnlyStopWhenTold NothingLeftRunning
PROPERTIES RunsBySchedule NoRunMissed ShutdownEnds IterationsRecur
CHECK_DEADLOCK FALSE

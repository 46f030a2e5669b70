\* Tasks with and without period; only tasks of the worker itself ask for a delay, as in the program.
SPECIFICATION FairSpec
CONSTANTS
    Tasks = {t1, t2}
    NoTask = NoTask
    MaxTime = 3
    RemoteDelays = {0}
    LocalDelays = {0, 1, 2}
    Periods = {0, 1}
INVARIANTS
    NoSilentLoss
    NoOversleep
PROPERTIES
    DueTaskRuns
    StopReturnsUnlessMissed
    ImplementsTaskBoard
CHECK_DEADLOCK FALSE

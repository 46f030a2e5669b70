\* Another thread schedules with a delay, as the scheduler's test does.
SPECIFICATION FairSpec
CONSTANTS
    Tasks = {t1, t2}
    NoTask = NoTask
    MaxTime = 2
    RemoteDelays = {0, 1}
    LocalDelays = {0, 1}
    Periods = {0}
PROPERTIES
    DueTaskRuns
CHECK_DEADLOCK FALSE

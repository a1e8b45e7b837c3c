SPECIFICATION FairSpec
CONSTANTS
    Controllers = {main, aux}
    NoThread = NoThread
    FeatureSets <- MCFeatureSets
    MaxCalls = 3
    RefWrap = 3
INVARIANTS
    NoLostWakeup
    SuspendBound
    StopBound
CHECK_DEADLOCK FALSE
PROPERTIES StopEndsRunningWorker RunningWorkerRuns

SPECIFICATION FairSpec
CONSTANTS
    Controllers = {main}
    NoThread = NoThread
    FeatureSets <- MCTimerFeatureSets
    MaxCalls = 3
    RefWrap = 3
PROPERTIES
    StopEndsWorker
CHECK_DEADLOCK FALSE

SPECIFICATION Spec
CONSTANTS
    cachemax = 3
    maxsize = 2
    MaxWritten = 14
    MaxCrashes = 3
    MaxFailures = 3
INVARIANTS TypeOK  NoDuplicates DiskBound
CHECK_DEADLOCK FALSE

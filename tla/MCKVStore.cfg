CONSTANTS
    Keys = {k1}
    Values = {v1, v2}
    NoValue = NoValue
    Garbage = Garbage
    MaxParallel = 1
    Second = 2
    MaxTime = 5
    MaxVersion = 3
    DbFails = TRUE
SPECIFICATION Spec
INVARIANTS TypeOK RecordedIsRemote 
PROPERTIES LocalWriteKept 
CHECK_DEADLOCK FALSE

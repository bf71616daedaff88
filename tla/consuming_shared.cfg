\* The other buffer writes wherever its ring leads it.
CONSTANTS
    Capacity = 3
    MaxSampleCount = 1
    BatchSize = 2
    OtherWriters = {TRUE}
    LiveOnly = FALSE
    Checkpoints = 0
    MaxRecords = 8
SPECIFICATION Spec
PROPERTIES EveryRecordIsStored

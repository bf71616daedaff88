\* Three slots, records good for two samples; alone, or with another buffer that
\* writes to the storage where nothing is consumed.
CONSTANTS
    Capacity = 3
    MaxSampleCount = 2
    BatchSize = 2
    OtherWriters = {TRUE, FALSE}
    LiveOnly = TRUE
    Checkpoints = 1
    MaxRecords = 5
SPECIFICATION Spec
INVARIANTS TypeOK FreeListExact
PROPERTIES ImplementsPool

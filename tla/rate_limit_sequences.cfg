\* The sample unit makes two records of each sampled one.
CONSTANTS
    Samplers = {s1}
    Waiting = {}
    Impatient = {}
    Writers = {e1}
    Num = 1
    Den = 1
    BatchSize = 1
    UnitLength = 2
    Capacity = 2
    MaxWritten = 2
    Clears = FALSE
    Restores = 0
SPECIFICATION Spec
INVARIANTS RatioKeptAcrossRestores
\* All records are written and every sampler waits, or the buffer is shut down.
CHECK_DEADLOCK FALSE

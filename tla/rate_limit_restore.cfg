\* A checkpoint is restored while a sample is under way.
CONSTANTS
    Samplers = {s1}
    Waiting = {}
    Impatient = {}
    Writers = {e1}
    Num = 1
    Den = 1
    BatchSize = 1
    UnitLength = 1
    Capacity = 2
    MaxWritten = 2
    Clears = FALSE
    Restores = 1
SPECIFICATION Spec
INVARIANTS RatioKeptAcrossRestores
\* All records are written and every sampler waits, or the buffer is shut down.
CHECK_DEADLOCK FALSE

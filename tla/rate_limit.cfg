\* Two samplers, both of which wait and one of which gives up, share a budget of one sample
\* per record, in batches of two; the buffer is emptied and restored.
CONSTANTS
    Samplers = {s1, s2}
    Waiting = {s1, s2}
    Impatient = {s2}
    Writers = {e1}
    Num = 1
    Den = 1
    BatchSize = 2
    UnitLength = 1
    Capacity = 2
    MaxWritten = 3
    Clears = TRUE
    Restores = 1
SPECIFICATION Spec
INVARIANTS TypeOK RatioKept ReservationsHeld
PROPERTIES WaitersServed
\* All records are written and every sampler waits, or the buffer is shut down.
CHECK_DEADLOCK FALSE

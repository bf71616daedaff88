\* Two threads sample, submit, synchronize and shut down, without prefetching and with
\* a prefetch queue of two; up to four futures asked for by calls (a refill may add two
\* more) and one failure.
CONSTANTS
    NoCaller = none
    Callers = {c1, c2}
    Prefetches = {0, 2}
    Stops = TRUE
    MaxFutures = 4
    MaxFailures = 1
SPECIFICATION USpec
INVARIANTS UTypeOK UpdatesAreOrdered RequestsServedInOrder NobodyIsStuck
\* Callers may make no further call.
CHECK_DEADLOCK FALSE

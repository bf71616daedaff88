\* A prefetched sample or an earlier update that fails.
CONSTANTS
    NoCaller = none
    Callers = {c1}
    Prefetches = {1}
    Stops = FALSE
    MaxFutures = 4
    MaxFailures = 1
SPECIFICATION USpec
INVARIANTS AcceptedUpdatesRun
\* Callers may make no further call.
CHECK_DEADLOCK FALSE

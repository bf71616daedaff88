\* Any three of these calls: a waiter with a timeout, one with a cancel event and
\* one with neither, a writer, a consuming sampler, a load_state_dict and a shutdown,
\* on a buffer of one process and on a shared one.
CONSTANTS
    NoThread = none
    Waiters = {w1, w2, w3}
    Timed = {w1}
    Cancellable = {w2}
    Writers = {e1}
    Consumers = {s1}
    Stoppers = {x1}
    StateLoaders = {l1}
    DiskLoaders = {}
    SharedChoices = {TRUE, FALSE}
    LoadsAlone = TRUE
    MaxCalls = 3
    Need = 1
    MaxItems = 1
    LoadedItems = 1
SPECIFICATION Spec
INVARIANTS TypeOK NoLockCycle
PROPERTIES NoLostWakeup WaitsEnd
\* Every call has returned, or waits for writes that nobody makes.
CHECK_DEADLOCK FALSE

\* loads while a thread waits without a timeout.
CONSTANTS
    NoThread = none
    Waiters = {w3}
    Timed = {}
    Cancellable = {}
    Writers = {e1}
    Consumers = {s1}
    Stoppers = {}
    StateLoaders = {}
    DiskLoaders = {d1}
    SharedChoices = {TRUE}
    LoadsAlone = FALSE
    MaxCalls = 4
    Need = 2
    MaxItems = 2
    LoadedItems = 2
SPECIFICATION Spec
PROPERTIES NoLostWakeup
\* Every call has returned, or waits for writes that nobody makes.
CHECK_DEADLOCK FALSE

\* load_state_dict on a buffer in one process while a thread waits with a timeout.
CONSTANTS
    NoThread = none
    Waiters = {w1}
    Timed = {w1}
    Cancellable = {}
    Writers = {e1}
    Consumers = {}
    Stoppers = {}
    StateLoaders = {l1}
    DiskLoaders = {}
    SharedChoices = {FALSE}
    LoadsAlone = FALSE
    MaxCalls = 4
    Need = 1
    MaxItems = 2
    LoadedItems = 2
SPECIFICATION Spec
PROPERTIES BoundedWaitsEnd
\* Every call has returned, or waits for writes that nobody makes.
CHECK_DEADLOCK FALSE

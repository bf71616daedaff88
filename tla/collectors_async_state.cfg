SPECIFICATION FairSpec
CONSTANTS
    NumWorkers = 2
    MaxCrashes = 0
    SyncCalls = {}
    AsyncCalls = {"state_dict"}
    FreeCalls = {}
    PausedCalls = {}
CHECK_DEADLOCK FALSE
PROPERTY WaitsEnd

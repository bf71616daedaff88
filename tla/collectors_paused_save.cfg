SPECIFICATION FairSpec
CONSTANTS
    NumWorkers = 2
    MaxCrashes = 0
    SyncCalls = {}
    AsyncCalls = {}
    FreeCalls = {}
    PausedCalls = {"state_dict"}
CHECK_DEADLOCK FALSE
PROPERTY PausedCallsReturn

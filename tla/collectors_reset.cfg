SPECIFICATION FairSpec
CONSTANTS
    NumWorkers = 2
    MaxCrashes = 0
    SyncCalls = {}
    AsyncCalls = {"reset"}
    FreeCalls = {}
    PausedCalls = {}
CHECK_DEADLOCK FALSE
INVARIANT TimedOutRepeatsContinue

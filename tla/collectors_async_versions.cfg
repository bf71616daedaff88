SPECIFICATION FairSpec
CONSTANTS
    NumWorkers = 2
    MaxCrashes = 0
    SyncCalls = {}
    AsyncCalls = {"worker_policy_versions"}
    FreeCalls = {}
    PausedCalls = {}
CHECK_DEADLOCK FALSE
INVARIANT BatchIsReported

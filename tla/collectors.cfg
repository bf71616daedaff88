SPECIFICATION FairSpec
CONSTANTS
    NumWorkers = 2
    MaxCrashes = 1
    SyncCalls = {"state_dict", "reset", "map_fn", "worker_policy_versions"}
    AsyncCalls = {}
    FreeCalls = {"state_dict", "reset", "map_fn"}
    PausedCalls = {"map_fn"}
INVARIANTS TypeOK BatchIsReported PausedMeansParked NothingElseFails
PROPERTIES WaitsEnd
CHECK_DEADLOCK FALSE

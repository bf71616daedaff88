SPECIFICATION FairSpec
CONSTANTS
    Clients = {c1}
    Threads = {t1, t2}
    MaxBatch = 2
    MinBatch = 2
    MaxRequests = 2
    MaxUpdates = 1
    MaxStarts = 2
    MaxKills = 1
CHECK_DEADLOCK FALSE
PROPERTY CommandsAreCurrent

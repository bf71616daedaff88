\* Two buffers on one storage, a thread each.
CONSTANTS
    t1 = t1
    t2 = t2
    b1 = b1
    b2 = b2
    NoClient = none
    Clients = {t1, t2}
    Buffers = {b1, b2}
    BufferOf <- BufferEach
    Capacity = 2
    MaxBatch = 2
    MaxRecords = 4
    MaxStamp = 2
SPECIFICATION LSpec
INVARIANTS PatchTargetStillThere

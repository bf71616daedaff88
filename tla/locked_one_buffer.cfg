\* Two threads on one buffer.
CONSTANTS
    t1 = t1
    t2 = t2
    b1 = b1
    b2 = b2
    NoClient = none
    Clients = {t1, t2}
    Buffers = {b1}
    BufferOf <- OneBuffer
    Capacity = 2
    MaxBatch = 2
    MaxRecords = 4
    MaxStamp = 2
SPECIFICATION LSpec
PROPERTIES CallsAreAtomic

\* One buffer, saved and restored at any time; no extend is longer than the ring.
CONSTANTS
    Writers = {w1}
    Tracking = {w1}
    Clients = {c1}
    Capacity = 3
    MaxBatch = 2
    BatchSize = 1
    MaxVersion = 1
    MaxRecords = 4
    MaxStamp = 1
    CheckpointKinds = {TRUE, FALSE}
SPECIFICATION CSpec
INVARIANTS ReadableSlotsAreWritten FreshHandlesSound
PROPERTIES KeepsTheMostRecent

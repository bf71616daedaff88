\* What the documentation says of checkpoints without stamps.
CONSTANTS
    Writers = {w1}
    Tracking = {w1}
    Clients = {c1}
    Capacity = 2
    MaxBatch = 2
    BatchSize = 1
    MaxVersion = 1
    MaxRecords = 5
    MaxStamp = 2
    CheckpointKinds = {FALSE}
SPECIFICATION CSpec
PROPERTIES UnstampedLoadStartsFromScratch

\* Two writers on one storage, one of which does not track generations, with
\* writes at explicit slots and extends longer than the ring.
CONSTANTS
    Writers = {w1, w2}
    Tracking = {w1}
    Clients = {c1}
    Capacity = 2
    MaxBatch = 3
    BatchSize = 2
    MaxVersion = 1
    MaxRecords = 3
    MaxStamp = 1
SPECIFICATION Spec
INVARIANTS TypeOK HandleSound HandleComplete
PROPERTIES PatchesLandOnSampledRecords VersionsNeverRegress ReportsWhatItWrote

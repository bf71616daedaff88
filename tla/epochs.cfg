\* Two iterations, a call of sample and a restored checkpoint; five items in batches
\* of two, the last of them short or dropped, a queue of up to two batches.
CONSTANTS
    Items = {i1, i2, i3, i4, i5}
    BatchSize = 2
    DropChoices = {TRUE, FALSE}
    Cap = 2
    PlainCalls = 1
    Checkpoints = 1
    Iterations = 2
    MaxBatches = 4
SPECIFICATION Spec
INVARIANTS TypeOK EpochsStayApart
PROPERTIES IterationEnds
\* The consumer stops after its last iteration.
CHECK_DEADLOCK FALSE

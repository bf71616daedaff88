\* A batch is sampled, the buffer saved and restored, then iterated.
CONSTANTS
    Items = {i1, i2, i3, i4}
    BatchSize = 1
    DropChoices = {FALSE}
    Cap = 2
    PlainCalls = 1
    Checkpoints = 1
    Iterations = 1
    MaxBatches = 8
SPECIFICATION Spec
INVARIANTS EveryIterationIsOneEpoch
SYMMETRY ItemSymmetry
\* The consumer stops after its last iteration.
CHECK_DEADLOCK FALSE

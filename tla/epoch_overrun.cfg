\* A batch is sampled, then the buffer iterated: the rest of the epoch is all drawn before the
\* iteration starts.
CONSTANTS
    Items = {i1, i2, i3, i4}
    BatchSize = 1
    DropChoices = {FALSE}
    Cap = 3
    PlainCalls = 1
    Checkpoints = 0
    Iterations = 1
    MaxBatches = 8
SPECIFICATION Spec
INVARIANTS EveryIterationIsOneEpoch
SYMMETRY ItemSymmetry
\* The consumer stops after its last iteration.
CHECK_DEADLOCK FALSE

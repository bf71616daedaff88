\* The last batch of an epoch that is not a multiple of the batch size.
CONSTANTS
    Items = {i1, i2, i3}
    BatchSize = 2
    DropChoices = {FALSE}
    Cap = 1
    PlainCalls = 0
    Checkpoints = 0
    Iterations = 1
    MaxBatches = 3
SPECIFICATION Spec
INVARIANTS BatchesAreFull
SYMMETRY ItemSymmetry
\* The consumer stops after its last iteration.
CHECK_DEADLOCK FALSE

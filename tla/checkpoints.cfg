\* Three starts of a program that collects four or five frames, one or two at a
\* time; the last two steps and the best are retained.
CONSTANTS
    KeepLast = 2
    Interval = 1
    MaxFrames = 2
    Metrics = {0, 1}
    TotalFrames = 4
    MaxStarts = 3
SPECIFICATION Spec
INVARIANTS SavedIsFound LossIsBounded
PROPERTIES ImplementsStore
\* After its last start the program may be down or ended for good.
CHECK_DEADLOCK FALSE

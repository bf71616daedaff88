CONSTANTS
    KeepLast = 2
    Interval = 1
    MaxFrames = 2
    Metrics = {0, 1}
    TotalFrames = 4
    MaxStarts = 3
SPECIFICATION Spec
PROPERTIES ReturnedPathExists
CHECK_DEADLOCK FALSE

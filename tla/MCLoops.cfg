CONSTANTS
    MaxStarts = 2
    Controllers = {c1, c2}
    MaxLaunches = 2
SPECIFICATION LoopsSpec
INVARIANTS
    LoopsTypeOK
    StopNeverPanics
    PanicNeedsOverlap
PROPERTIES
    StoppedLoopsEnd
    KeepsScanning
    ExpiredIsCleaned
CHECK_DEADLOCK FALSE

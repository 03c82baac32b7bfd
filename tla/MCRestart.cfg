CONSTANTS
    MaxStarts = 2
SPECIFICATION FairLoopSpec
PROPERTIES
    StopHaltsItsLoop
CHECK_DEADLOCK FALSE

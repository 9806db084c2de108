\* Two instances of two permits each, a stream that keeps one entry.
SPECIFICATION FairSpec
CONSTANTS
    Instance = {i1, i2}
    Slot = {s1, s2}
    MaxLen = 1
    MaxAdded = 2
    MaxCrashes = 1
    MaxFaults = 1
INVARIANTS TypeOK SingleFlight TurnedAwayForAReason NoJobForgotten
PROPERTIES ImplementsQueue EventuallyHandled
CHECK_DEADLOCK FALSE

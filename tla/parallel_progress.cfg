SPECIFICATION FairSpec
CONSTANTS
    Coroutine = {p1, p2}
    Branch = {b1, b2}
    None = None
    MaxRetries = 0
    DispatchTimeout = FALSE
    MaxTasks = 2
    MaxFaults = 1
PROPERTY EventuallyAtRest
CONSTRAINT NotAstray
CHECK_DEADLOCK FALSE

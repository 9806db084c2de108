SPECIFICATION FairSpec
CONSTANTS
    Coroutine = {p1, p2}
    MaxRetries = 1
    MaxTransitions = 2
    MaxTasks = 2
    MaxFaults = 0
    MaxRequests = 0
PROPERTY EventuallyAtRest
CHECK_DEADLOCK FALSE

SPECIFICATION Spec
CONSTANTS
    Coroutine = {p1, p2}
    MaxRetries = 1
    MaxTransitions = 2
    MaxTasks = 1
    MaxFaults = 1
    MaxRequests = 1
INVARIANTS TypeOK RunnableIsQueued WaitingIsWatched
PROPERTIES TerminalIsFinal
SYMMETRY CoroutineSymmetry
CHECK_DEADLOCK FALSE

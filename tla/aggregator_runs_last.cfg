SPECIFICATION Spec
CONSTANTS
    Coroutine = {p1, p2}
    Branch = {b1, b2}
    None = None
    MaxRetries = 1
    DispatchTimeout = TRUE
    MaxTasks = 2
    MaxFaults = 0
PROPERTY AggregatorRunsLast
SYMMETRY ParallelSymmetry
CHECK_DEADLOCK FALSE

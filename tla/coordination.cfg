SPECIFICATION Spec
CONSTANTS
    Instance = {i1, i2}
    Looper = {i1, i2}
    Interval = 4
    LockLife = 3
    Minute = 4
    Day = 5
    DueDay = {0, 1}
    Lease = 1
    Delay = 1
    MaxFaults = 1
    MaxFailures = 1
    MaxTime = 12
INVARIANTS TypeOK OncePerInterval IntervalKept OncePerDay DayIsKept LeaseIsLocked
SYMMETRY InstanceSymmetry
CHECK_DEADLOCK FALSE

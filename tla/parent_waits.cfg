SPECIFICATION Spec
CONSTANTS
    Coroutine = {p1, p2}
    Parent = P
    Child = {c1, c2}
    None = None
    MaxFaults = 0
INVARIANT ParentWaitsForChild
CHECK_DEADLOCK FALSE

SPECIFICATION Spec
CONSTANTS
    Coroutine = {p1, p2}
    Parent = P
    Child = {c1, c2}
    None = None
    MaxFaults = 1
INVARIANTS TypeOK RunnableParentIsQueued ChildEndIsReported WaitingParentHasChild FinishedParentHasFinishedChild
CONSTRAINT NotOverwritten
SYMMETRY SubJobSymmetry
CHECK_DEADLOCK FALSE

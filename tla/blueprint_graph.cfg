SPECIFICATION Spec
CONSTANTS
    State = {a, b, c}
    Function <- MCFunction
    None = None
    MaxHandlers = 3
INVARIANTS TypeOK PathIsDefined
PROPERTIES VerdictIsRight WalkEnds
SYMMETRY StateSymmetry

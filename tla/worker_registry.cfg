SPECIFICATION Spec
CONSTANTS
    Beat = {b1}
    Checker = {c1}
    Skill = {s1}
    Unsaid = Unsaid
    TTL = 2
INVARIANTS TypeOK FoundIsRecent IdleIsFound NamesDieWithRecord
SYMMETRY RegistrySymmetry

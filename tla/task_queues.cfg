SPECIFICATION Spec
CONSTANTS
    w1 = w1
    w2 = w2
    w3 = w3
    t1 = t1
    t2 = t2
    s1 = s1
    s2 = s2
    gpu = gpu
    branch = branch
    job = job
    Worker = {w1, w2}
    Task = {t1, t2}
    Field = {branch, job}
    Own <- MCOwn
    JobField <- MCJobField
    Skill = {s1, s2}
    Knows <- MCKnows
    Info <- MCInfo
    Sights <- MCSights
    Demand = {gpu}
    Dearest = 3
    MaxCandidates = 2
    SoftLimit = 1
    MinReputation = 50
    Priority <- MCPriority
    None = None
    MaxFaults = 1
INVARIANTS TypeOK HandedOutOnce HolderIsNamed LoadCovers
PROPERTY ImplementsDelivery

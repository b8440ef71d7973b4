SPECIFICATION GitSpec
CONSTANTS
    c1 = c1
    c2 = c2
    Changes = {c1, c2}
    Emergencies = {}
    Original = Original
    NoContent = NoContent
    Base = Base
    MaxSeconds = 1
    MaxErrors = 0
INVARIANTS
    UniqueBranches
CHECK_DEADLOCK FALSE

SPECIFICATION Spec
CONSTANTS
    w1 = w1
    w2 = w2
    p1 = p1
    p2 = p2
    p3 = p3
    Workloads = {w1, w2}
    Order <- TwoKinds
    Pods = {p1, p2, p3}
    Owner <- ThreePods
    Labelled = TRUE
    Selected = {p2, p3}
    DriftDetection = TRUE
    None = None
    Empty = Empty
    MaxFaults = 2
INVARIANTS
    TypeOK
    ServerKnows
PROPERTIES
    ComesCloser
    AlarmComesRight
    ServerUpToDate
    DriftSettles
CHECK_DEADLOCK FALSE

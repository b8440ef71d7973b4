SPECIFICATION Spec
CONSTANTS
    Monitors = {m1}
    ConfigMaps = {c1, c2}
    Modes = {"on"}
    None = None
    MaxFaults = 3
INVARIANTS
    TypeOK
PROPERTIES
    StatusMatchesSpec
    SettledStays
    DeletedComesCloser
    EventuallyActive
    StatusSettles
    ImplementsConnections
CHECK_DEADLOCK FALSE

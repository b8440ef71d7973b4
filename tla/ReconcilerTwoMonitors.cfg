SPECIFICATION Spec
CONSTANTS
    Monitors = {m1, m2}
    ConfigMaps = {c1}
    Modes = {"on"}
    None = None
    MaxFaults = 2
INVARIANTS
    OneClientPerMonitor
    NeverForgotten
PROPERTIES
    ComesCloser
    EventuallyActive
CHECK_DEADLOCK FALSE

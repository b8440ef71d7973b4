SPECIFICATION Spec
CONSTANTS
    Monitors = {m1}
    ConfigMaps = {c1}
    Modes = {"on", "off"}
    None = None
    MaxFaults = 2
PROPERTY
    GateFollowsSpec
CHECK_DEADLOCK FALSE

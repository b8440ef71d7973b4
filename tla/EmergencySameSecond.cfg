SPECIFICATION Spec
CONSTANTS
    h1 = h1
    h2 = h2
    h3 = h3
    c1 = c1
    k1 = k1
    k2 = k2
    w1 = w1
    Clients = {h1}
    ConfigMaps = {c1}
    Keys = {k1, k2}
    Workloads = {w1}
    Captured <- Single
    Mounts <- OneMounts
    CanPatch = TRUE
    None = None
    Git = Git
    MaxCommands = 2
    MaxFaults = 0
INVARIANTS
    SuccessRestarts
CHECK_DEADLOCK FALSE

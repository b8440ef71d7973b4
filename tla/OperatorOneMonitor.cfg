SPECIFICATION Spec
CONSTANTS
    m1 = m1
    c1 = c1
    k1 = k1
    w1 = w1
    Monitors = {m1}
    ConfigMaps = {c1}
    Keys = {k1}
    Workloads = {w1}
    Modes = {"on", "off"}
    None = None
    Git = Git
    WorkloadOf <- OneWorkload
    KeyOf <- OneKey
    Mounts <- OneMounts
    CanPatch = FALSE
    MaxCommands = 1
    MaxEdits = 2
    MaxMishaps = 1
    MaxFaults = 2
INVARIANTS
    TypeOK
    ClosedIsSilent
PROPERTIES
    WorkComesCloser
    WorkerNotStuck
    DeletedIsSilent
CHECK_DEADLOCK FALSE

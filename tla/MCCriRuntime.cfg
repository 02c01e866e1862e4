SPECIFICATION Spec
CONSTANTS
    Sandboxes = {s1}
    Containers = {c1}
    Vms = {v1}
    Calls = {k1, k2}
    Ops <- AllOps
    MaxTaps = 1
    IPs = {a1}
    None = None
    GraceExpires = TRUE
    MaxRestarts = 1
SYMMETRY Symmetry
INVARIANTS RunningIsWatched
PROPERTIES RemovedContainerStaysRemoved
CHECK_DEADLOCK FALSE

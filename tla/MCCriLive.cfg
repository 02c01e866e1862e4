SPECIFICATION FairSpec
CONSTANTS
    Sandboxes = {s1}
    Containers = {c1}
    Vms = {v1, v2}
    Calls = {k1}
    Ops <- AllOps
    MaxTaps = 1
    IPs = {a1}
    None = None
    GraceExpires = FALSE
    MaxRestarts = 0
INVARIANTS LoneVmIsTracked
PROPERTIES CallsReturn ExitIsRecorded
CHECK_DEADLOCK FALSE

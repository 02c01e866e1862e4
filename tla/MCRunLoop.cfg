\* A VM with a shared directory: boot and restore, up to two requests.
CONSTANTS
    Share = TRUE
    MaxReq = 2
SPECIFICATION LoopFairSpec
INVARIANTS NoStrandedRequest EndsWithGuest
PROPERTIES CompletionSeen PowerOffNoticed
CHECK_DEADLOCK FALSE

\* Two terminals, any request at any time, a crash; safety.
CONSTANTS
    t1 = t1  t2 = t2  a = a  b = b
    None = None  Free = Free  Writer = Writer
    Terminal = {t1, t2}
    Config = {a}
    MaxTokens = 2
    Strict = FALSE
    Timers = TRUE
    Patient = FALSE
    HostFaults = TRUE
    LockFaults = TRUE
    MaxCrash = 1
SYMMETRY MCSymmetry
SPECIFICATION Spec
INVARIANTS SessionHoldsLock OpenDBIsOfSession LockIsOfSession
\* A request that sends on commitCh may wait for ever (MCConfigSessionSend).
CHECK_DEADLOCK FALSE

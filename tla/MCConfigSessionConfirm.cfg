\* One terminal whose requests follow one another, a crash, no other faults; refinement and liveness.
CONSTANTS
    t1 = t1  t2 = t2  a = a  b = b
    None = None  Free = Free  Writer = Writer
    Terminal = {t1}
    Config = {a, b}
    MaxTokens = 2
    Strict = TRUE
    Timers = TRUE
    Patient = TRUE
    HostFaults = FALSE
    LockFaults = FALSE
    MaxCrash = 1
SPECIFICATION FairSpec
PROPERTIES ImplementsConfirmedCommit UnconfirmedCommitIsSettled

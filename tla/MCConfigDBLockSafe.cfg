\* One goroutine per executable that locks, no redis faults, two crashes:
\* nothing is left locked, safety and liveness.
CONSTANTS
    rest = rest  gnmi = gnmi
    w1 = w1  w2 = w2  s1 = s1  s2 = s2
    Nil = Nil
    Proc = {rest, gnmi}
    Thread = {w1, s2}
    SessionThread = {s2}
    ProcOf <- MCProcOf
    tryLockAttempt = 4
    RedisFaults = FALSE
    MaxCrash = 2
SPECIFICATION FairSpec
INVARIANTS NoOrphanLock
PROPERTIES UnlockReleases TryLockReturns LockIsFreed

\* A writer and a session in one executable, a writer in the other; redis
\* commands fail or their replies are lost; one crash.
CONSTANTS
    rest = rest  gnmi = gnmi
    w1 = w1  w2 = w2  s1 = s1  s2 = s2
    Nil = Nil
    Proc = {rest, gnmi}
    Thread = {w1, w2, s1}
    SessionThread = {s1}
    ProcOf <- MCProcOf
    tryLockAttempt = 2
    RedisFaults = TRUE
    MaxCrash = 1
SPECIFICATION Spec
INVARIANTS MutualExclusion OwnerIsRecorded
PROPERTIES ImplementsLockService

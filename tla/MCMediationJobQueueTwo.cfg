SPECIFICATION Spec
CONSTANTS
    Keys = {k1, k2}
    NoKey = NoKey
    Workers = {w1, w2}
    MaxAttempts = 2
    MaxCrashes = 1
    MaxLostAcks = 1
    MaxRequeues = 1
    RequeueKeys = {k1, k2}
    SlowKeys = {k1, k2}
SYMMETRY Symmetry
INVARIANTS RunsBounded NoOverlapWithinLease PendingIsClaimable FailedIsExhausted WorkerOwnsItsJob

SPECIFICATION FairSpec
CONSTANTS
    Keys = {k1, k2}
    NoKey = NoKey
    Workers = {w1}
    MaxAttempts = 2
    MaxCrashes = 2
    MaxLostAcks = 1
    MaxRequeues = 1
    RequeueKeys = {k1, k2}
    SlowKeys = {k1, k2}
INVARIANTS TypeOK
PROPERTIES EveryJobSettles LifecycleSpec

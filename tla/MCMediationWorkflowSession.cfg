SPECIFICATION Spec
CONSTANTS
    Users = {Joris, Danfeng}
    NoUser = NoUser
    Requests = {r1}
    Offered = {"resolve"}
    NoKey = NoKey
    Workers = {w1}
    MaxAttempts = 2
    MaxCrashes = 0
    MaxLostAcks = 1
    MaxRequeues = 1
    RequeueKeys <- LastJob
    SlowKeys = {}
    Session = Session
    Comments = {}
    Tabs = {1}
    Lengths = {TRUE, FALSE}
    MaxAborts = 1
    MaxRaises = 1
CHECK_DEADLOCK FALSE
INVARIANTS TypeOK CompletedMeansDone StrandedOnlyByAbort ResolvedWasAskedByAll
PROPERTIES LockedIsFinal

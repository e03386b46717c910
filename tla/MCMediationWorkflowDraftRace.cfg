SPECIFICATION Spec
CONSTANTS
    Users = {Joris, Danfeng}
    NoUser = NoUser
    Requests = {}
    Offered = {"resolve"}
    NoKey = NoKey
    Workers = {w1}
    MaxAttempts = 2
    MaxCrashes = 0
    MaxLostAcks = 0
    MaxRequeues = 0
    RequeueKeys = {}
    SlowKeys = {}
    Session = Session
    Comments = {}
    Tabs = {1, 2}
    Lengths = {TRUE}
    MaxAborts = 0
    MaxRaises = 0
CHECK_DEADLOCK FALSE
PROPERTIES LockedIsFinal

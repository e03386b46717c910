SPECIFICATION Spec
CONSTANTS
    Users = {Joris, Danfeng}
    NoUser = NoUser
    Requests = {}
    Offered = {"resolve"}
    NoKey = NoKey
    Workers = {w1}
    MaxAttempts = 2
    MaxCrashes = 1
    MaxLostAcks = 0
    MaxRequeues = 0
    RequeueKeys = {}
    SlowKeys = {}
    Session = Session
    Comments = {}
    Tabs = {1}
    Lengths = {TRUE}
    MaxAborts = 0
    MaxRaises = 1
CHECK_DEADLOCK FALSE
INVARIANTS AdviceOpensComments

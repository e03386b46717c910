SPECIFICATION FairSpec
CONSTANTS
    Users = {Joris, Danfeng}
    NoUser = NoUser
    Requests = {}
    Offered = {"resolve"}
    NoKey = NoKey
    Workers = {w1}
    MaxAttempts = 2
    MaxCrashes = 1
    MaxLostAcks = 0
    MaxRequeues = 0
    RequeueKeys = {}
    SlowKeys = {}
    Session = Session
    Comments = {c1}
    Tabs = {1}
    Lengths = {TRUE, FALSE}
    MaxAborts = 0
    MaxRaises = 0
CHECK_DEADLOCK FALSE
INVARIANTS ResultsBounded
PROPERTIES SubmissionIsReviewed LockedGetsOutput CommentIsAnswered PromiseSpec

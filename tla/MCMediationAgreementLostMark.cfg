SPECIFICATION Spec
CONSTANTS
    Users = {Joris, Danfeng}
    NoUser = NoUser
    Requests = {r1, r2}
    Offered = {"resolve", "unresolve", "archive", "unarchive"}
CHECK_DEADLOCK FALSE
INVARIANTS SecondResolveFinalizes

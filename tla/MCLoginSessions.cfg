SPECIFICATION Spec
CONSTANTS
    Users = {Joris, Danfeng}
    NoUser = NoUser
    Ids = {s1, s2, s3}
    NoId = NoId
    Callers = {c1, c2}
    Duration = 2
    MaxTime = 4
SYMMETRY Symmetry
CHECK_DEADLOCK FALSE
INVARIANTS TypeOK OneSessionUnlessOverlapped LogoutIsFinal AdmittedIsLive
PROPERTIES OthersStayIn

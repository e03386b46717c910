SPECIFICATION Spec
CONSTANTS
    Users = {Joris, Danfeng}
    NoUser = NoUser
    Requests = {r1, r2}
    Offered = {"resolve", "unresolve", "archive", "unarchive"}
SYMMETRY Symmetry
CHECK_DEADLOCK FALSE
INVARIANTS TypeOK ResolvedWasAskedByAll ArchivedWasAskedFor MarksAreWishes
PROPERTIES ConsentUnlessOverlapped

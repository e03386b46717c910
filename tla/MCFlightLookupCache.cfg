SPECIFICATION Spec
CONSTANTS
    SQ318 = SQ318
    NoNumber = NoNumber
    Callers = {c1, c2}
    Raws = {"sq 318", "318"}
    Numbers = {SQ318}
    NumberOf <- Spelling
    WindowDays = 1
    TtlFound = 2
    TtlNone = 1
    MaxLatency = 1
    MaxTime = 4
    MaxDay = 1
SYMMETRY Symmetry
CHECK_DEADLOCK FALSE
INVARIANTS TypeOK AnswersAreGrounded
PROPERTIES NeverFarBehind

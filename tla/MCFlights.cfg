SPECIFICATION Spec
CONSTANTS
    ams = ams
    ams2 = ams2
    Flts = {f1}
    Ports = {ams, ams2}
    Codes = {"EHAM", "AMS", "ZZZZ"}
    Icao <- IcaoOf
    Iata <- IataOf
    Seeded = {ams}
    NoPort = NoPort
    Callers = {c1, c2}
    Called = {"EHAM", "ZZZZ"}
    Fields = {"lands", "status", "departure", "arrival", "null"}
    Statuses = {"ACTIVE", "NULL"}
    MaxTime = 2
    MaxUpdates = 2
SYMMETRY Symmetry
CHECK_DEADLOCK FALSE
INVARIANTS TypeOK ListedHasNotLanded WritesSurviveUnlessOverlapped FailuresAreExplained

SPECIFICATION FairSpec
CONSTANTS
    r1 = r1
    r2 = r2
    Runs = {r1, r2}
    Limit = 1
    MaxNodes = 2
    NoRun = NoRun
    Closer = Closer
INVARIANTS
    TypeOK
    SessionsAreSerial
    StatusIsTrue
PROPERTIES
    PromiseIsKept
    RunsEnd
    ShutdownEnds
CHECK_DEADLOCK FALSE

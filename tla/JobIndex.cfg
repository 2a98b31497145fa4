SPECIFICATION Spec
CONSTANTS
    j1 = j1
    j2 = j2
    i1 = i1
    i2 = i2
    old = old
    new = new
    Jobs = {j1, j2}
    Contents = {old, new}
    s1 = s1
    s2 = s2
    Seeds = {s1, s2}
    Investigations = {i1, i2}
    Starter = Starter
    NoSeed = NoSeed
    NoText = NoText
    MaxAttempts = 2
    PendingLimit = 1
    MaxEnds = 2
SYMMETRY Symmetry
INVARIANTS
    TypeOK
    IndexedIsCurrent
    OldSeedNeedsCut
    NothingIsForgotten
    ShownAsJudged
CHECK_DEADLOCK FALSE

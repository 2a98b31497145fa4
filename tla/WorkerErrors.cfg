SPECIFICATION Spec
CONSTANTS
    c1 = c1
    c2 = c2
    j1 = j1
    j2 = j2
    Cards = {c1}
    Jobs = {j1}
    OpensTo <- OnePosting
    Stored = {}
    Matched = {}
    Home = Home
    Results = Results
    Nothing = Nothing
    Targets = {0}
    MaxErrors = 2
    LowLimit = 1
    LoopLength = 2
    MaxCalls = 3
    MaxReplays = 0
    UrlMayFail = FALSE
PROPERTY ErrorsReset

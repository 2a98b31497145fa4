SPECIFICATION FairSpec
CONSTANTS
    c1 = c1
    c2 = c2
    j1 = j1
    j2 = j2
    Cards = {c1}
    Jobs = {j1}
    OpensTo <- OnePosting
    Stored = {j1}
    Matched = {}
    Home = Home
    Results = Results
    Nothing = Nothing
    Targets = {2}
    MaxErrors = 2
    LowLimit = 2
    LoopLength = 2
    MaxCalls = 2
    MaxReplays = 1
    UrlMayFail = TRUE
INVARIANT NeverStranded
PROPERTIES EveryStepSpends Terminates

SPECIFICATION Spec
CONSTANTS
    Runs = {1, 2}
    b1 = b1
    b2 = b2
    search = search
    Backends = {b1, b2}
    Home <- TwoHomes
    Purposes = {search}
    PurposeOf <- OnePurpose
    Routes = {"direct"}
    NoRun = NoRun
    NoRoute = NoRoute
    MaxAttempts = 1
    DbFaults = TRUE
    MaxOutages = 1
INVARIANTS
    NoOrphanedReview
    SupportCountsSources
    AcceptedIsPublished
CHECK_DEADLOCK FALSE

SPECIFICATION Spec
CONSTANTS
    Runs = {1, 2}
    b1 = b1
    b2 = b2
    search = search
    Backends = {b1}
    Home <- OneHome
    Purposes = {search}
    PurposeOf <- OnePurpose
    Routes = {"direct", "filtered"}
    NoRun = NoRun
    NoRoute = NoRoute
    MaxAttempts = 2
    DbFaults = FALSE
    MaxOutages = 1
INVARIANTS
    RejectedLeavesNoRule

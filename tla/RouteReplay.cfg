SPECIFICATION Spec
CONSTANTS
    k1 = k1
    k2 = k2
    Keys = {k1, k2}
    Scopes = {"list", "detail"}
    MaxSteps = 3
    MaxRoutes = 2
    MaxReplays = 3
    Nothing = Nothing
SYMMETRY Symmetry
INVARIANTS
    TypeOK
    NoRetry
    OutcomeOnce
    CreditIsEarned
    RoutesMixOnce
PROPERTIES
    EndsAreTold

SPECIFICATION Spec
CONSTANTS
    Admins = {a1, a2}
    Patches <- SomePatches
    Window = 1
    Lookback = 1
    MaxJobs = 2
    MaxErrors = 1
    MaxDay = 1
    MaxUpdates = 2
    Nil = Nil
SYMMETRY Symmetry
CHECK_DEADLOCK FALSE
INVARIANT HealthTypeOK
INVARIANT RulesOrdered
INVARIANT SummaryIsReal
INVARIANT OrdersAgree

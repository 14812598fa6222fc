SPECIFICATION Spec
CONSTANTS
    Job = {1, 2, 3}
    Source = {s1}
    Nil = Nil
    Clients = {c1, c2}
    Sweepers = {}
    Workers = {}
    Schedulers = {x1}
    Clis = {}
    Pages = {g1}
    MaxAttempts = 1
    SweepLimit = 20
    MaxFaults = 0
    PromptLeases = FALSE
SYMMETRY Symmetry
CHECK_DEADLOCK FALSE
INVARIANT RetriesAreFlat
INVARIANT RunningHoldsLease
PROPERTY StatusMovesForward
PROPERTY ImplementsSourceSlots

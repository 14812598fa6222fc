SPECIFICATION ParamSpec
CONSTANTS
    Job = {1, 2}
    Source = {s1}
    Nil = Nil
    Clients = {c1}
    Sweepers = {d1}
    Workers = {w1}
    Schedulers = {}
    Clis = {k1}
    Pages = {}
    MaxAttempts = 1
    SweepLimit = 20
    MaxFaults = 0
    PromptLeases = TRUE
    n1 = n1
    n2 = n2
    y1 = y1
    ScriptArgs <- ByHand
    PageLimit = {n1, n2}
    Year = {y1}
SYMMETRY LimitSymmetry
CHECK_DEADLOCK FALSE
INVARIANT TypeOK
INVARIANT OneActiveJobPerSource
INVARIANT RunsAsAsked

SPECIFICATION FairSpec
CONSTANTS
    Job = {1, 2}
    Source = {s1, s2}
    Nil = Nil
    Clients = {c1}
    Sweepers = {d1}
    Workers = {w1, w2}
    Schedulers = {}
    Clis = {}
    Pages = {g1}
    MaxAttempts = 1
    SweepLimit = 1
    MaxFaults = 1
    PromptLeases = TRUE
CHECK_DEADLOCK FALSE
PROPERTY PendingIsConsumed
PROPERTY RunningIsClosed
INVARIANT ExecutesUnderItsRow
INVARIANT OneRunnerPerSource
INVARIANT OneRunnerPerJob

SPECIFICATION ScheduledSpec
CONSTANTS
    Job = {1, 2}
    Source = {s1}
    Nil = Nil
    Clients = {}
    Sweepers = {}
    Workers = {}
    Schedulers = {x1}
    Clis = {}
    Pages = {}
    MaxAttempts = 1
    SweepLimit = 1
    MaxFaults = 1
    PromptLeases = FALSE
CHECK_DEADLOCK FALSE
PROPERTY RunningIsClosed

SPECIFICATION Spec
CONSTANTS
    DayOptions = {1, 2}
    Source = {s1}
    Thread = {t1, t2}
    Requests <- Posted
    CrawlOutcome = {"succeeded"}
    MaxNow = 2
    MaxEdits = 2
    MaxFaults = 1
    Nil = Nil
SYMMETRY Symmetry
CHECK_DEADLOCK FALSE
INVARIANT StatusIsOfLastRun
PROPERTY RhythmIsKept

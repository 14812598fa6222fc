SPECIFICATION FairSpec
CONSTANTS
    DayOptions = {1, 2}
    Source = {s1}
    Thread = {t1}
    Requests <- Plain
    CrawlOutcome = {"succeeded"}
    MaxNow = 1
    MaxEdits = 2
    MaxFaults = 2
    Nil = Nil
CHECK_DEADLOCK FALSE
PROPERTY JobsFollowSettings
PROPERTY DueRunIsFired

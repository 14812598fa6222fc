SPECIFICATION FairSpec
CONSTANTS
    e1 = e1
    e2 = e2
    e3 = e3
    e4 = e4
    e5 = e5
    e6 = e6
    e7 = e7
    Entry = {e1, e2, e3, e4, e5, e6, e7}
    Titled = {e1, e2, e3, e4, e5, e6}
    Linked = {e1, e2, e3, e4, e5}
    Mark <- Twins
    Notice <- LookAlikes
    Day <- Days
    PageSizes = {1, 2}
    Listings <- Lists
    Spiders = {"anhui", "deal"}
    Arguments <- Given
    Quirks = {"none", "endless", "nameless", "clamped"}
    MaxPageNo = 7
    MaxRuns = 2
    MaxChanges = 1
    MaxFaults = 1
    Nil = Nil
CHECK_DEADLOCK FALSE
INVARIANT NothingMissed
INVARIANT GivesUpAmongStale
INVARIANT CountersAddUp
INVARIANT TextOutlivesDraft
PROPERTY RunEnds

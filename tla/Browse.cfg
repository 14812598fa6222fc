SPECIFICATION Spec
CONSTANTS
    Notice = {1, 2, 3}
    Announced <- SomeAnnounced
    Queries <- SomeQueries
    Day = {0, 1}
    Limit = 1
    MaxNow = 1
    MaxRevisions = 1
    Nil = Nil
    k1 = k1
    k2 = k2
    t1 = t1
CHECK_DEADLOCK FALSE
INVARIANT PagesPartitionTheList
INVARIANT GroupHasOneRow
INVARIANT DuplicatesAddUp
INVARIANT WalkMissesNothing

SPECIFICATION Spec
CONSTANTS
    Job = {j1, j2}
    Url = {l1, l2, d1}
    Content = {c1, c2}
    Docs <- SomeDocs
    MaxItems = 2
    MaxErrors = 1
    MaxFaults = 1
    Overlap = TRUE
    Nil = Nil
    l1 = l1
    l2 = l2
    d1 = d1
    c1 = c1
    c2 = c2
SYMMETRY JobsAlike
CHECK_DEADLOCK FALSE
INVARIANT StatsTypeOK
INVARIANT RowsMatchCounters
INVARIANT PagesAreItsOwn
INVARIANT StatusTellsRun
INVARIANT MarksAreCounted

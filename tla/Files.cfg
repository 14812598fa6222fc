SPECIFICATION Spec
CONSTANTS
    Writers = {w1, w2}
    Notice = {1, 2}
    Ext = {e1, e2, e3}
    Hash = {h1, h2, h3}
    Key = {k1, k2, k3, k4}
    Look = {l1, l2}
    Content = {c1, c2, c3}
    Type = {announcement, result}
    Url = {u1}
    DefaultType = announcement
    Alike <- SameLook
    Announcements <- Files
    OneProcess = FALSE
    MaxFaults = 2
    Nil = Nil
    e1 = e1
    e2 = e2
    e3 = e3
    h1 = h1
    h2 = h2
    h3 = h3
    k1 = k1
    k2 = k2
    k3 = k3
    k4 = k4
    l1 = l1
    l2 = l2
    c1 = c1
    c2 = c2
    c3 = c3
    u1 = u1
    announcement = announcement
    result = result
SYMMETRY Symmetry
INVARIANT VersionsNumbered
INVARIANT AttachmentsLinked

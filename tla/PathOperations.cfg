\* Two paths and two files, any of which is a link; every tree of them at first.
CONSTANTS
    c1 = c1
    c2 = c2
    c3 = c3
    s1 = s1
    s2 = s2
    accessTime = accessTime
    modifyTime = modifyTime
    size = size
    Caller = {c1, c2, c3}
    Session = {s1, s2}
    SessionOf <- MCSessionOf
    Path = {p1, p2}
    File = {f1, f2}
    Attribute = {accessTime, modifyTime, size}
    Group <- MCGroups
    None = None
    Initial = Initial
SPECIFICATION Spec
SYMMETRY MCSymmetry
INVARIANTS TypeOK LostOnlyToOvertaken ExistsIsTrue
PROPERTIES WritesWhatItRead
CHECK_DEADLOCK FALSE

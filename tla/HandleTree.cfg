\* The smallest tree with every kind of handle and two branches at each level
\* that has any.
CONSTANTS
    r = r
    c = c
    s = s
    d = d
    f = f
    a = a
    Handle <- MCHandle
    Root = r
    Ancestors <- MCAncestors
SPECIFICATION Spec
INVARIANTS OwnersOpen
PROPERTIES ClosedForGood

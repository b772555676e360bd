\* A creation and two removals that overlap, with uploads of others between.
CONSTANTS
    c1 = c1
    r1 = r1
    r2 = r2
    Creator = {c1}
    Remover = {r1, r2}
    Name <- MCName
    Path <- MCPath
    Elsewhere <- MCElsewhere
    At <- MCAt
SPECIFICATION Spec
INVARIANTS TypeOK UndisturbedRemovalIsWhole CreatedExists
PROPERTIES RemovesOnlyBelow
CHECK_DEADLOCK FALSE

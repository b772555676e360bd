\* A creation alone; what it finds at its path may be a file.
CONSTANTS
    c1 = c1
    r1 = r1
    r2 = r2
    Creator = {c1}
    Remover = {}
    Name <- MCName
    Path <- MCPath
    Elsewhere <- MCElsewhere
    At <- MCAt
SPECIFICATION Spec
INVARIANTS CreatedIsDirectory
CHECK_DEADLOCK FALSE

\* The connection may be lost while a transfer waits for room.
CONSTANTS
    r1 = r1
    r2 = r2
    w1 = w1
    Reader = {r1}
    Writer = {w1}
    Size <- MCSizes
    From <- MCFroms
    Length <- MCLengths
    Growth = 0
    BufferSize = 2
    QueueSize = 2
    Overhead = 1
    Window = 6
    Threshold = 4
    Reordering = FALSE
SPECIFICATION Spec
PROPERTIES LossEndsTransfers
CHECK_DEADLOCK FALSE

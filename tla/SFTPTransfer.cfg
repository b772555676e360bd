\* A reader and a writer, each pipelined or not, compete for a window that the writer can
\* fill; the server answers in any order and the connection may be lost.
CONSTANTS
    r1 = r1
    r2 = r2
    w1 = w1
    Reader = {r1}
    Writer = {w1}
    Size <- MCSizes
    From <- MCFroms
    Length <- MCLengths
    Growth = 2
    BufferSize = 2
    QueueSize = 2
    Overhead = 1
    Window = 6
    Threshold = 4
    Reordering = TRUE
SPECIFICATION Spec
INVARIANTS TypeOK DeliveredInOrder EndedReadIsWhole ReturnedUploadIsStored
PROPERTIES TransfersEnd LossWithRoomEndsTransfers
CHECK_DEADLOCK FALSE

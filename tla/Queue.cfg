\* The circular buffer of the default policy is a bounded FIFO queue.
SPECIFICATION Spec
CONSTANTS
    r1 = r1  r2 = r2  r3 = r3
    Requests = {r1, r2, r3}
    Capacity = 3
    Nil = Nil
INVARIANTS
    Positions
PROPERTIES
    QueueIsFIFO

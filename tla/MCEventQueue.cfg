CONSTANTS
    e1 = e1
    e2 = e2
    e3 = e3
    Event <- MCEvent
    MovedFrom = MovedFrom
    Capacity = 3
SPECIFICATION Spec
INVARIANTS TypeOK RingConsistent
PROPERTY ImplementsFifo

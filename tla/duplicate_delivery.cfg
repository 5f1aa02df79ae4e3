SPECIFICATION Spec
CONSTANTS
    Event = {e1, e2}
    Worker = {w1, w2}
    BatchSize = 2
    MaxStamp = 1
    MaxFaults = 1
    Rejecting = FALSE
SYMMETRY Symmetry
INVARIANTS NoDuplicateDelivery

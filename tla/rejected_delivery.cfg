SPECIFICATION Spec
CONSTANTS
    Event = {e1, e2}
    Worker = {w1}
    BatchSize = 2
    MaxStamp = 1
    MaxFaults = 0
    Rejecting = TRUE
SYMMETRY Symmetry
INVARIANTS DeliveredIsInGraph

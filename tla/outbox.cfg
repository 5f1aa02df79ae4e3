SPECIFICATION Spec
CONSTANTS
    Event = {e1, e2, e3}
    Worker = {w1, w2}
    BatchSize = 2
    MaxStamp = 2
    MaxFaults = 2
    Rejecting = TRUE
SYMMETRY Symmetry
INVARIANTS TypeOK CopiesNeedFaults StreamFirst
PROPERTIES StreamSpec TripleStoreSpec

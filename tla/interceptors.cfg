SPECIFICATION CrowdSpec
CONSTANTS
    Request = {r1, r2, r3, r4, r5}
    Procedure = {login, logout}
    Public = {login}
    Rate = 1
    Burst = 2
    MaxTime = 1
    Late = {r4, r5}
    None = None
SYMMETRY Symmetry
INVARIANTS TypeOK SpansEnd ActiveExact CollectorsAgree LimiterBound

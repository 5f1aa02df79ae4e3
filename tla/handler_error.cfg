SPECIFICATION Spec
CONSTANTS
    Request = {r1}
    Procedure = {login, logout}
    Public = {login}
    Rate = 1
    Burst = 2
    MaxTime = 1
    Late = {}
    None = None
SYMMETRY Symmetry
INVARIANTS PanicsRecovered

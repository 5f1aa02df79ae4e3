SPECIFICATION Spec
CONSTANTS
    Request = {r1, r2, r3, r4}
    Emails = {e1, e2}
    Usernames = {n1}
    Passwords = {old}
    Weak = {}
    Overlong = {}
    Existing = {e1, e2}
    InitialPassword = old
    Ops <- SessionOps
    Environment <- SessionFaults
    RefreshTTL = 1
    SessionTTL = 1
    ResetTTL = 1
    VerifyTTL = 1
    MaxTime = 0
    None = None
SYMMETRY Symmetry
INVARIANTS RotationRetiresParent OldSessionsRevoked VoidRefused
PROPERTIES LedgerSpec

SPECIFICATION Spec
CONSTANTS
    Request = {r1, r2, r3, r4}
    Emails = {e1}
    Usernames = {n1}
    Passwords = {old}
    Weak = {}
    Overlong = {}
    Existing = {e1}
    InitialPassword = old
    Ops <- RecoveryOps
    Environment <- RecoveryFaults
    RefreshTTL = 1
    SessionTTL = 1
    ResetTTL = 1
    VerifyTTL = 1
    MaxTime = 1
    None = None
SYMMETRY Symmetry
INVARIANTS OldSessionsRevoked VoidRefused RowOutlivesJwt

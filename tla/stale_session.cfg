SPECIFICATION Spec
CONSTANTS
    Request = {r1, r2}
    Emails = {e1}
    Usernames = {n1}
    Passwords = {old, new}
    Weak = {}
    Overlong = {}
    Existing = {e1}
    InitialPassword = old
    Ops <- SessionOps
    Environment <- NoFault
    RefreshTTL = 1
    SessionTTL = 1
    ResetTTL = 1
    VerifyTTL = 1
    MaxTime = 0
    None = None
SYMMETRY Symmetry
INVARIANTS PasswordChangeClearsSessions

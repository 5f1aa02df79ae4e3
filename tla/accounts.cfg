SPECIFICATION Spec
CONSTANTS
    Request = {r1, r2, r3}
    Emails = {e1, e2}
    Usernames = {n1, n2}
    Passwords = {old, long, weak}
    Weak = {weak}
    Overlong = {long}
    Existing = {}
    InitialPassword = old
    Ops <- AccountOps
    Environment <- AllFaults
    RefreshTTL = 1
    SessionTTL = 1
    ResetTTL = 1
    VerifyTTL = 1
    MaxTime = 0
    None = None
SYMMETRY Symmetry
INVARIANTS TypeOK MailProvesAddress RegistrationExclusive RegisteredCanVerify

SPECIFICATION FairSpec
CONSTANTS
    Request = {r1, r2}
    Emails = {e1, e2}
    Usernames = {n1}
    Passwords = {old, weak, long}
    Weak = {weak}
    Overlong = {long}
    Existing = {e1}
    InitialPassword = old
    Ops <- EveryOp
    Environment <- NoFault
    RefreshTTL = 1
    SessionTTL = 1
    ResetTTL = 1
    VerifyTTL = 2
    MaxTime = 1
    None = None
PROPERTIES MailArrives

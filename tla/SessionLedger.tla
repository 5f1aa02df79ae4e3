----------------------------- MODULE SessionLedger -----------------------------
(***************************************************************************)
(* What the table user_sessions promises its clients, whatever the order   *)
(* in which requests run and fail: a refresh token opens at most one       *)
(* session, for one account, and a session that was closed stays closed.   *)
(* Sessions close one at a time (logout, rotation) or all those of an      *)
(* account together (change or reset of its password).                     *)
(***************************************************************************)
CONSTANTS Token, Account

VARIABLES
    opened, \* the tokens that ever opened a session
    live,   \* those whose session is open
    owner   \* the account of every token in opened

LedgerInit == opened = {} /\ live = {} /\ owner = [t \in {} |-> t]

Open(t, a) ==
    /\ t \notin opened
    /\ opened' = opened \cup {t}
    /\ live' = live \cup {t}
    /\ owner' = [s \in opened \cup {t} |-> IF s = t THEN a ELSE owner[s]]

Close(t) ==
    /\ t \in live
    /\ live' = live \ {t}
    /\ UNCHANGED <<opened, owner>>

CloseAccount(a) ==
    /\ live' = {t \in live : owner[t] # a}
    /\ UNCHANGED <<opened, owner>>

LedgerNext ==
    \/ \E t \in Token, a \in Account : Open(t, a)
    \/ \E t \in Token : Close(t)
    \/ \E a \in Account : CloseAccount(a)

LedgerSpec == LedgerInit /\ [][LedgerNext]_<<opened, live, owner>>
=============================================================================

------------------------------ MODULE AuthService ------------------------------
(***************************************************************************)
(* The authentication service of the API: every RPC of AuthService as a    *)
(* sequence of repository calls on one PostgreSQL store, interleaved call  *)
(* by call with the other requests in flight.  No RPC opens a transaction, *)
(* so each call is atomic by itself and nothing larger is.                 *)
(*                                                                         *)
(* A request is named by a value of Request and lives once: idle, running, *)
(* then done (answered) or dead (its process stopped).  The refresh token, *)
(* the e-mail token and the session a request mints are random in the code *)
(* (uuid jti, 32 random bytes) and are named here by that request.  A user *)
(* id is random too and never changes; the account's unique, immutable     *)
(* e-mail stands for it.                                                   *)
(***************************************************************************)
EXTENDS Naturals, Sequences

CONSTANTS
    Request,         \* the requests that may arrive
    Emails,          \* e-mail addresses
    Usernames,       \* usernames asked for in registrations
    Passwords,       \* passwords in use
    Weak,            \* those ValidatePassword refuses
    Overlong,        \* those it accepts and bcrypt refuses (more than 72 bytes)
    Existing,        \* accounts in the store at the start
    InitialPassword, \* the password of the existing accounts
    Ops,             \* the RPCs that arrive in this instance
    Environment,     \* the faults that may happen: see Faults
    RefreshTTL,      \* lifetime of a refresh JWT
    SessionTTL,      \* lifetime of a row of user_sessions
    ResetTTL,        \* lifetime of a password_reset token
    VerifyTTL,       \* lifetime of an email_verification token
    MaxTime,         \* bound: the clock stops here
    None             \* no value

(* A store error is a statement that fails before or after it took effect, *)
(* a lost connection, or a request whose client went away: its context is  *)
(* cancelled and every later statement returns that error.  A crash stops  *)
(* the API process.  Mail is lost when the SMTP exchange fails.  Nothing in *)
(* the code clears is_active: an operator deactivates an account by hand.  *)
Faults == {"storeError", "crash", "mailLoss", "deactivate"}

(* The repository calls of each service method, in program order.          *)
RegisterUser == <<"GetUserByEmail", "CreateUser", "CreateUserSession",
                  "CreateUserToken", "Emit">>
Login == <<"GetUserByEmail", "CreateUserSession", "UpdateLastLogin">>
Logout == <<"DeleteUserSession">>
(* Mutant: the new session is opened before the old one is closed.         *)
RefreshOpensFirst == <<"GetUserSessionByToken", "GetUserByID", "CreateUserSession",
                       "DeleteUserSession">>
(* Mutant: the old session is not closed.                                  *)
RefreshKeepsOld == <<"GetUserSessionByToken", "GetUserByID", "CreateUserSession">>
RefreshTokens == <<"GetUserSessionByToken", "GetUserByID", "DeleteUserSession",
                   "CreateUserSession">>
RequestPasswordReset == <<"GetUserByEmail", "CreateUserToken">>
(* Mutant: sessions are closed before the password is set.                 *)
ResetClosesFirst == <<"GetUserTokenByHash", "DeleteAllUserSessions", "UpdatePassword",
                      "DeleteUserToken">>
(* Mutant: the reset token stays on record.                                *)
ResetKeepsToken == <<"GetUserTokenByHash", "UpdatePassword", "DeleteAllUserSessions">>
ResetPassword == <<"GetUserTokenByHash", "UpdatePassword", "DeleteUserToken",
                   "DeleteAllUserSessions">>
(* Mutant: sessions are closed before the password is set.                 *)
ChangeClosesFirst == <<"GetUserByID", "DeleteAllUserSessions", "UpdatePassword">>
ChangePassword == <<"GetUserByID", "UpdatePassword", "DeleteAllUserSessions">>
(* Mutant: nobody is looked up to be welcomed.                             *)
VerifyWithoutWelcome == <<"GetUserTokenByHash", "VerifyEmail", "DeleteUserToken">>
VerifyEmail == <<"GetUserTokenByHash", "VerifyEmail", "DeleteUserToken",
                 "GetUserByID">>
ResendVerificationEmail == <<"GetUserByEmail", "CreateUserToken">>

Calls ==
    [Register |-> RegisterUser, Login |-> Login, Logout |-> Logout,
     RefreshTokens |-> RefreshTokens,
     RequestPasswordReset |-> RequestPasswordReset,
     ResetPassword |-> ResetPassword, ChangePassword |-> ChangePassword,
     VerifyEmail |-> VerifyEmail,
     ResendVerificationEmail |-> ResendVerificationEmail]

OpNames == DOMAIN Calls

(* The calls whose error the service drops: it goes on as if it had worked.*)
Tolerated ==
    {<<"Register", "Emit">>, <<"Login", "UpdateLastLogin">>,
     <<"RefreshTokens", "DeleteUserSession">>,
     <<"ResetPassword", "DeleteUserToken">>,
     <<"ResetPassword", "DeleteAllUserSessions">>,
     <<"ChangePassword", "DeleteAllUserSessions">>,
     <<"VerifyEmail", "DeleteUserToken">>, <<"VerifyEmail", "GetUserByID">>}

(* The writes among them that a later request would miss.                  *)
Droppable == {"Emit", "DeleteUserSession", "DeleteUserToken", "DeleteAllUserSessions"}

(* The RPCs that answer with a fresh pair of tokens.                       *)
Minting == {"Register", "Login", "RefreshTokens"}

Results == {"ok", "alreadyExists", "notFound", "inactive", "weakPassword",
            "invalidCredentials", "invalidToken", "sessionNotFound", "internal"}

ASSUME ConstantsAssumption ==
    /\ Weak \subseteq Passwords /\ Overlong \subseteq Passwords \ Weak
    /\ InitialPassword \in Passwords
    /\ Existing \subseteq Emails
    /\ Ops \subseteq OpNames /\ Environment \subseteq Faults
    /\ RefreshTTL \in Nat /\ ResetTTL \in Nat /\ VerifyTTL \in Nat
    /\ MaxTime \in Nat

(* dependencies.go gives the row and the JWT the same thirty days.         *)
ASSUME TTLAssumption == SessionTTL \in Nat /\ RefreshTTL <= SessionTTL

ASSUME NoneAssumption ==
    None \notin Request \cup Emails \cup Usernames \cup Passwords \cup OpNames
                \cup Results

VARIABLES
    users,    \* table users: e-mail -> row, or None
    sessions, \* table user_sessions
    tokens,   \* table user_tokens
    outbox,   \* the accounts whose UserRegistered event is in ontology_outbox
    outgoing, \* mail a goroutine is about to send
    inbox,    \* mail that reached its addressee
    req,      \* what each request is doing, or how it ended
    now       \* the clock

vars == <<users, sessions, tokens, outbox, outgoing, inbox, req, now>>
store == <<users, sessions, tokens, outbox>>
mail == <<outgoing, inbox>>

UserRow ==
    [username: Usernames \cup Emails, password: Passwords, active: BOOLEAN,
     verified: BOOLEAN,
     version: Nat]      \* history: how often the password was set
ASSUME RowAssumption == None \notin UserRow
SessionRow == [token: Request, user: Emails, exp: Nat]
TokenType == {"password_reset", "email_verification"}
TokenRow == [token: Request, user: Emails, type: TokenType, exp: Nat]
Mail == [to: Emails, kind: TokenType \cup {"welcome"}, token: Request \cup {None}]

RequestState ==
    [op: OpNames \cup {None}, status: {"idle", "running", "done", "dead"},
     step: Nat,                      \* the call of Calls[op] it makes next
     user: Emails \cup {None},       \* the account it is about, once known
     username: Usernames \cup {None},
     password: Passwords \cup {None},\* the password presented, or the new one
     current: Passwords \cup {None}, \* ChangePassword's current password
     token: Request \cup {None},     \* the token presented
     exp: Nat,                       \* expiry of the refresh JWT it minted
     result: Results \cup {None},
     cred: Nat,       \* history: the password version its credentials go back to
     version: Nat,    \* history: the version when it opened its session or set
                      \* the password (0: it did not)
     void: BOOLEAN,   \* history: when it began, its token was used up or,
                      \* of a login or refresh, its account deactivated
     undone: SUBSET Droppable] \* history: those of its calls that failed

Idle == [op |-> None, status |-> "idle", step |-> 0, user |-> None,
         username |-> None, password |-> None, current |-> None, token |-> None,
         exp |-> 0, result |-> None, cred |-> 0, version |-> 0, void |-> FALSE,
         undone |-> {}]

TypeOK ==
    /\ users \in [Emails -> UserRow \cup {None}]
    /\ sessions \subseteq SessionRow
    /\ tokens \subseteq TokenRow
    /\ outbox \subseteq Emails
    /\ outgoing \subseteq Mail /\ inbox \subseteq Mail
    /\ req \in [Request -> RequestState]
    /\ now \in Nat

Init ==
    /\ users = [e \in Emails |->
                  IF e \in Existing
                  THEN [username |-> e, password |-> InitialPassword,
                        active |-> TRUE, verified |-> FALSE, version |-> 1]
                  ELSE None]
    /\ sessions = {} /\ tokens = {} /\ outbox = {}
    /\ outgoing = {} /\ inbox = {}
    /\ req = [r \in Request |-> Idle]
    /\ now = 0

-----------------------------------------------------------------------------
(* Requests move through the calls of their method.                        *)

Running(r) == req[r].status = "running"
Ended(r) == req[r].status \in {"done", "dead"}
Succeeded(r, ops) ==
    req[r].status = "done" /\ req[r].result = "ok" /\ req[r].op \in ops
Call(q) == Calls[q.op][q.step]
At(r, call) == Running(r) /\ Call(req[r]) = call

Answer(q, result) == [q EXCEPT !.status = "done", !.result = result]

(* On to the next call, or to a successful answer.  GenerateTokenPair runs *)
(* right before every createSession and stamps the JWT's expiry.           *)
Advance(q) ==
    IF q.step = Len(Calls[q.op]) THEN Answer(q, "ok")
    ELSE [q EXCEPT !.step = @ + 1,
                   !.exp = IF Calls[q.op][q.step + 1] = "CreateUserSession"
                           THEN now + RefreshTTL ELSE @]

(* What becomes of a request whose call returned an error.                 *)
Fail(q) ==
    IF <<q.op, Call(q)>> \in Tolerated THEN Advance(q) ELSE Answer(q, "internal")

Becomes(r, q) == req' = [req EXCEPT ![r] = q]

(* The statement took effect; its reply may still be lost on the way back. *)
Returns(r, q) ==
    \/ Becomes(r, Advance(q))
    \/ "storeError" \in Environment /\ Becomes(r, Fail(q))

-----------------------------------------------------------------------------
(* Arrivals: the checks an RPC makes before its first repository call.     *)

(* Refresh tokens are held by the clients that were answered with one; the *)
(* tokens of user_tokens are known only from the mail that carries them.   *)
Issued == {t \in Request : Succeeded(t, Minting)}
Mailed == {m.token : m \in {n \in inbox : n.kind # "welcome"}}
Authenticated == Existing \cup {req[t].user : t \in Issued}

(* Has a request that used up the token already been answered, and did its *)
(* delete of the token take effect?                                        *)
Did(r, calls) == req[r].undone \cap calls = {}
Spent(t, ops) ==
    \E p \in Request : /\ Succeeded(p, ops) /\ req[p].token = t
                       /\ Did(p, {"DeleteUserSession", "DeleteUserToken"})

Deactivated(e) == users[e] # None /\ ~users[e].active

Arrive(r, op, q) ==
    /\ req[r].status = "idle" /\ op \in Ops
    /\ Becomes(r, [q EXCEPT !.op = op])
    /\ UNCHANGED <<store, mail, now>>

Started == [Idle EXCEPT !.status = "running", !.step = 1]
Refused(result) == Answer(Idle, result)

BeginRegister(r) ==
    \E e \in Emails, n \in Usernames, p \in Passwords :
        \/ /\ p \in Weak
           /\ Arrive(r, "Register", Refused("weakPassword"))
        \/ /\ p \notin Weak
           /\ Arrive(r, "Register", [Started EXCEPT !.user = e, !.username = n,
                                                    !.password = p])

BeginLogin(r) ==
    \E e \in Emails, p \in Passwords :
        Arrive(r, "Login", [Started EXCEPT !.user = e, !.password = p,
                                           !.void = Deactivated(e)])

BeginLogout(r) ==
    \E t \in Issued : Arrive(r, "Logout", [Started EXCEPT !.token = t])

(* The JWT is checked without the store: signature and expiry.             *)
BeginRefreshTokens(r) ==
    \E t \in Issued :
        \/ /\ req[t].exp <= now
           /\ Arrive(r, "RefreshTokens",
                     [Refused("internal") EXCEPT !.token = t])
        \/ /\ req[t].exp > now
           /\ Arrive(r, "RefreshTokens",
                     [Started EXCEPT !.token = t, !.user = req[t].user,
                                     !.cred = req[t].cred,
                                     !.void = \/ Spent(t, {"RefreshTokens", "Logout"})
                                              \/ Deactivated(req[t].user)])

BeginRequestPasswordReset(r) ==
    \E e \in Emails :
        Arrive(r, "RequestPasswordReset", [Started EXCEPT !.user = e])

BeginResetPassword(r) ==
    \E t \in Mailed, p \in Passwords :
        \/ /\ p \in Weak
           /\ Arrive(r, "ResetPassword", Refused("weakPassword"))
        \/ /\ p \notin Weak
           /\ Arrive(r, "ResetPassword",
                     [Started EXCEPT !.token = t, !.password = p,
                                     !.void = Spent(t, {"ResetPassword"})])

(* The account is the subject of the caller's access token.                *)
BeginChangePassword(r) ==
    \E e \in Authenticated, c \in Passwords, p \in Passwords :
        Arrive(r, "ChangePassword",
               [Started EXCEPT !.user = e, !.current = c, !.password = p])

BeginVerifyEmail(r) ==
    \E t \in Mailed :
        Arrive(r, "VerifyEmail",
               [Started EXCEPT !.token = t, !.void = Spent(t, {"VerifyEmail"})])

BeginResendVerificationEmail(r) ==
    \E e \in Emails :
        Arrive(r, "ResendVerificationEmail", [Started EXCEPT !.user = e])

-----------------------------------------------------------------------------
(* Reads, and what each method decides on what it read.                    *)

Reads(r, op, call) ==
    At(r, call) /\ req[r].op = op /\ UNCHANGED <<store, inbox, now>>
Answers(r, result) == Becomes(r, Answer(req[r], result)) /\ UNCHANGED outgoing
Proceeds(r, q) == Becomes(r, Advance(q)) /\ UNCHANGED outgoing

RegisterLookup(r) ==
    /\ Reads(r, "Register", "GetUserByEmail")
    /\ LET row == users[req[r].user] IN
       \/ row # None /\ Answers(r, "alreadyExists")
       \/ row = None /\ req[r].password \in Overlong /\ Answers(r, "internal")
       \/ row = None /\ req[r].password \notin Overlong /\ Proceeds(r, req[r])

LoginLookup(r) ==
    /\ Reads(r, "Login", "GetUserByEmail")
    /\ LET row == users[req[r].user] IN
       \/ row = None /\ Answers(r, "notFound")
       \/ row # None /\ ~row.active /\ Answers(r, "inactive")
       \/ /\ row # None /\ row.active /\ row.password # req[r].password
          /\ Answers(r, "invalidCredentials")
       \/ /\ row # None /\ row.active /\ row.password = req[r].password
          /\ Proceeds(r, [req[r] EXCEPT !.cred = row.version])

(* An unknown address, or one verified already, is answered like any other.*)
MailLookup(r) ==
    \E op \in {"RequestPasswordReset", "ResendVerificationEmail"} :
        /\ Reads(r, op, "GetUserByEmail")
        /\ LET row == users[req[r].user] IN
           \/ row = None /\ Answers(r, "ok")
           \/ /\ row # None /\ op = "ResendVerificationEmail" /\ row.verified
              /\ Answers(r, "ok")
           \/ /\ row # None /\ (op = "RequestPasswordReset" \/ ~row.verified)
              /\ Proceeds(r, req[r])

RefreshFindSession(r) ==
    /\ Reads(r, "RefreshTokens", "GetUserSessionByToken")
    /\ LET found == \E s \in sessions : s.token = req[r].token /\ s.exp > now IN
       \/ found /\ Proceeds(r, req[r])
       \/ ~found /\ Answers(r, "sessionNotFound")

(* Accounts are never deleted: GetUserByID finds the row.                  *)
RefreshGetUser(r) ==
    /\ Reads(r, "RefreshTokens", "GetUserByID")
    /\ \/ users[req[r].user].active /\ Proceeds(r, req[r])
       \/ ~users[req[r].user].active /\ Answers(r, "inactive")

(* ChangePassword does not look at is_active.                              *)
ChangeGetUser(r) ==
    /\ Reads(r, "ChangePassword", "GetUserByID")
    /\ LET row == users[req[r].user] IN
       \/ row.password # req[r].current /\ Answers(r, "invalidCredentials")
       \/ /\ row.password = req[r].current /\ req[r].password \in Weak
          /\ Answers(r, "weakPassword")
       \/ /\ row.password = req[r].current /\ req[r].password \in Overlong
          /\ Answers(r, "internal")
       \/ /\ row.password = req[r].current
          /\ req[r].password \notin Weak \cup Overlong
          /\ Proceeds(r, [req[r] EXCEPT !.cred = row.version])

(* The read only serves the welcome mail.                                  *)
VerifyGetUser(r) ==
    /\ Reads(r, "VerifyEmail", "GetUserByID")
    /\ Becomes(r, Advance(req[r]))
    /\ outgoing' = outgoing \cup
                   {[to |-> req[r].user, kind |-> "welcome", token |-> None]}

(* The type a method's user token has on record.                           *)
(* Mutant: a name the column's enum does not know.                         *)
TokenKindMisnamed(q) ==
    IF q.op \in {"RequestPasswordReset", "ResetPassword"} THEN "reset_password"
    ELSE "email_verification"
TokenKind(q) ==
    IF q.op \in {"RequestPasswordReset", "ResetPassword"} THEN "password_reset"
    ELSE "email_verification"

(* Mutant: the type column is not compared.                                *)
HonouredWhateverType(t, q) == t.token = q.token /\ t.exp > now
Honoured(t, q) == t.token = q.token /\ t.type = TokenKind(q) /\ t.exp > now

FindUserToken(r) ==
    \E op \in {"ResetPassword", "VerifyEmail"} :
        /\ Reads(r, op, "GetUserTokenByHash")
        /\ LET found == {t \in tokens : Honoured(t, req[r])} IN
           \/ found = {} /\ Answers(r, "invalidToken")
           \/ \E t \in found :
                 LET q == [req[r] EXCEPT !.user = t.user] IN
                 \/ q.password \in Overlong /\ Answers(r, "internal")
                 \/ q.password \notin Overlong /\ Proceeds(r, q)

-----------------------------------------------------------------------------
(* Writes: each is one statement, shared by the methods that make it.      *)

(* Both e-mail and username are unique in table users; the losing INSERT   *)
(* is reported as the driver's raw error.                                  *)
(* Mutant: no unique constraint on the username.                           *)
TakenAddress(q) == users[q.user] # None
Taken(q) ==
    \/ users[q.user] # None
    \/ \E e \in Emails : users[e] # None /\ users[e].username = q.username

CreateUser(r) ==
    /\ At(r, "CreateUser")
    /\ LET q == req[r] IN
       \/ Taken(q) /\ Becomes(r, Answer(q, "internal")) /\ UNCHANGED users
       \/ /\ ~Taken(q)
          /\ users' = [users EXCEPT ![q.user] =
                          [username |-> q.username, password |-> q.password,
                           active |-> TRUE, verified |-> FALSE, version |-> 1]]
          /\ Returns(r, [q EXCEPT !.cred = 1])
    /\ UNCHANGED <<sessions, tokens, outbox, mail, now>>

(* Mutant: the row lives no longer than an access token.                   *)
AccessExpiry == now
SessionExpiry == now + SessionTTL

CreateUserSession(r) ==
    /\ At(r, "CreateUserSession")
    /\ LET q == req[r] IN
       /\ sessions' = sessions \cup
                      {[token |-> r, user |-> q.user, exp |-> SessionExpiry]}
       /\ Returns(r, [q EXCEPT !.version = users[q.user].version])
    /\ UNCHANGED <<users, tokens, outbox, mail, now>>

(* The statement's success is what starts the goroutine that mails it.     *)
CreateUserToken(r) ==
    /\ At(r, "CreateUserToken")
    /\ LET q == req[r]
           type == TokenKind(q)
           ttl == IF q.op = "RequestPasswordReset" THEN ResetTTL ELSE VerifyTTL IN
       /\ tokens' = tokens \cup {[token |-> r, user |-> q.user, type |-> type,
                                  exp |-> now + ttl]}
       /\ \/ /\ Becomes(r, Advance(q))
             /\ outgoing' = outgoing \cup
                            {[to |-> q.user, kind |-> type, token |-> r]}
          \/ /\ "storeError" \in Environment
             /\ Becomes(r, Fail(q)) /\ UNCHANGED outgoing
    /\ UNCHANGED <<users, sessions, outbox, inbox, now>>

Emit(r) ==
    /\ At(r, "Emit")
    /\ outbox' = outbox \cup {req[r].user}
    /\ Returns(r, req[r])
    /\ UNCHANGED <<users, sessions, tokens, mail, now>>

(* last_login_at is not kept: nothing reads it.                            *)
UpdateLastLogin(r) ==
    /\ At(r, "UpdateLastLogin")
    /\ Returns(r, req[r])
    /\ UNCHANGED <<store, mail, now>>

DeleteUserSession(r) ==
    /\ At(r, "DeleteUserSession")
    /\ sessions' = {s \in sessions : s.token # req[r].token}
    /\ Returns(r, req[r])
    /\ UNCHANGED <<users, tokens, outbox, mail, now>>

(* Mutant: the statement lost its WHERE clause.                            *)
DeleteEverySession(r) ==
    /\ At(r, "DeleteAllUserSessions")
    /\ sessions' = {}
    /\ Returns(r, req[r])
    /\ UNCHANGED <<users, tokens, outbox, mail, now>>
DeleteAllUserSessions(r) ==
    /\ At(r, "DeleteAllUserSessions")
    /\ sessions' = {s \in sessions : s.user # req[r].user}
    /\ Returns(r, req[r])
    /\ UNCHANGED <<users, tokens, outbox, mail, now>>

(* Mutant: it deletes by user_id instead of by hash.                       *)
DeleteTokensOfUser(r) ==
    /\ At(r, "DeleteUserToken")
    /\ tokens' = {t \in tokens : t.user # req[r].user}
    /\ Returns(r, req[r])
    /\ UNCHANGED <<users, sessions, outbox, mail, now>>
DeleteUserToken(r) ==
    /\ At(r, "DeleteUserToken")
    /\ tokens' = {t \in tokens : t.token # req[r].token}
    /\ Returns(r, req[r])
    /\ UNCHANGED <<users, sessions, outbox, mail, now>>

UpdatePassword(r) ==
    /\ At(r, "UpdatePassword")
    /\ LET q == req[r] IN
       /\ users' = [users EXCEPT ![q.user].password = q.password,
                                ![q.user].version = @ + 1]
       /\ Returns(r, [q EXCEPT !.version = users[q.user].version + 1])
    /\ UNCHANGED <<sessions, tokens, outbox, mail, now>>

MarkVerified(r) ==
    /\ At(r, "VerifyEmail")
    /\ users' = [users EXCEPT ![req[r].user].verified = TRUE]
    /\ Returns(r, req[r])
    /\ UNCHANGED <<sessions, tokens, outbox, mail, now>>

-----------------------------------------------------------------------------
(* The environment.                                                        *)

(* The call fails and changes nothing.                                     *)
StoreError(r) ==
    /\ "storeError" \in Environment /\ Running(r)
    /\ Becomes(r, Fail([req[r] EXCEPT !.undone = @ \cup (Droppable \cap {Call(req[r])})]))
    /\ UNCHANGED <<store, mail, now>>

(* The process stops: its requests are never answered, and the goroutines  *)
(* holding unsent mail go with it.                                         *)
Crash ==
    /\ "crash" \in Environment
    /\ outgoing # {} \/ \E r \in Request : Running(r)
    /\ req' = [r \in Request |-> IF Running(r)
                                 THEN [req[r] EXCEPT !.status = "dead"] ELSE req[r]]
    /\ outgoing' = {}
    /\ UNCHANGED <<store, inbox, now>>

SendMail(m) ==
    /\ m \in outgoing
    /\ outgoing' = outgoing \ {m}
    /\ \/ inbox' = inbox \cup {m}
       \/ "mailLoss" \in Environment /\ UNCHANGED inbox
    /\ UNCHANGED <<store, req, now>>

Deactivate(e) ==
    /\ "deactivate" \in Environment
    /\ users[e] # None /\ users[e].active
    /\ users' = [users EXCEPT ![e].active = FALSE]
    /\ UNCHANGED <<sessions, tokens, outbox, mail, req, now>>

Tick ==
    /\ now < MaxTime
    /\ now' = now + 1
    /\ UNCHANGED <<store, mail, req>>

(* Every request that arrived has ended and no mail is waiting.            *)
Quiescent ==
    /\ \A r \in Request : ~Running(r)
    /\ outgoing = {}
    /\ UNCHANGED vars

Arrival(r) ==
    \/ BeginRegister(r) \/ BeginLogin(r) \/ BeginLogout(r)
    \/ BeginRefreshTokens(r) \/ BeginRequestPasswordReset(r)
    \/ BeginResetPassword(r) \/ BeginChangePassword(r)
    \/ BeginVerifyEmail(r) \/ BeginResendVerificationEmail(r)

Step(r) ==
    \/ RegisterLookup(r) \/ LoginLookup(r) \/ MailLookup(r)
    \/ RefreshFindSession(r) \/ RefreshGetUser(r) \/ ChangeGetUser(r)
    \/ VerifyGetUser(r) \/ FindUserToken(r)
    \/ CreateUser(r) \/ CreateUserSession(r) \/ CreateUserToken(r) \/ Emit(r)
    \/ UpdateLastLogin(r) \/ DeleteUserSession(r) \/ DeleteAllUserSessions(r)
    \/ DeleteUserToken(r) \/ UpdatePassword(r) \/ MarkVerified(r)
    \/ StoreError(r)

Next ==
    \/ \E r \in Request : Arrival(r) \/ Step(r)
    \/ \E m \in Mail : SendMail(m)
    \/ \E e \in Emails : Deactivate(e)
    \/ Crash \/ Tick \/ Quiescent

Spec == Init /\ [][Next]_vars

(* A handler runs to its end and the mail goroutines to theirs: the Go     *)
(* scheduler starves neither, and a statement that does not answer is      *)
(* ended by its context with an error.                                     *)
Fairness ==
    /\ \A r \in Request : WF_vars(Step(r))
    /\ WF_vars(\E m \in Mail : SendMail(m))

FairSpec == Spec /\ Fairness

-----------------------------------------------------------------------------
(* Properties.                                                             *)

IsLive(t) == \E s \in sessions : s.token = t
SettingPassword == {"ChangePassword", "ResetPassword"}

(* Rotation replaces: while the session a refresh opened is live, the one  *)
(* it was refreshed from is not, however many refreshes, logouts and       *)
(* password changes interleave.  RefreshTokens deletes the old row before  *)
(* it inserts the new one, and drops the error of that delete: whoever     *)
(* else's calls fail, only its own failed delete leaves both.              *)
RotationRetiresParent ==
    \A s \in sessions :
        /\ req[s.token].op = "RefreshTokens" /\ Did(s.token, {"DeleteUserSession"})
        => ~IsLive(req[s.token].token)

(* Once a change or a reset of the password has been answered with         *)
(* success, no session row inserted before the new password was stored is  *)
(* left, unless its own DeleteAllUserSessions failed: that runs after      *)
(* UpdatePassword, and its error is dropped.                               *)
OldSessionsRevoked ==
    \A r \in Request :
        /\ Succeeded(r, SettingPassword) /\ Did(r, {"DeleteAllUserSessions"})
        => \A s \in sessions : s.user = req[r].user
                                 => req[s.token].version >= req[r].version

(* What is used up stays used up: a refresh token rotated or logged out, a *)
(* reset or a verification token consumed, by a request already answered   *)
(* with success gets nothing for a request that begins later, unless the   *)
(* delete of the token was the call that failed.  And an account that was  *)
(* deactivated gets no login and no refresh that begins later; a change or *)
(* a reset of its password, or a logout, it does: only Login and           *)
(* RefreshTokens look at is_active.  Two requests in flight together may   *)
(* both be served.                                                         *)
VoidRefused ==
    \A r \in Request : req[r].void => ~Succeeded(r, OpNames)

(* A password is reset, and an address verified, only with a token of the  *)
(* right kind that was mailed to that account and arrived there: the two   *)
(* kinds share one table and one lookup.                                   *)
MailProvesAddress ==
    \A r \in Request :
        LET proof(kind) == [to |-> req[r].user, kind |-> kind,
                            token |-> req[r].token] IN
        /\ Succeeded(r, {"ResetPassword"}) => proof("password_reset") \in inbox
        /\ Succeeded(r, {"VerifyEmail"}) => proof("email_verification") \in inbox

(* Concurrent registrations are exclusive: of those for one address at     *)
(* most one succeeds, the account carries that one's username, and no two  *)
(* accounts share a username.                                              *)
RegistrationExclusive ==
    /\ \A q, r \in Request :
          Succeeded(q, {"Register"}) /\ Succeeded(r, {"Register"}) /\ q # r
          => req[q].user # req[r].user
    /\ \A r \in Request : Succeeded(r, {"Register"})
          => users[req[r].user].username = req[r].username
    /\ \A d, e \in Emails :
          users[d] # None /\ users[e] # None /\ d # e
          => users[d].username # users[e].username

(* A registration answered with success leaves what the client needs next: *)
(* the verification token it was mailed is on record until a verification  *)
(* took it, and the event of the account is queued unless its INSERT failed.*)
RegisteredCanVerify ==
    \A r \in Request : Succeeded(r, {"Register"}) =>
        LET e == req[r].user IN
        /\ users[e].verified \/ \E t \in tokens : /\ t.token = r /\ t.user = e
                                                   /\ t.type = "email_verification"
        /\ Did(r, {"Emit"}) => e \in outbox

(* The row of a session never expires before the JWT that names it: a      *)
(* refresh that passes the JWT check is refused only for a session that    *)
(* was closed.                                                             *)
RowOutlivesJwt ==
    \A s \in sessions : s.exp >= req[s.token].exp

(* Every session belongs to the account named in the JWT of its token,     *)
(* and was opened by a request that authenticated that account.            *)
SessionOwner ==
    \A s \in sessions :
        /\ req[s.token].op \in Minting
        /\ req[s.token].user = s.user
        /\ req[s.token].version > 0

(* The mail a success promises arrives in the end, unless a fault took it: *)
(* the verification mail of a registration, the reset mail of an address   *)
(* that has an account, the welcome mail of a verification.                *)
MailArrives ==
    Environment \cap {"crash", "mailLoss", "storeError"} = {} =>
        \A r \in Request :
            /\ Succeeded(r, {"Register"}) \/ (\E t \in tokens : t.token = r)
               ~> \E m \in inbox : m.token = r /\ m.to = req[r].user
            /\ Succeeded(r, {"VerifyEmail"})
               ~> \E m \in inbox : m.kind = "welcome" /\ m.to = req[r].user

(* The sessions table implements the ledger.                               *)
Opened == {t \in Request : req[t].op \in Minting /\ req[t].version > 0}
Live == {s.token : s \in sessions}
Owner == [t \in Opened |-> req[t].user]
Ledger == INSTANCE SessionLedger WITH
    Token <- Request, Account <- Emails,
    opened <- Opened, live <- Live, owner <- Owner
LedgerSpec == Ledger!LedgerSpec

-----------------------------------------------------------------------------
(* What the tests expect of the code, and interleavings contradict.        *)

(* auth_service_test.go: "sessions should be cleared" by a change or a     *)
(* reset of the password.  A login that had compared the old password, or  *)
(* a refresh that had found its session, inserts its row afterwards.       *)
PasswordChangeClearsSessions ==
    \A r \in Request : Succeeded(r, SettingPassword) =>
        \A s \in sessions : s.user = req[r].user
                              => req[s.token].cred >= req[r].version
=============================================================================

----------------------------- MODULE AccountProofs -----------------------------
(***************************************************************************)
(* What AuthService keeps true of accounts, mail tokens and whatever was   *)
(* used up, proved for every set of requests, accounts and passwords: that *)
(* registrations exclude each other, that only mail which arrived resets a *)
(* password or verifies an address, that a registered client can verify,   *)
(* and that what is void gets nothing.                                     *)
(***************************************************************************)
EXTENDS SessionProofs

-----------------------------------------------------------------------------
(* The inductive invariant, in parts.                                      *)

Mailing == {"Register", "RequestPasswordReset", "ResendVerificationEmail"}
Consuming == {"ResetPassword", "VerifyEmail"}

(* The call that mails a token, by method.                                 *)
Mails == [Register |-> 4, RequestPasswordReset |-> 2, ResendVerificationEmail |-> 2]

(* The request is past the call that mails its token, if it makes one.     *)
Sent(k) ==
    /\ k \in Request /\ req[k].op \in Mailing
    /\ req[k].status = "running" => req[k].step > Mails[req[k].op]

(* Mails and rows with a token are about the account of its request.       *)
Posted ==
    \A m \in outgoing \cup inbox : m.kind # "welcome" =>
        /\ Sent(m.token)
        /\ m.to = req[m.token].user /\ m.kind = TokenKind(req[m.token])
Filed ==
    \A t \in tokens :
        /\ Sent(t.token)
        /\ t.user = req[t.token].user /\ t.type = TokenKind(req[t.token])

(* A token that is presented was mailed, and from its lookup on, to the    *)
(* account the request is about.                                           *)
Past(r, ops, step) ==
    /\ req[r].op \in ops
    /\ (req[r].status = "running" /\ req[r].step > step) \/ Succeeded(r, ops)
Shown == \A r \in Request : Past(r, Consuming, 0) => req[r].token \in Mailed
Proved ==
    \A r \in Request : Past(r, Consuming, 1) =>
        [to |-> req[r].user, kind |-> TokenKind(req[r]), token |-> req[r].token]
            \in inbox

(* From its delete on, a token is gone.                                    *)
Filing(t) == \E row \in tokens : row.token = t
Consumed ==
    \A r \in Request :
        Past(r, Consuming, 3) /\ Did(r, {"DeleteUserToken"}) => ~Filing(req[r].token)
Rotated ==
    \A r \in Request :
        Past(r, {"RefreshTokens"}, 3) /\ Did(r, {"DeleteUserSession"})
        => ~IsLive(req[r].token)
LoggedOut ==
    \A r \in Request : req[r].op = "Logout" =>
        /\ req[r].token \in Request /\ Succeeded(req[r].token, Minting)
        /\ Succeeded(r, {"Logout"}) => ~IsLive(req[r].token)

(* Accounts carry the names of those who created them.                     *)
Enrolled(r) == Past(r, {"Register"}, 2)
Named == \A r \in Request : Enrolled(r) => users[req[r].user].username = req[r].username
OneEach ==
    \A q, r \in Request : Enrolled(q) /\ Enrolled(r) /\ q # r => req[q].user # req[r].user
NamesApart ==
    \A d, e \in Emails :
        users[d] # None /\ users[e] # None /\ d # e
        => users[d].username # users[e].username

(* A verification token leaves the table only when the address is verified.*)
Verified(e) == users[e] # None /\ users[e].verified
Verifying == \A r \in Request : Past(r, {"VerifyEmail"}, 2) => Verified(req[r].user)
CanVerify ==
    \A r \in Request : Past(r, {"Register"}, 4) =>
        \/ Verified(req[r].user)
        \/ \E t \in tokens : /\ t.token = r /\ t.user = req[r].user
                             /\ t.type = "email_verification"
Queued ==
    \A r \in Request :
        Succeeded(r, {"Register"}) /\ Did(r, {"Emit"}) => req[r].user \in outbox

(* What a void request will be refused for.                                *)
Hopeless(q) ==
    \/ q.op = "Login" /\ q.step = 1 /\ Deactivated(q.user)
    \/ q.op = "RefreshTokens" /\ q.step \in {1, 2} /\ Deactivated(q.user)
    \/ q.op = "RefreshTokens" /\ q.step = 1 /\ ~IsLive(q.token)
    \/ q.op \in Consuming /\ q.step = 1 /\ ~Filing(q.token)
Voided ==
    \A r \in Request : req[r].void =>
        /\ ~Succeeded(r, OpNames)
        /\ req[r].status = "running" => Hopeless(req[r])

AccountInv ==
    /\ Posted /\ Filed /\ Shown /\ Proved
    /\ Consumed /\ Rotated /\ LoggedOut
    /\ Named /\ OneEach /\ NamesApart
    /\ Verifying /\ CanVerify /\ Queued /\ Voided

-----------------------------------------------------------------------------
(* What one call does.                                                     *)

(* Where the calls are that the parts speak of.                            *)
LEMMA Placed ==
    /\ RegisterUser[2] = "CreateUser" /\ RegisterUser[4] = "CreateUserToken"
    /\ RegisterUser[5] = "Emit" /\ Login[1] = "GetUserByEmail"
    /\ RefreshTokens[1] = "GetUserSessionByToken" /\ RefreshTokens[2] = "GetUserByID"
    /\ RefreshTokens[3] = "DeleteUserSession" /\ Logout[1] = "DeleteUserSession"
    /\ RequestPasswordReset[2] = "CreateUserToken"
    /\ ResendVerificationEmail[2] = "CreateUserToken"
    /\ ResetPassword[1] = "GetUserTokenByHash" /\ ResetPassword[3] = "DeleteUserToken"
    /\ VerifyEmail[1] = "GetUserTokenByHash" /\ VerifyEmail[2] = "VerifyEmail"
    /\ VerifyEmail[3] = "DeleteUserToken"
BY DEF RegisterUser, Login, RefreshTokens, Logout, RequestPasswordReset,
       ResendVerificationEmail, ResetPassword, VerifyEmail

(* The action is the one the call names, unless the statement fails.       *)
LEMMA Performs ==
    ASSUME TypeInv, NEW r \in Request, Step(r), ~StoreError(r)
    PROVE  /\ Call(req[r]) = "CreateUser" => CreateUser(r)
           /\ Call(req[r]) = "CreateUserToken" => CreateUserToken(r)
           /\ Call(req[r]) = "Emit" => Emit(r)
           /\ Call(req[r]) = "DeleteUserToken" => DeleteUserToken(r)
           /\ Call(req[r]) = "DeleteUserSession" => DeleteUserSession(r)
           /\ Call(req[r]) = "VerifyEmail" => MarkVerified(r)
           /\ Call(req[r]) = "GetUserTokenByHash" => FindUserToken(r)
           /\ Call(req[r]) = "GetUserSessionByToken" => RefreshFindSession(r)
           /\ Call(req[r]) = "GetUserByEmail" /\ req[r].op = "Login" => LoginLookup(r)
           /\ Call(req[r]) = "GetUserByID" /\ req[r].op = "RefreshTokens"
              => RefreshGetUser(r)
BY DEF Step, Reads, At, RegisterLookup, LoginLookup, MailLookup,
     RefreshFindSession, RefreshGetUser, ChangeGetUser, VerifyGetUser,
     FindUserToken, CreateUser, CreateUserSession, CreateUserToken, Emit,
     UpdateLastLogin, DeleteUserSession, DeleteAllUserSessions,
     DeleteUserToken, UpdatePassword, MarkVerified

(* A statement that fails changes nothing, and mostly ends the request.    *)
LEMMA StoreErrorEnds ==
    ASSUME TypeInv, NEW r \in Request, StoreError(r)
    PROVE  /\ UNCHANGED <<users, sessions, tokens, outbox, outgoing, inbox, now>>
           /\ <<req[r].op, Call(req[r])>> \notin Tolerated
              => req'[r].status = "done" /\ req'[r].result = "internal"
<1> DEFINE d == req[r].undone \cup (Droppable \cap {Call(req[r])})
           n == [req[r] EXCEPT !.undone = d]
<1>1. req[r] \in RequestState
  BY DEF TypeInv, TypeOK
<1>2. d \in SUBSET Droppable
  BY <1>1 DEF RequestState
<1>3. req'[r] = Fail(n)
  BY DEF StoreError, Becomes, TypeInv, TypeOK
<1> HIDE DEF d
<1>4. n \in RequestState /\ n.op = req[r].op /\ n.step = req[r].step
  BY <1>1, <1>2 DEF RequestState
<1> HIDE DEF n
<1>5. <<req[r].op, Call(req[r])>> \notin Tolerated => req'[r] = Answer(n, "internal")
  BY <1>3, <1>4 DEF Fail, Call
<1>6. Answer(n, "internal").status = "done" /\ Answer(n, "internal").result = "internal"
  BY <1>4 DEF Answer, RequestState
<1> QED  BY <1>5, <1>6 DEF StoreError, store, mail

(* Accounts keep their names, stay verified and stay deactivated; a new    *)
(* one carries its creator's.                                              *)
LEMMA StepAccounts ==
    ASSUME TypeInv, NEW r \in Request, Step(r), NEW e \in Emails
    PROVE  /\ users[e] # None =>
                /\ users'[e] # None /\ users'[e].username = users[e].username
                /\ Verified(e) => Verified(e)'
                /\ Deactivated(e) => Deactivated(e)'
           /\ users[e] = None /\ users'[e] # None =>
                /\ CreateUser(r) /\ e = req[r].user
                /\ users'[e].username = req[r].username
           /\ CreateUser(r) => users' = users \/ ~Taken(req[r])
<1>1. /\ TypeOK /\ TypeOK' /\ Inputs(req[r])
      /\ NeedsAccount(req[r]) => OnRecord(req[r].user, users)
  BY StepEffect, StepType DEF TypeInv
<1>2. CASE CreateUser(r)
  BY <1>1, <1>2, RowAssumption DEF CreateUser, TypeOK, Taken, Verified, Deactivated
<1>3. CASE UpdatePassword(r) \/ MarkVerified(r)
  <2>1. NeedsAccount(req[r]) /\ ~CreateUser(r)
    BY <1>1, <1>3, CallPlaces
       DEF UpdatePassword, MarkVerified, CreateUser, At, Call, NeedsAccount, Inputs
  <2> DEFINE a == req[r].user
             v == users[a].version + 1
             set == [users[a] EXCEPT !.password = req[r].password, !.version = v]
             mark == [users[a] EXCEPT !.verified = TRUE]
             row == IF UpdatePassword(r) THEN set ELSE mark
  <2>2. a \in Emails /\ users[a] \in UserRow /\ users[a] # None
    BY <1>1, <2>1 DEF OnRecord, TypeOK
  <2>3. users' = [users EXCEPT ![a] = row]
    <3>1. CASE UpdatePassword(r)
      BY <1>1, <2>2, <3>1 DEF UpdatePassword, TypeOK, UserRow
    <3>2. CASE ~UpdatePassword(r)
      BY <1>3, <3>2 DEF MarkVerified
    <3> QED  BY <3>1, <3>2
  <2> HIDE DEF v
  <2>4. /\ row.username = users[a].username
        /\ users[a].verified => row.verified
        /\ ~users[a].active => ~row.active
    <3>1. set.username = users[a].username /\ mark.username = users[a].username
      BY <2>2 DEF UserRow
    <3>2. /\ set.verified = users[a].verified /\ mark.verified = TRUE
          /\ set.active = users[a].active /\ mark.active = users[a].active
      BY <2>2 DEF UserRow
    <3> HIDE DEF set, mark
    <3> QED  BY <3>1, <3>2
  <2> HIDE DEF row
  <2>5. users'[e] = IF e = a THEN row ELSE users[e]
    BY <1>1, <2>2, <2>3 DEF TypeOK
  <2>6. users[e] # None => users'[e] # None
    BY <2>2, StepTables
  <2> QED  BY <2>1, <2>2, <2>4, <2>5, <2>6 DEF Verified, Deactivated
<1>4. CASE ~ \/ CreateUser(r) \/ UpdatePassword(r) \/ MarkVerified(r)
  <2>1. users' = users
    BY <1>4 DEF Step, Reads, store, RegisterLookup, LoginLookup, MailLookup,
       RefreshFindSession, RefreshGetUser, ChangeGetUser, VerifyGetUser,
       FindUserToken, CreateUserSession, CreateUserToken, Emit, UpdateLastLogin,
       DeleteUserSession, DeleteAllUserSessions, DeleteUserToken, StoreError
  <2> QED  BY <1>4, <2>1 DEF Verified, Deactivated
<1> QED  BY <1>2, <1>3, <1>4

(* The other tables and the mail: who adds to them, and who deletes.       *)
LEMMA StepRows ==
    ASSUME TypeInv, NEW r \in Request, Step(r)
    PROVE  /\ tokens' \subseteq tokens \/ CreateUserToken(r)
           /\ tokens \subseteq tokens' \/ DeleteUserToken(r)
           /\ outbox \subseteq outbox' /\ inbox' = inbox
           /\ \A m \in outgoing' :
                 m \in outgoing \/ m.kind = "welcome" \/ CreateUserToken(r)
<1>1. CASE VerifyGetUser(r)
  BY <1>1 DEF VerifyGetUser, Reads, store
<1>2. CASE CreateUserToken(r) \/ DeleteUserToken(r)
  BY <1>2 DEF CreateUserToken, DeleteUserToken, mail
<1>3. CASE \/ RegisterLookup(r) \/ LoginLookup(r) \/ MailLookup(r)
           \/ RefreshFindSession(r) \/ RefreshGetUser(r) \/ ChangeGetUser(r)
           \/ FindUserToken(r)
  BY <1>3 DEF Reads, Answers, Proceeds, store, RegisterLookup, LoginLookup, MailLookup,
              RefreshFindSession, RefreshGetUser, ChangeGetUser, FindUserToken
<1>4. CASE \/ CreateUser(r) \/ CreateUserSession(r) \/ Emit(r) \/ UpdateLastLogin(r)
           \/ DeleteUserSession(r) \/ DeleteAllUserSessions(r) \/ UpdatePassword(r)
           \/ MarkVerified(r) \/ StoreError(r)
  BY <1>4 DEF store, mail, CreateUser, CreateUserSession, Emit, UpdateLastLogin,
              DeleteUserSession, DeleteAllUserSessions, UpdatePassword, MarkVerified,
              StoreError
<1> QED  BY <1>1, <1>2, <1>3, <1>4 DEF Step

(* The row and the mail of a token are about the request that mints it,    *)
(* which then goes on.                                                     *)
LEMMA TokenMinted ==
    ASSUME TypeInv, NEW r \in Request, Step(r), CreateUserToken(r)
    PROVE  /\ req[r].op \in Mailing /\ req[r].step = Mails[req[r].op]
           /\ \A t \in tokens' : t \in tokens
                 \/ /\ t.token = r /\ t.user = req[r].user
                    /\ t.type = TokenKind(req[r])
           /\ \A m \in outgoing' : m \in outgoing
                 \/ /\ m.token = r /\ m.to = req[r].user
                    /\ m.kind = TokenKind(req[r])
           /\ \E t \in tokens' : /\ t.token = r /\ t.user = req[r].user
                                 /\ t.type = TokenKind(req[r])
<1>1. req[r].op \in OpNames /\ req[r].step \in 1..Len(Calls[req[r].op])
  BY StepEffect DEF Inputs
<1>2. req[r].op \in Mailing /\ req[r].step = Mails[req[r].op]
  BY <1>1, CallPlaces DEF CreateUserToken, At, Call, Mailing, Mails
<1> DEFINE kind == TokenKind(req[r])
           ttl == IF req[r].op = "RequestPasswordReset" THEN ResetTTL ELSE VerifyTTL
           row == [token |-> r, user |-> req[r].user, type |-> kind, exp |-> now + ttl]
           letter == [to |-> req[r].user, kind |-> kind, token |-> r]
<1>3. tokens' = tokens \cup {row} /\ outgoing' \subseteq outgoing \cup {letter}
  BY DEF CreateUserToken
<1>4. /\ row.token = r /\ row.user = req[r].user /\ row.type = kind
      /\ letter.token = r /\ letter.to = req[r].user /\ letter.kind = kind
  OBVIOUS
<1> HIDE DEF row, letter, kind
<1>5. \E t \in tokens' : t.token = r /\ t.user = req[r].user /\ t.type = kind
  BY <1>3, <1>4
<1> QED  BY <1>2, <1>3, <1>4, <1>5 DEF kind

(* A request comes past a call by making it.                               *)
LEMMA Enters ==
    ASSUME TypeInv, NEW r \in Request, Step(r), NEW k \in Request,
           NEW ops, NEW i \in Nat, Past(k, ops, i)',
           ops \cap {"RequestPasswordReset", "ResendVerificationEmail"} = {},
           \A op \in ops \cap OpNames : Len(Calls[op]) > i
    PROVE  /\ req'[k].op = req[k].op /\ req'[k].token = req[k].token
           /\ req'[k].username = req[k].username
           /\ req[k].undone \subseteq req'[k].undone
           /\ req[k].op \in ops
           /\ \/ Past(k, ops, i)
              \/ /\ k = r /\ req[r].step = i
                 /\ req'[r].status = "running"
<1>1. /\ req[r].status = "running" /\ Inputs(req[r])
      /\ \A x \in Request \ {r} : req'[x] = req[x]
      /\ req'[r].op = req[r].op /\ req'[r].token = req[r].token
      /\ req'[r].username = req[r].username
      /\ req[r].undone \subseteq req'[r].undone
      /\ req'[r].status \in {"running", "done"}
      /\ req'[r].status = "running" => req'[r].step = req[r].step + 1
      /\ req'[r].status = "done" /\ req'[r].result = "ok"
         => req[r].step = Len(Calls[req[r].op]) \/ MailLookup(r)
  BY StepEffect
<1>2. req[r].op \in OpNames /\ req[r].step \in Nat
  BY <1>1, Methods, Lengths DEF Inputs
<1>3. CASE k # r
  BY <1>1, <1>3 DEF Past, Succeeded
<1>4. CASE k = r
  <2>1. req[r].op \in ops /\ ~MailLookup(r)
    BY <1>1, <1>4 DEF Past, MailLookup, Reads
  <2>2. CASE req'[r].status = "running"
    BY <1>1, <1>2, <1>4, <2>1, <2>2 DEF Past, Succeeded
  <2>3. CASE req'[r].status = "done"
    <3>1. req[r].step = Len(Calls[req[r].op])
      BY <1>1, <1>4, <2>1, <2>3 DEF Past, Succeeded
    <3> QED  BY <1>1, <1>2, <1>4, <2>1, <3>1 DEF Past
  <2> QED  BY <1>1, <2>2, <2>3
<1> QED  BY <1>3, <1>4

(* The user of a request is settled once its token is looked up.           *)
LEMMA UserSettled ==
    ASSUME TypeInv, NEW r \in Request, Step(r), NEW k \in Request,
           req[k].op \notin Consuming \/ Past(k, Consuming, 1)
    PROVE  req'[k].user = req[k].user
<1>1. CASE k # r
  BY <1>1, StepEffect
<1>2. CASE k = r
  <2>1. ~FindUserToken(r)
    BY <1>2, Writers, StepEffect DEF Consuming, Past, Succeeded
  <2> QED  BY <1>2, <2>1, StepEffect
<1> QED  BY <1>1, <1>2

(* What a request sent stays sent, and about the same account.             *)
LEMMA StepSent ==
    ASSUME TypeInv, NEW r \in Request, Step(r), NEW k, Sent(k)
    PROVE  /\ k \in Request /\ Sent(k)' /\ ~(k = r /\ CreateUserToken(r))
           /\ req'[k].user = req[k].user /\ req'[k].op = req[k].op
           /\ TokenKind(req'[k]) = TokenKind(req[k])
<1>1. k \in Request /\ req[k].op \in Mailing /\ req[k].op \notin Consuming
  BY DEF Sent, Mailing, Consuming
<1>2. req'[k].op = req[k].op
  BY <1>1, StepEffect
<1>3. Sent(k)'
  <2>1. CASE k # r
    BY <1>1, <2>1, StepEffect DEF Sent
  <2>2. CASE k = r
    <3>1. req[r].step \in Nat /\ Mails[req[r].op] \in Nat
      BY <1>1, <2>2, StepEffect, Methods, Lengths DEF Inputs, Mailing, Mails
    <3> QED  BY <1>1, <1>2, <2>2, <3>1, StepEffect DEF Sent
  <2> QED  BY <2>1, <2>2
<1>4. ~(k = r /\ CreateUserToken(r))
  <2> SUFFICES ASSUME k = r, CreateUserToken(r) PROVE FALSE
    OBVIOUS
  <2>1. req[r].step = Mails[req[r].op] /\ req[r].op \in Mailing
    BY TokenMinted
  <2>2. Mails[req[r].op] \in Nat
    BY <2>1 DEF Mails, Mailing
  <2> QED  BY <2>1, <2>2, StepEffect DEF Sent
<1> QED  BY <1>1, <1>2, <1>3, <1>4, UserSettled DEF TokenKind

-----------------------------------------------------------------------------
(* Every call keeps the invariant.                                         *)

(* Mail and rows come from one statement, and keep to their request.       *)
LEMMA StepMail ==
    ASSUME TypeInv, AccountInv, NEW r \in Request, Step(r)
    PROVE  Posted' /\ Filed'
<1>1. CreateUserToken(r) =>
        /\ Sent(r)' /\ req'[r].user = req[r].user
        /\ TokenKind(req'[r]) = TokenKind(req[r])
  <2> SUFFICES ASSUME CreateUserToken(r)
               PROVE  /\ Sent(r)' /\ req'[r].user = req[r].user
                      /\ TokenKind(req'[r]) = TokenKind(req[r])
    OBVIOUS
  <2>1. req[r].op \in Mailing /\ req[r].step = Mails[req[r].op]
    BY TokenMinted
  <2>2. Mails[req[r].op] \in Nat /\ req[r].op \notin Consuming
    BY <2>1 DEF Mails, Mailing, Consuming
  <2> QED  BY <2>1, <2>2, StepEffect, UserSettled DEF Sent, TokenKind
<1>2. Posted'
  <2> SUFFICES ASSUME NEW m \in outgoing' \cup inbox', m.kind # "welcome"
               PROVE  /\ Sent(m.token)'
                      /\ m.to = req'[m.token].user /\ m.kind = TokenKind(req'[m.token])
    BY DEF Posted
  <2>1. CASE m \in outgoing \cup inbox
    BY <2>1, StepSent DEF AccountInv, Posted
  <2>2. CASE m \notin outgoing \cup inbox
    <3>1. CreateUserToken(r) /\ m \in outgoing'
      BY <2>2, StepRows
    <3>2. m.token = r /\ m.to = req[r].user /\ m.kind = TokenKind(req[r])
      BY <2>2, <3>1, TokenMinted
    <3> QED  BY <1>1, <3>1, <3>2
  <2> QED  BY <2>1, <2>2
<1>3. Filed'
  <2> SUFFICES ASSUME NEW t \in tokens'
               PROVE  /\ Sent(t.token)'
                      /\ t.user = req'[t.token].user /\ t.type = TokenKind(req'[t.token])
    BY DEF Filed
  <2>1. CASE t \in tokens
    BY <2>1, StepSent DEF AccountInv, Filed
  <2>2. CASE t \notin tokens
    <3>1. CreateUserToken(r)
      BY <2>2, StepRows
    <3>2. t.token = r /\ t.user = req[r].user /\ t.type = TokenKind(req[r])
      BY <2>2, <3>1, TokenMinted
    <3> QED  BY <1>1, <3>1, <3>2
  <2> QED  BY <2>1, <2>2
<1> QED  BY <1>2, <1>3

(* A token that was mailed has no mail and no row still to come.           *)
LEMMA MailedSent ==
    ASSUME TypeInv, AccountInv, NEW x \in Mailed
    PROVE  /\ Sent(x)
           /\ \E m \in inbox : /\ m.token = x /\ m.to = req[x].user
                               /\ m.kind = TokenKind(req[x])
BY DEF AccountInv, Posted, Mailed

(* What honours a presented token was mailed to its account.               *)
LEMMA StepProof ==
    ASSUME TypeInv, AccountInv, NEW r \in Request, Step(r)
    PROVE  Shown' /\ Proved' /\ Consumed'
<1>1. inbox' = inbox /\ Mailed' = Mailed
  BY StepRows DEF Mailed
<1>2. Consuming \cap {"RequestPasswordReset", "ResendVerificationEmail"} = {}
      /\ Consuming \subseteq OpNames
      /\ \A op \in Consuming \cap OpNames : Len(Calls[op]) = 4
  BY Methods, Lengths DEF Consuming
<1>3. req[r].status = "running" /\ req[r].step \in 1..5
  <2>1. /\ req[r].status = "running" /\ req[r].op \in OpNames
        /\ req[r].step \in 1..Len(Calls[req[r].op])
    BY StepEffect DEF Inputs
  <2> QED  BY <2>1, CallPlaces
<1>4. ASSUME NEW k \in Request, NEW i \in {0, 1, 3}, Past(k, Consuming, i)'
      PROVE  /\ Past(k, Consuming, 0) /\ req'[k].token = req[k].token
             /\ req'[k].op = req[k].op /\ req[k].undone \subseteq req'[k].undone
             /\ \/ Past(k, Consuming, i)
                \/ /\ k = r /\ req[r].step = i /\ req[r].op \in Consuming
                   /\ req'[r].status = "running"
  <2>1. i \in Nat /\ \A op \in Consuming \cap OpNames : Len(Calls[op]) > i
    BY <1>2
  <2>2. /\ req'[k].op = req[k].op /\ req'[k].token = req[k].token
        /\ req[k].undone \subseteq req'[k].undone
        /\ req[k].op \in Consuming
        /\ \/ Past(k, Consuming, i)
           \/ k = r /\ req[r].step = i /\ req'[r].status = "running"
    BY <1>2, <1>4, <2>1, Enters
  <2>3. req[k].step \in Nat
    BY DEF TypeInv, TypeOK, RequestState
  <2>4. Past(k, Consuming, i) => Past(k, Consuming, 0)
    BY <2>3 DEF Past
  <2>5. k = r => Past(k, Consuming, 0)
    BY <1>3, <2>2 DEF Past
  <2> QED  BY <2>2, <2>4, <2>5
<1>5. Shown'
  BY <1>1, <1>4 DEF AccountInv, Shown
<1>6. Proved'
  <2> SUFFICES ASSUME NEW k \in Request, Past(k, Consuming, 1)'
               PROVE  [to |-> req'[k].user, kind |-> TokenKind(req'[k]),
                       token |-> req'[k].token] \in inbox
    BY <1>1 DEF Proved
  <2>1. TokenKind(req'[k]) = TokenKind(req[k]) /\ req'[k].token = req[k].token
    BY <1>4 DEF TokenKind
  <2>2. CASE Past(k, Consuming, 1)
    BY <2>1, <2>2, UserSettled DEF AccountInv, Proved
  <2>3. CASE ~Past(k, Consuming, 1)
    <3>1. k = r /\ req[r].step = 1 /\ req[r].op \in Consuming
          /\ req'[r].status = "running"
      BY <1>4, <2>3
    <3>2. Call(req[r]) = "GetUserTokenByHash"
          /\ <<req[r].op, Call(req[r])>> \notin Tolerated
      BY <3>1, Methods, Placed DEF Call, Consuming, Tolerated
    <3>3. FindUserToken(r)
      BY <3>1, <3>2, StoreErrorEnds, Performs
    <3>4. PICK t \in tokens :
            Honoured(t, req[r]) /\ req'[r].user = t.user
      <4>1. PICK t \in tokens :
              /\ Honoured(t, req[r])
              /\ \/ req'[r] = Answer([req[r] EXCEPT !.user = t.user], "internal")
                 \/ req'[r] = Answer(req[r], "internal")
                 \/ req'[r] = Answer(req[r], "invalidToken")
                 \/ req'[r] = Advance([req[r] EXCEPT !.user = t.user])
        <5>1. req \in [Request -> RequestState]
          BY DEF TypeInv, TypeOK
        <5>2. ~(req'[r] = Answer(req[r], "invalidToken"))
          <6>1. req[r] \in RequestState
            BY <5>1
          <6>2. Answer(req[r], "invalidToken").status = "done"
            BY <6>1 DEF Answer, RequestState
          <6> QED  BY <3>1, <6>2
        <5> QED  BY <3>3, <5>1, <5>2 DEF FindUserToken, Answers, Proceeds, Becomes
      <4> DEFINE e == t.user
                 n == [req[r] EXCEPT !.user = e]
      <4>2. req[r] \in RequestState /\ e \in Emails
        BY DEF TypeInv, TypeOK, TokenRow
      <4> HIDE DEF e
      <4>3. n \in RequestState /\ n.user = e /\ n.status = "running"
        BY <1>3, <4>2 DEF RequestState
      <4> HIDE DEF n
      <4>4. \A q \in RequestState, x \in Results : Answer(q, x).status = "done"
        BY DEF Answer, RequestState
      <4>5. req'[r] = Advance(n)
        BY <3>1, <4>1, <4>2, <4>3, <4>4 DEF n, e, Results
      <4>6. req'[r].user = e
        BY <4>3, <4>5, Kept
      <4> QED  BY <4>1, <4>6 DEF e
    <3>5. req[r].token \in Mailed
      BY <1>3, <3>1 DEF AccountInv, Shown, Past
    <3>6. PICK m \in inbox : /\ m.token = req[r].token
                             /\ m.to = req[req[r].token].user
                             /\ m.kind = TokenKind(req[req[r].token])
      BY <3>5, MailedSent
    <3>7. t.token = req[r].token /\ t.type = TokenKind(req[r])
      BY <3>4 DEF Honoured
    <3>8. m.to = t.user /\ m.kind = TokenKind(req[r])
      BY <3>6, <3>7 DEF AccountInv, Filed
    <3>9. m = [to |-> m.to, kind |-> m.kind, token |-> m.token]
      BY DEF TypeInv, TypeOK, Mail
    <3> QED  BY <2>1, <3>1, <3>4, <3>6, <3>8, <3>9
  <2> QED  BY <2>2, <2>3
<1>7. Consumed'
  <2> SUFFICES ASSUME NEW k \in Request, Past(k, Consuming, 3)',
                      "DeleteUserToken" \notin req'[k].undone,
                      NEW t \in tokens', t.token = req'[k].token
               PROVE  FALSE
    BY DEF Consumed, Filing, Did
  <2>1. t.token = req[k].token /\ "DeleteUserToken" \notin req[k].undone
    BY <1>4
  <2>2. Sent(t.token)
    BY <1>4, <2>1, MailedSent DEF AccountInv, Shown
  <2>3. t \in tokens
    <3> SUFFICES ASSUME t \notin tokens PROVE FALSE
      OBVIOUS
    <3>1. CreateUserToken(r)
      BY StepRows
    <3>2. t.token = r
      BY <3>1, TokenMinted
    <3> QED  BY <2>2, <3>1, <3>2, StepSent
  <2>4. ~Past(k, Consuming, 3)
    BY <2>1, <2>3 DEF AccountInv, Consumed, Filing, Did
  <2>5. k = r /\ req[r].step = 3 /\ req[r].op \in Consuming
    BY <1>4, <2>4
  <2>6. Call(req[r]) = "DeleteUserToken"
    BY <2>5, Methods, Placed DEF Call, Consuming
  <2>7. DeleteUserToken(r)
    BY <2>5, <2>6, StoreErrorRecords, Performs DEF Droppable
  <2> QED  BY <2>1, <2>5, <2>7 DEF DeleteUserToken
<1> QED  BY <1>5, <1>6, <1>7

(* The session of a request that was answered is never opened again.       *)
LEMMA ClosedKept ==
    ASSUME TypeInv, SessionInv, NEW r \in Request, Step(r),
           NEW x \in Request, Succeeded(x, Minting)
    PROVE  /\ Succeeded(x, Minting)'
           /\ ~IsLive(x) => \A s \in sessions' : s.token # x
<1>1. x # r
  BY StepEffect DEF Succeeded
<1>2. ~IsLive(x) => \A s \in sessions' : s.token # x
  BY <1>1, SessionsKept DEF IsLive
<1> QED  BY <1>1, <1>2, StepEffect DEF Succeeded

(* A session that was rotated or logged out stays closed.                  *)
LEMMA StepSessions ==
    ASSUME TypeInv, SessionInv, AccountInv, NEW r \in Request, Step(r)
    PROVE  Rotated' /\ LoggedOut'
<1>1. Rotated'
  <2> SUFFICES ASSUME NEW k \in Request, Past(k, {"RefreshTokens"}, 3)',
                      "DeleteUserSession" \notin req'[k].undone,
                      NEW s \in sessions', s.token = req'[k].token
               PROVE  FALSE
    BY DEF Rotated, Did, IsLive
  <2> DEFINE ops == {"RefreshTokens"}
  <2>1. /\ ops \cap {"RequestPasswordReset", "ResendVerificationEmail"} = {}
        /\ \A op \in ops \cap OpNames : Len(Calls[op]) > 3
    <3>1. Len(Calls["RefreshTokens"]) = 4
      BY Methods, Lengths
    <3> QED  BY <3>1
  <2>2. /\ req'[k].token = req[k].token /\ req[k].undone \subseteq req'[k].undone
        /\ req[k].op \in ops
        /\ Past(k, ops, 3) \/ (k = r /\ req[r].step = 3)
    BY <2>1, Enters
  <2>3. req[k].token \in Request /\ Succeeded(req[k].token, Minting)
    BY <2>2 DEF SessionInv, Presented
  <2>4. CASE Past(k, ops, 3)
    <3>1. ~IsLive(req[k].token)
      BY <2>2, <2>4 DEF AccountInv, Rotated, Did
    <3> QED  BY <2>2, <2>3, <3>1, ClosedKept
  <2>5. CASE k = r /\ req[r].step = 3
    <3>1. DeleteUserSession(r)
      BY <2>2, <2>5, Writers
    <3> QED  BY <2>2, <2>5, <3>1 DEF DeleteUserSession
  <2> QED  BY <2>2, <2>4, <2>5
<1>2. LoggedOut'
  <2> SUFFICES ASSUME NEW k \in Request, req'[k].op = "Logout"
               PROVE  /\ req'[k].token \in Request
                      /\ Succeeded(req[k].token, Minting)'
                      /\ Succeeded(k, {"Logout"})' =>
                            \A s \in sessions' : s.token # req'[k].token
    BY DEF LoggedOut, IsLive
  <2>1. req[k].op = "Logout" /\ req'[k].token = req[k].token
    BY StepEffect
  <2>2. /\ req[k].token \in Request /\ Succeeded(req[k].token, Minting)
        /\ Succeeded(k, {"Logout"}) => ~IsLive(req[k].token)
    BY <2>1 DEF AccountInv, LoggedOut
  <2>3. ASSUME k = r, Succeeded(k, {"Logout"})' PROVE DeleteUserSession(r)
    <3>1. req[r].step = 1
      <4>1. req[r].op = "Logout" /\ ~MailLookup(r) /\ Len(Calls["Logout"]) = 1
        BY <2>1, <2>3, Methods, Lengths DEF MailLookup, Reads
      <4>2. req'[r].status = "done" /\ req'[r].result = "ok"
        BY <2>3 DEF Succeeded
      <4> QED  BY <4>1, <4>2, StepEffect
    <3>2. Call(req[r]) = "DeleteUserSession"
          /\ <<req[r].op, Call(req[r])>> \notin Tolerated
      BY <2>1, <2>3, <3>1, Methods, Placed DEF Call, Tolerated
    <3> QED  BY <2>3, <3>2, StoreErrorEnds, Performs DEF Succeeded
  <2>4. Succeeded(k, {"Logout"})' => \A s \in sessions' : s.token # req[k].token
    <3>1. CASE k = r
      BY <2>3, <3>1 DEF DeleteUserSession
    <3>2. CASE k # r
      BY <2>2, <3>2, StepEffect, ClosedKept DEF Succeeded
    <3> QED  BY <3>1, <3>2
  <2>5. Succeeded(req[k].token, Minting)'
    <3> DEFINE x == req[k].token
    <3>1. x # r /\ x \in Request
      BY <2>2, StepEffect DEF Succeeded
    <3>2. req'[x] = req[x]
      BY <3>1, StepEffect
    <3> QED  BY <2>1, <2>2, <3>2 DEF Succeeded
  <2> QED  BY <2>1, <2>2, <2>4, <2>5
<1> QED  BY <1>1, <1>2

(* Names belong to the one registration that inserted the row.             *)
LEMMA StepNames ==
    ASSUME TypeInv, AccountInv, NEW r \in Request, Step(r)
    PROVE  Named' /\ OneEach' /\ NamesApart'
<1> DEFINE ops == {"Register"}
<1>1. /\ ops \cap {"RequestPasswordReset", "ResendVerificationEmail"} = {}
      /\ ops \cap Consuming = {}
      /\ \A op \in ops \cap OpNames : Len(Calls[op]) = 5
  BY Methods, Lengths DEF Consuming
<1>2. users \in [Emails -> UserRow \cup {None}] /\ users' \in [Emails -> UserRow \cup {None}]
  BY StepType DEF TypeInv, TypeOK
<1>3. ASSUME NEW k \in Request, Enrolled(k)'
      PROVE  /\ req'[k].user = req[k].user /\ req'[k].username = req[k].username
             /\ req[k].user \in Emails
             /\ \/ Enrolled(k) /\ users[req[k].user] # None
                \/ k = r /\ CreateUser(r) /\ ~Taken(req[r])
  <2>1. /\ req'[k].username = req[k].username /\ req[k].op = "Register"
        /\ Enrolled(k) \/ (k = r /\ req[r].step = 2 /\ req'[r].status = "running")
    BY <1>1, <1>3, Enters DEF Enrolled
  <2>2. req'[k].user = req[k].user
    BY <1>1, <2>1, UserSettled
  <2>3. CASE Enrolled(k)
    <3>1. OnRecord(req[k].user, users)
      <4>1. CASE req[k].status = "running"
        BY <2>1, <2>3, <4>1 DEF TypeInv, Shape, Served, NeedsAccount, Inputs, Enrolled,
                                Past, Succeeded
      <4>2. CASE req[k].status # "running"
        BY <2>1, <2>3, <4>2 DEF TypeInv, Shape, Satisfied, Minting, Enrolled, Past, Succeeded
      <4> QED  BY <4>1, <4>2
    <3> QED  BY <2>1, <2>2, <2>3, <3>1 DEF OnRecord
  <2>4. CASE k = r /\ req[r].step = 2 /\ req'[r].status = "running"
    <3>1. Call(req[r]) = "CreateUser" /\ <<req[r].op, Call(req[r])>> \notin Tolerated
      BY <2>1, <2>4, Methods, Placed DEF Call, Tolerated
    <3>2. CreateUser(r)
      BY <2>4, <3>1, StoreErrorEnds, Performs
    <3>3. ~Taken(req[r])
      <4>1. \A q \in RequestState : Answer(q, "internal").status = "done"
        BY DEF Answer, RequestState
      <4>2. req[r] \in RequestState /\ req \in [Request -> RequestState]
        BY DEF TypeInv, TypeOK
      <4> QED  BY <2>4, <3>2, <4>1, <4>2 DEF CreateUser, Becomes
    <3>4. req[k].user \in Emails
      BY <2>1, <2>4, StepEffect DEF Inputs, ByToken
    <3> QED  BY <2>1, <2>2, <2>4, <3>2, <3>3, <3>4
  <2> QED  BY <2>1, <2>3, <2>4
<1>4. ASSUME CreateUser(r), ~Taken(req[r]), req[r].user \in Emails
      PROVE  /\ users[req[r].user] = None
             /\ users'[req[r].user] # None
             /\ \A e \in Emails : users[e] # None =>
                   users[e].username # req[r].username
  <2>1. /\ users[req[r].user] = None
        /\ \A e \in Emails : users[e] # None => users[e].username # req[r].username
    BY <1>4 DEF Taken
  <2> DEFINE row == [username |-> req[r].username, password |-> req[r].password,
                     active |-> TRUE, verified |-> FALSE, version |-> 1]
  <2>2. users' = [users EXCEPT ![req[r].user] = row]
    BY <1>4 DEF CreateUser
  <2>3. row \in UserRow
    <3>1. req[r].op = "Register"
      BY <1>4, StepEffect, CallPlaces DEF CreateUser, At, Call, Inputs
    <3> QED  BY <3>1, StepEffect DEF Inputs, Presenting, UserRow
  <2> HIDE DEF row
  <2> QED  BY <1>2, <1>4, <2>1, <2>2, <2>3, RowAssumption
<1>5. Named'
  <2> SUFFICES ASSUME NEW k \in Request, Enrolled(k)'
               PROVE  users'[req'[k].user].username = req'[k].username
    BY DEF Named
  <2>1. CASE Enrolled(k) /\ users[req[k].user] # None
    BY <1>3, <2>1, StepAccounts DEF AccountInv, Named
  <2>2. CASE k = r /\ CreateUser(r) /\ ~Taken(req[r])
    BY <1>3, <1>4, <2>2, StepAccounts
  <2> QED  BY <1>3, <2>1, <2>2
<1>6. OneEach'
  BY <1>3, <1>4 DEF AccountInv, OneEach
<1>7. NamesApart'
  <2> SUFFICES ASSUME NEW d \in Emails, NEW e \in Emails, d # e,
                      users'[d] # None, users'[e] # None,
                      users'[d].username = users'[e].username
               PROVE  FALSE
    BY DEF NamesApart
  <2>1. CASE users[d] # None /\ users[e] # None
    BY <2>1, StepAccounts DEF AccountInv, NamesApart
  <2>2. ASSUME NEW x \in Emails, users[x] = None, users'[x] # None
        PROVE  /\ CreateUser(r) /\ x = req[r].user /\ users'[x].username = req[r].username
               /\ ~Taken(req[r])
    BY <2>2, StepAccounts
  <2> QED  BY <1>4, <2>1, <2>2, StepAccounts
<1> QED  BY <1>5, <1>6, <1>7

(* A registered account is verified, or its token is still on record, and  *)
(* its event was queued.                                                   *)
LEMMA StepVerify ==
    ASSUME TypeInv, AccountInv, NEW r \in Request, Step(r)
    PROVE  Verifying' /\ CanVerify' /\ Queued'
<1>1. /\ Len(Calls["VerifyEmail"]) = 4 /\ Len(Calls["Register"]) = 5
      /\ Calls["VerifyEmail"] = VerifyEmail /\ Calls["Register"] = RegisterUser
  BY Methods, Lengths
<1>2. Verifying'
  <2> SUFFICES ASSUME NEW k \in Request, Past(k, {"VerifyEmail"}, 2)'
               PROVE  Verified(req[k].user)' /\ req'[k].user = req[k].user
    BY DEF Verifying, Verified
  <2>1. /\ req[k].op = "VerifyEmail"
        /\ \/ Past(k, {"VerifyEmail"}, 2)
           \/ k = r /\ req[r].step = 2 /\ req'[r].status = "running"
    <3>1. /\ {"VerifyEmail"} \cap {"RequestPasswordReset", "ResendVerificationEmail"} = {}
          /\ \A op \in {"VerifyEmail"} \cap OpNames : Len(Calls[op]) > 2
      <4>1. {"VerifyEmail"} \cap {"RequestPasswordReset", "ResendVerificationEmail"} = {}
        OBVIOUS
      <4>2. ASSUME NEW op \in {"VerifyEmail"} PROVE Len(Calls[op]) > 2
        <5>1. Len(Calls[op]) = 4
          BY <1>1, <4>2
        <5> QED  BY <5>1
      <4> QED  BY <4>1, <4>2
    <3> QED  BY <3>1, Enters
  <2>2. Past(k, Consuming, 1)
    BY <2>1, StepEffect DEF Past, Consuming, Succeeded, TypeInv, TypeOK, RequestState
  <2>3. req'[k].user = req[k].user
    BY <2>2, UserSettled
  <2>4. CASE Past(k, {"VerifyEmail"}, 2)
    <3>1. req[k].user \in Emails
      <4>1. [to |-> req[k].user, kind |-> TokenKind(req[k]), token |-> req[k].token]
              \in Mail
        BY <2>2 DEF AccountInv, Proved, TypeInv, TypeOK
      <4> QED  BY <4>1 DEF Mail
    <3>2. Verified(req[k].user)
      BY <2>4 DEF AccountInv, Verifying
    <3> DEFINE e == req[k].user
    <3>3. Verified(e)' /\ e \in Emails => users'[e] # None /\ users'[e].verified
      BY <2>3 DEF Verified
    <3>4. users'[e] # None /\ users'[e].verified
      BY <3>1, <3>2, StepAccounts DEF Verified
    <3> QED  BY <2>3, <3>4 DEF Verified
  <2>5. CASE k = r /\ req[r].step = 2 /\ req'[r].status = "running"
    <3>1. Call(req[r]) = "VerifyEmail" /\ <<req[r].op, Call(req[r])>> \notin Tolerated
      BY <1>1, <2>1, <2>5, Placed DEF Call, Tolerated
    <3>2. MarkVerified(r)
      BY <2>5, <3>1, StoreErrorEnds, Performs
    <3>3. OnRecord(req[r].user, users)
      BY <2>1, <2>5, StepEffect DEF NeedsAccount
    <3> DEFINE e == req[r].user
               row == [users[e] EXCEPT !.verified = TRUE]
    <3>4. users' = [users EXCEPT ![e] = row]
      BY <3>2 DEF MarkVerified
    <3>5. e \in Emails /\ users \in [Emails -> UserRow \cup {None}]
          /\ users[e] \in UserRow
      BY <3>3 DEF OnRecord, TypeInv, TypeOK
    <3>6. row \in UserRow /\ row.verified
      BY <3>5 DEF UserRow
    <3> HIDE DEF row
    <3>7. users'[e] # None /\ users'[e].verified
      BY <3>4, <3>5, <3>6, RowAssumption
    <3> QED  BY <2>3, <2>5, <3>7 DEF Verified
  <2> QED  BY <2>1, <2>3, <2>4, <2>5
<1>3. CanVerify'
  <2> SUFFICES ASSUME NEW k \in Request, Past(k, {"Register"}, 4)'
               PROVE  \/ users'[req'[k].user] # None /\ users'[req'[k].user].verified
                      \/ \E t \in tokens' : /\ t.token = k /\ t.user = req'[k].user
                                            /\ t.type = "email_verification"
    BY DEF CanVerify, Verified
  <2>1. /\ req[k].op = "Register"
        /\ \/ Past(k, {"Register"}, 4)
           \/ k = r /\ req[r].step = 4 /\ req'[r].status = "running"
    <3>1. /\ {"Register"} \cap {"RequestPasswordReset", "ResendVerificationEmail"} = {}
          /\ \A op \in {"Register"} \cap OpNames : Len(Calls[op]) > 4
      <4>1. {"Register"} \cap {"RequestPasswordReset", "ResendVerificationEmail"} = {}
        OBVIOUS
      <4>2. ASSUME NEW op \in {"Register"} PROVE Len(Calls[op]) > 4
        <5>1. Len(Calls[op]) = 5
          BY <1>1, <4>2
        <5> QED  BY <5>1
      <4> QED  BY <4>1, <4>2
    <3> QED  BY <3>1, Enters
  <2>2. req'[k].user = req[k].user /\ TokenKind(req[k]) = "email_verification"
    BY <2>1, UserSettled DEF Consuming, TokenKind
  <2>3. CASE k = r /\ req[r].step = 4 /\ req'[r].status = "running"
    <3>1. Call(req[r]) = "CreateUserToken"
          /\ <<req[r].op, Call(req[r])>> \notin Tolerated
      BY <1>1, <2>1, <2>3, Placed DEF Call, Tolerated
    <3>2. CreateUserToken(r)
      BY <2>3, <3>1, StoreErrorEnds, Performs
    <3> QED  BY <2>2, <2>3, <3>2, TokenMinted
  <2>4. ASSUME Verified(req[k].user), req[k].user \in Emails
        PROVE  users'[req[k].user] # None /\ users'[req[k].user].verified
    BY <2>4, <2>2, StepAccounts DEF Verified
  <2>5. CASE Past(k, {"Register"}, 4)
    <3>1. CASE Verified(req[k].user)
      <4>1. req[k].user \in Emails
        <5>1. CASE req[k].status = "running"
          BY <2>1, <5>1 DEF TypeInv, Shape, Served, Inputs, ByToken
        <5>2. CASE req[k].status # "running"
          BY <2>1, <2>5, <5>2 DEF Past, Succeeded, TypeInv, Shape, Satisfied, Minting, OnRecord
        <5> QED  BY <5>1, <5>2
      <4> QED  BY <2>2, <2>4, <3>1, <4>1
    <3>2. CASE ~Verified(req[k].user)
      <4>1. PICK t \in tokens : /\ t.token = k /\ t.user = req[k].user
                                /\ t.type = "email_verification"
        BY <2>5, <3>2 DEF AccountInv, CanVerify
      <4>2. CASE t \in tokens'
        BY <2>2, <4>1, <4>2
      <4>3. CASE t \notin tokens'
        <5>1. DeleteUserToken(r)
          BY <4>3, StepRows
        <5>2. req[r].token = k
          BY <4>1, <4>3, <5>1 DEF DeleteUserToken
        <5>3. req[r].op \in Consuming /\ req[r].step = 3 /\ req[r].status = "running"
          BY <5>1, StepEffect, CallPlaces DEF DeleteUserToken, At, Call, Inputs, Consuming
        <5>4. [to |-> req[r].user, kind |-> TokenKind(req[r]), token |-> req[r].token]
                \in inbox
          BY <5>3 DEF AccountInv, Proved, Past
        <5>5. TokenKind(req[r]) = TokenKind(req[k]) /\ req[r].user = req[k].user
          <6> DEFINE m == [to |-> req[r].user, kind |-> TokenKind(req[r]),
                           token |-> req[r].token]
          <6>1. m \in inbox /\ m.kind # "welcome"
            BY <5>4 DEF TokenKind
          <6>2. m.to = req[m.token].user /\ m.kind = TokenKind(req[m.token])
            BY <6>1 DEF AccountInv, Posted
          <6> QED  BY <5>2, <6>2
        <5>6. req[r].op = "VerifyEmail"
          BY <2>2, <5>3, <5>5 DEF TokenKind, Consuming
        <5>7. Verified(req[r].user)
          BY <5>3, <5>6 DEF AccountInv, Verifying, Past
        <5> QED  BY <3>2, <5>5, <5>7
      <4> QED  BY <4>2, <4>3
    <3> QED  BY <3>1, <3>2
  <2> QED  BY <2>1, <2>3, <2>5
<1>4. Queued'
  <2> SUFFICES ASSUME NEW k \in Request, Succeeded(k, {"Register"})',
                      "Emit" \notin req'[k].undone
               PROVE  req'[k].user \in outbox'
    BY DEF Queued, Did
  <2>1. CASE k # r
    BY <2>1, StepEffect, StepRows DEF AccountInv, Queued, Succeeded, Did
  <2>2. CASE k = r
    <3>1. req[r].op = "Register" /\ req[r].step = 5
      <4>1. req'[r].status = "done" /\ req'[r].result = "ok"
            /\ req'[r].op = "Register"
        BY <2>2 DEF Succeeded
      <4>2. req[r].op = "Register" /\ ~MailLookup(r)
        BY <4>1, StepEffect DEF MailLookup, Reads
      <4>3. req[r].step = Len(Calls[req[r].op])
        BY <4>1, <4>2, StepEffect
      <4> QED  BY <1>1, <4>2, <4>3
    <3>2. Call(req[r]) = "Emit"
      BY <1>1, <3>1, Placed DEF Call
    <3>3. Emit(r)
      BY <2>2, <3>2, StoreErrorRecords, Performs DEF Droppable
    <3>4. req'[r].user = req[r].user
      BY <3>1, UserSettled DEF Consuming
    <3> QED  BY <2>2, <3>3, <3>4 DEF Emit
  <2> QED  BY <2>1, <2>2
<1> QED  BY <1>2, <1>3, <1>4

(* A token that was mailed is not put on record again.                     *)
LEMMA FiledKept ==
    ASSUME TypeInv, AccountInv, NEW r \in Request, Step(r), NEW x \in Mailed, ~Filing(x)
    PROVE  \A t \in tokens' : t.token # x
<1> SUFFICES ASSUME NEW t \in tokens', t.token = x PROVE FALSE
  OBVIOUS
<1>1. t \notin tokens
  BY DEF Filing
<1>2. CreateUserToken(r) /\ x = r
  BY <1>1, StepRows, TokenMinted
<1> QED  BY <1>2, MailedSent, StepSent

(* An error ends the request without success.                              *)
LEMMA Refusal ==
    ASSUME TypeInv, NEW r \in Request, NEW x \in Results \ {"ok"},
           Becomes(r, Answer(req[r], x))
    PROVE  req'[r].status = "done" /\ req'[r].result # "ok"
<1>1. req \in [Request -> RequestState]
  BY DEF TypeInv, TypeOK
<1>2. req'[r] = Answer(req[r], x)
  BY <1>1 DEF Becomes
<1> QED  BY <1>1, <1>2 DEF Answer, RequestState

(* What a request is void for does not come back while it is served, and   *)
(* the read that looks at it refuses.                                      *)
LEMMA StepVoided ==
    ASSUME TypeInv, SessionInv, AccountInv, NEW r \in Request, Step(r)
    PROVE  Voided'
<1> SUFFICES ASSUME NEW k \in Request, req'[k].void
             PROVE  /\ ~(/\ req'[k].status = "done" /\ req'[k].result = "ok"
                        /\ req'[k].op \in OpNames)
                    /\ req'[k].status = "running" => Hopeless(req[k])'
  BY DEF Voided, Succeeded, Hopeless
<1>1. req[k].void /\ req'[k].op = req[k].op /\ req'[k].token = req[k].token
  BY StepEffect
<1>2. /\ ~Succeeded(k, OpNames)
      /\ req[k].status = "running" => Hopeless(req[k])
  BY <1>1 DEF AccountInv, Voided
<1>3. ASSUME NEW e \in Emails, Deactivated(e)
      PROVE  users'[e] # None /\ ~users'[e].active
  BY <1>3, StepAccounts DEF Deactivated
<1>4. CASE k # r
  <2>1. req'[k] = req[k]
    BY <1>4, StepEffect
  <2>2. ASSUME req[k].status = "running"
        PROVE  Hopeless(req[k])'
    <3> DEFINE q == req[k]
               e == q.user
               x == q.token
    <3>1. Inputs(q)
      BY <2>2 DEF TypeInv, Shape, Served
    <3>2. CASE /\ \/ q.op = "Login" /\ q.step = 1
                  \/ q.op = "RefreshTokens" /\ q.step \in {1, 2}
               /\ Deactivated(e)
      <4>1. e \in Emails
        BY <3>1, <3>2 DEF Inputs, ByToken
      <4>2. users'[e] # None /\ ~users'[e].active
        BY <1>3, <3>2, <4>1
      <4> QED  BY <2>1, <3>2, <4>2 DEF Hopeless, Deactivated
    <3>3. CASE q.op = "RefreshTokens" /\ q.step = 1 /\ ~IsLive(x)
      <4>1. x \in Request /\ Succeeded(x, Minting)
        BY <3>3 DEF SessionInv, Presented
      <4>2. \A s \in sessions' : s.token # x
        BY <3>3, <4>1, ClosedKept
      <4> QED  BY <2>1, <3>3, <4>2 DEF Hopeless, IsLive
    <3>4. CASE q.op \in Consuming /\ q.step = 1 /\ ~Filing(x)
      <4>1. x \in Mailed
        BY <2>2, <3>4 DEF AccountInv, Shown, Past
      <4>2. \A t \in tokens' : t.token # x
        BY <3>4, <4>1, FiledKept
      <4> QED  BY <2>1, <3>4, <4>2 DEF Hopeless, Filing
    <3> QED  BY <1>2, <2>2, <3>2, <3>3, <3>4 DEF Hopeless
  <2> QED  BY <1>2, <2>1, <2>2 DEF Succeeded
<1>5. CASE k = r
  <2> DEFINE q == req[r]
             Refuses == req'[r].status = "done" /\ req'[r].result # "ok"
  <2>1. /\ q.status = "running" /\ Inputs(q) /\ Hopeless(q)
        /\ NeedsAccount(q) => OnRecord(q.user, users)
    BY <1>2, <1>5, StepEffect
  <2>2. ASSUME NEW x \in Results \ {"ok"}, Answers(r, x) PROVE Refuses
    BY <2>2, Refusal DEF Answers
  <2>3. ASSUME <<q.op, Call(q)>> \notin Tolerated PROVE Refuses \/ ~StoreError(r)
    BY <2>3, StoreErrorEnds
  <2> HIDE DEF Refuses
  <2>4. CASE q.op = "Login" /\ q.step = 1 /\ Deactivated(q.user)
    <3>1. Call(q) = "GetUserByEmail" /\ <<q.op, Call(q)>> \notin Tolerated
      BY <2>4, Methods, Placed DEF Call, Tolerated
    <3>2. LoginLookup(r) => Refuses
      BY <2>2, <2>4 DEF LoginLookup, Deactivated, Results
    <3>3. Refuses
      BY <2>3, <2>4, <3>1, <3>2, Performs
    <3> QED  BY <1>5, <3>3 DEF Refuses
  <2>5. CASE q.op = "RefreshTokens" /\ q.step = 1
    <3>1. Call(q) = "GetUserSessionByToken" /\ <<q.op, Call(q)>> \notin Tolerated
      BY <2>5, Methods, Placed DEF Call, Tolerated
    <3>2. Refuses \/ RefreshFindSession(r)
      BY <2>3, <3>1, Performs
    <3>3. CASE ~IsLive(q.token)
      <4>1. RefreshFindSession(r) => Refuses
        BY <2>2, <3>3 DEF RefreshFindSession, IsLive, Results
      <4> QED  BY <1>5, <3>2, <4>1 DEF Refuses
    <3>4. CASE Deactivated(q.user)
      <4>1. q.user \in Emails
        BY <2>1, <2>5 DEF Inputs, ByToken
      <4> DEFINE e == q.user
      <4>2. users'[e] # None /\ ~users'[e].active
        BY <1>3, <3>4, <4>1
      <4>3. req'[r].user = q.user
        BY <2>5, UserSettled DEF Consuming
      <4>4. ~Refuses => req'[r].status = "running" /\ req'[r].step = 2
        <5>1. ~(req'[r].status = "done" /\ req'[r].result = "ok")
          <6>1. Len(Calls[q.op]) = 4 /\ ~MailLookup(r)
            BY <2>5, Methods, Lengths DEF MailLookup, Reads
          <6>2. req'[r].status = "done" /\ req'[r].result = "ok"
                => req[r].step = Len(Calls[q.op])
            BY <6>1, StepEffect
          <6> QED  BY <2>5, <6>1, <6>2
        <5> QED  BY <2>5, <5>1, StepEffect DEF Refuses
      <4>5. ~Refuses => Hopeless(req[r])'
        BY <1>1, <1>5, <2>5, <4>2, <4>3, <4>4 DEF Hopeless, Deactivated
      <4> QED  BY <1>5, <4>4, <4>5 DEF Refuses
    <3> QED  BY <2>1, <2>5, <3>3, <3>4 DEF Hopeless, Consuming
  <2>6. CASE q.op = "RefreshTokens" /\ q.step = 2 /\ Deactivated(q.user)
    <3>1. Call(q) = "GetUserByID" /\ <<q.op, Call(q)>> \notin Tolerated
      BY <2>6, Methods, Placed DEF Call, Tolerated
    <3>2. RefreshGetUser(r) => Refuses
      BY <2>2, <2>6 DEF RefreshGetUser, Deactivated, Results
    <3>3. Refuses
      BY <2>3, <2>6, <3>1, <3>2, Performs
    <3> QED  BY <1>5, <3>3 DEF Refuses
  <2>7. CASE q.op \in Consuming /\ q.step = 1 /\ ~Filing(q.token)
    <3>1. Call(q) = "GetUserTokenByHash" /\ <<q.op, Call(q)>> \notin Tolerated
      BY <2>7, Methods, Placed DEF Call, Tolerated, Consuming
    <3>2. FindUserToken(r) => Refuses
      <4>1. \A t \in tokens : ~Honoured(t, q)
        BY <2>7 DEF Honoured, Filing
      <4> QED  BY <2>2, <4>1 DEF FindUserToken, Results
    <3>3. Refuses
      BY <2>3, <3>1, <3>2, Performs
    <3> QED  BY <1>5, <3>3 DEF Refuses
  <2> QED  BY <2>1, <2>4, <2>5, <2>6, <2>7 DEF Hopeless
<1> QED  BY <1>4, <1>5

(* A call keeps all of it.                                                 *)
LEMMA AccountStep ==
    ASSUME TypeInv, SessionInv, AccountInv, NEW r \in Request, Step(r)
    PROVE  AccountInv'
BY StepMail, StepProof, StepSessions, StepNames, StepVerify, StepVoided DEF AccountInv

-----------------------------------------------------------------------------
(* Everything else that happens keeps the invariant.                       *)

(* What an arriving request presents, and what makes it void.              *)
LEMMA ArrivalPresents ==
    ASSUME TypeInv, NEW r \in Request, Arrival(r)
    PROVE  LET q == req'[r] IN
           /\ q.op = "Logout" => q.token \in Issued
           /\ q.status = "running" /\ q.op \in Consuming => q.token \in Mailed
           /\ q.void =>
                \/ q.op = "Login" /\ Deactivated(q.user)
                \/ q.op = "RefreshTokens" /\ Deactivated(q.user)
                \/ q.op = "RefreshTokens" /\ Spent(q.token, {"RefreshTokens", "Logout"})
                \/ q.op \in Consuming /\ Spent(q.token, Consuming)
<1> DEFINE Fine(q) ==
             /\ q.op = "Logout" => q.token \in Issued
             /\ q.status = "running" /\ q.op \in Consuming => q.token \in Mailed
             /\ q.void =>
                  \/ q.op = "Login" /\ Deactivated(q.user)
                  \/ q.op = "RefreshTokens" /\ Deactivated(q.user)
                  \/ q.op = "RefreshTokens" /\ Spent(q.token, {"RefreshTokens", "Logout"})
                  \/ q.op \in Consuming /\ Spent(q.token, Consuming)
           Goal == Fine(req'[r])
<1>1. req \in [Request -> RequestState]
  BY DEF TypeInv, TypeOK
<1>2. ASSUME NEW op \in OpNames, NEW q, Arrive(r, op, q), Fine([q EXCEPT !.op = op])
      PROVE  Goal
  BY <1>1, <1>2 DEF Arrive, Becomes
<1>3. ASSUME NEW t, NEW op \in Consuming, Spent(t, {op}) PROVE Spent(t, Consuming)
  BY <1>3 DEF Spent, Succeeded
<1> SUFFICES Goal
  OBVIOUS
<1> HIDE DEF Goal
<1>4. CASE BeginRegister(r) \/ BeginChangePassword(r)
  BY <1>2, <1>4, Methods DEF BeginRegister, BeginChangePassword, Started, Refused, Answer,
                             Idle, Consuming
<1>5. CASE BeginLogin(r) \/ BeginLogout(r)
  BY <1>2, <1>5, Methods DEF BeginLogin, BeginLogout, Started, Idle, Consuming
<1>6. CASE BeginRefreshTokens(r)
  BY <1>2, <1>6, Methods DEF BeginRefreshTokens, Started, Refused, Answer, Idle, Consuming
<1>7. CASE BeginRequestPasswordReset(r) \/ BeginResendVerificationEmail(r)
  BY <1>2, <1>7, Methods
     DEF BeginRequestPasswordReset, BeginResendVerificationEmail, Started, Idle, Consuming
<1>8. CASE BeginResetPassword(r)
  BY <1>2, <1>3, <1>8, Methods
     DEF BeginResetPassword, Started, Refused, Answer, Idle, Consuming
<1>9. CASE BeginVerifyEmail(r)
  BY <1>2, <1>3, <1>9, Methods DEF BeginVerifyEmail, Started, Idle, Consuming
<1> QED  BY <1>4, <1>5, <1>6, <1>7, <1>8, <1>9 DEF Arrival

(* What was used up is gone.                                               *)
LEMMA SpentGone ==
    ASSUME AccountInv, NEW t
    PROVE  /\ Spent(t, {"RefreshTokens", "Logout"}) => ~IsLive(t)
           /\ Spent(t, Consuming) => ~Filing(t)
<1>1. ASSUME NEW p \in Request, Succeeded(p, {"RefreshTokens", "Logout"}),
             req[p].token = t, Did(p, {"DeleteUserSession", "DeleteUserToken"})
      PROVE  ~IsLive(t)
  BY <1>1 DEF AccountInv, Rotated, LoggedOut, Past, Succeeded, Did
<1>2. ASSUME NEW p \in Request, Succeeded(p, Consuming),
             req[p].token = t, Did(p, {"DeleteUserSession", "DeleteUserToken"})
      PROVE  ~Filing(t)
  BY <1>2 DEF AccountInv, Consumed, Past, Succeeded, Did
<1> QED  BY <1>1, <1>2 DEF Spent

(* A request arrives with nothing done, and knows no more than it was sent.*)
LEMMA AccountArrival ==
    ASSUME TypeInv, SessionInv, AccountInv, NEW r \in Request, Arrival(r)
    PROVE  AccountInv'
<1> DEFINE p == req'[r]
<1>1. /\ req[r].status = "idle" /\ req[r].op = None
      /\ \A k \in Request \ {r} : req'[k] = req[k]
      /\ UNCHANGED <<users, sessions, tokens, outbox, outgoing, inbox>>
      /\ p.status \in {"running", "done"}
      /\ p.status = "running" => p.step = 1
      /\ p.status = "done" => p.result # "ok"
  <2>1. Idle.op = None
    BY DEF Idle
  <2> QED  BY <2>1, ArrivalEffect DEF SessionInv, Unstarted
<1>2. None \notin Mailing /\ None \notin Minting
  BY NoneAssumption, Methods DEF Mailing, Minting
<1>3. ASSUME NEW k \in Request, NEW ops, NEW i \in {1, 2, 3, 4}, Past(k, ops, i)'
      PROVE  k # r /\ Past(k, ops, i)
  BY <1>1, <1>3 DEF Past, Succeeded
<1>4. ASSUME NEW k, Sent(k) PROVE k \in Request \ {r} /\ Sent(k)'
  BY <1>1, <1>2, <1>4 DEF Sent
<1>5. Posted' /\ Filed'
  BY <1>1, <1>4 DEF AccountInv, Posted, Filed
<1>6. Shown'
  <2>1. p.status = "running" /\ p.op \in Consuming => p.token \in Mailed
    BY ArrivalPresents
  <2>2. Mailed' = Mailed
    BY <1>1 DEF Mailed
  <2> QED  BY <1>1, <2>1, <2>2 DEF AccountInv, Shown, Past, Succeeded
<1>7. Proved' /\ Consumed' /\ Rotated'
  BY <1>1, <1>3 DEF AccountInv, Proved, Consumed, Rotated, Filing, IsLive, Did
<1>8. LoggedOut'
  <2>1. ASSUME NEW t \in Request, Succeeded(t, Minting)
        PROVE  Succeeded(t, Minting)'
    BY <1>1, <2>1 DEF Succeeded
  <2>2. p.op = "Logout" => p.token \in Request /\ Succeeded(p.token, Minting)
    BY ArrivalPresents DEF Issued
  <2>3. ASSUME NEW k \in Request, req'[k].op = "Logout"
        PROVE  /\ req'[k].token \in Request /\ Succeeded(req[k].token, Minting)'
               /\ Succeeded(k, {"Logout"})' => k # r
    BY <1>1, <2>1, <2>2, <2>3 DEF AccountInv, LoggedOut, Succeeded
  <2> QED  BY <1>1, <2>3 DEF AccountInv, LoggedOut, Succeeded, IsLive
<1>9. Named' /\ OneEach' /\ NamesApart'
  BY <1>1, <1>3 DEF AccountInv, Named, OneEach, NamesApart, Enrolled
<1>10. Verifying' /\ CanVerify'
  BY <1>1, <1>3 DEF AccountInv, Verifying, CanVerify, Verified
<1>11. Queued'
  BY <1>1 DEF AccountInv, Queued, Succeeded, Did
<1>12. Voided'
  <2> SUFFICES ASSUME NEW k \in Request, req'[k].void
               PROVE  /\ ~Succeeded(k, OpNames)'
                      /\ req'[k].status = "running" => Hopeless(req[k])'
    BY DEF Voided
  <2>1. CASE k # r
    BY <1>1, <2>1 DEF AccountInv, Voided, Succeeded, Hopeless, Deactivated, IsLive, Filing
  <2>2. CASE k = r
    <3>1. \/ p.op = "Login" /\ Deactivated(p.user)
          \/ p.op = "RefreshTokens" /\ Deactivated(p.user)
          \/ p.op = "RefreshTokens" /\ ~IsLive(p.token)
          \/ p.op \in Consuming /\ ~Filing(p.token)
      BY <2>2, ArrivalPresents, SpentGone
    <3> QED  BY <1>1, <2>2, <3>1 DEF Succeeded, Hopeless, Deactivated, IsLive, Filing
  <2> QED  BY <2>1, <2>2
<1> QED  BY <1>5, <1>6, <1>7, <1>8, <1>9, <1>10, <1>11, <1>12 DEF AccountInv

(* A crash stops requests and loses mail; what was done stays done.        *)
LEMMA AccountCrash ==
    ASSUME TypeInv, AccountInv, Crash
    PROVE  AccountInv'
<1>1. /\ UNCHANGED <<users, sessions, tokens, outbox, inbox>> /\ outgoing' = {}
      /\ req \in [Request -> RequestState]
  BY DEF Crash, store, TypeInv, TypeOK
<1>2. ASSUME NEW k \in Request
      PROVE  /\ req'[k].op = req[k].op /\ req'[k].user = req[k].user
             /\ req'[k].token = req[k].token /\ req'[k].username = req[k].username
             /\ req'[k].step = req[k].step /\ req'[k].void = req[k].void
             /\ req'[k].result = req[k].result /\ req'[k].undone = req[k].undone
             /\ req'[k].status # "running"
             /\ req'[k].status = "done" => req[k].status = "done"
             /\ req[k].status = "done" => req'[k].status = "done"
  BY <1>1 DEF Crash, Running, RequestState
<1>3. ASSUME NEW k \in Request, NEW ops
      PROVE  Succeeded(k, ops)' <=> Succeeded(k, ops)
  BY <1>2 DEF Succeeded
<1>4. ASSUME NEW k \in Request, NEW ops, NEW i \in {0, 1, 2, 3, 4}, Past(k, ops, i)'
      PROVE  Past(k, ops, i)
  BY <1>2, <1>4 DEF Past, Succeeded
<1>5. ASSUME NEW k, Sent(k) PROVE k \in Request /\ Sent(k)'
  BY <1>2, <1>5 DEF Sent
<1>6. Posted' /\ Filed'
  BY <1>1, <1>2, <1>5 DEF AccountInv, Posted, Filed, TokenKind
<1>7. Shown' /\ Proved' /\ Consumed' /\ Rotated'
  BY <1>1, <1>2, <1>4
     DEF AccountInv, Shown, Proved, Consumed, Rotated, Mailed, Filing, IsLive, Did, TokenKind
<1>8. LoggedOut'
  BY <1>1, <1>2, <1>3 DEF AccountInv, LoggedOut, IsLive
<1>9. Named' /\ OneEach' /\ NamesApart'
  BY <1>1, <1>2, <1>4 DEF AccountInv, Named, OneEach, NamesApart, Enrolled
<1>10. Verifying' /\ CanVerify' /\ Queued'
  BY <1>1, <1>2, <1>3, <1>4 DEF AccountInv, Verifying, CanVerify, Queued, Verified, Did
<1>11. Voided'
  BY <1>2, <1>3 DEF AccountInv, Voided
<1> QED  BY <1>6, <1>7, <1>8, <1>9, <1>10, <1>11 DEF AccountInv

(* A request that is past its INSERT, or its lookup, has an account.       *)
LEMMA AccountKnown ==
    ASSUME TypeInv, AccountInv, NEW k \in Request
    PROVE  /\ Enrolled(k) \/ Past(k, {"VerifyEmail"}, 2) => req[k].user \in Emails
           /\ Past(k, {"Register"}, 4) => Enrolled(k)
           /\ req[k].status = "running" /\ req[k].op \in {"Login", "RefreshTokens"}
              => req[k].user \in Emails
<1>1. req[k].step \in Nat
  BY DEF TypeInv, TypeOK, RequestState
<1>2. /\ req[k].status = "running" /\ req[k].op \notin ByToken => req[k].user \in Emails
      /\ Succeeded(k, Minting) => req[k].user \in Emails
  BY DEF TypeInv, Shape, Served, Satisfied, Inputs, OnRecord, Succeeded
<1>3. Enrolled(k) => req[k].user \in Emails
  BY <1>2 DEF Enrolled, Past, Succeeded, ByToken, Minting
<1>4. Past(k, {"VerifyEmail"}, 2) => req[k].user \in Emails
  <2> SUFFICES ASSUME Past(k, {"VerifyEmail"}, 2) PROVE req[k].user \in Emails
    OBVIOUS
  <2>1. Past(k, Consuming, 1)
    BY <1>1 DEF Past, Consuming, Succeeded
  <2>2. [to |-> req[k].user, kind |-> TokenKind(req[k]), token |-> req[k].token] \in Mail
    BY <2>1 DEF AccountInv, Proved, TypeInv, TypeOK
  <2> QED  BY <2>2 DEF Mail
<1>5. Past(k, {"Register"}, 4) => Enrolled(k)
  BY <1>1 DEF Past, Enrolled, Succeeded
<1> QED  BY <1>2, <1>3, <1>4, <1>5 DEF ByToken

(* An account that is deactivated keeps its name and its verification.     *)
LEMMA AccountDeactivate ==
    ASSUME TypeInv, AccountInv, NEW e \in Emails, Deactivate(e)
    PROVE  AccountInv'
<1>1. /\ UNCHANGED <<sessions, tokens, outbox, outgoing, inbox, req>>
      /\ users \in [Emails -> UserRow \cup {None}] /\ users[e] \in UserRow
  BY DEF Deactivate, mail, TypeInv, TypeOK
<1> DEFINE row == [users[e] EXCEPT !.active = FALSE]
<1>2. /\ row \in UserRow /\ row.username = users[e].username
      /\ row.verified = users[e].verified /\ ~row.active
  BY <1>1 DEF UserRow
<1>3. users' = [users EXCEPT ![e] = row]
  BY DEF Deactivate
<1> HIDE DEF row
<1>4. \A d \in Emails : users'[d] = IF d = e THEN row ELSE users[d]
  BY <1>1, <1>3
<1>5. \A d \in Emails : /\ users'[d] # None <=> users[d] # None
                        /\ users'[d].username = users[d].username
                        /\ users'[d].verified <=> users[d].verified
                        /\ ~users[d].active => ~users'[d].active
  BY <1>1, <1>2, <1>4, RowAssumption
<1>6. ASSUME NEW k \in Request
      PROVE  /\ Enrolled(k) \/ Past(k, {"VerifyEmail"}, 2) => req[k].user \in Emails
             /\ Past(k, {"Register"}, 4) => Enrolled(k)
             /\ req[k].status = "running" /\ req[k].op \in {"Login", "RefreshTokens"}
                => req[k].user \in Emails
  BY AccountKnown
<1>7. Named' /\ NamesApart'
  <2>1. \A k \in Request : Enrolled(k)' <=> Enrolled(k)
    BY <1>1 DEF Enrolled, Past, Succeeded
  <2> QED  BY <1>1, <1>5, <1>6, <2>1 DEF AccountInv, Named, NamesApart
<1>8. Verifying' /\ CanVerify'
  <2>1. \A k \in Request : /\ Past(k, {"VerifyEmail"}, 2)' <=> Past(k, {"VerifyEmail"}, 2)
                           /\ Past(k, {"Register"}, 4)' <=> Past(k, {"Register"}, 4)
    BY <1>1 DEF Past, Succeeded
  <2> QED  BY <1>1, <1>5, <1>6, <2>1 DEF AccountInv, Verifying, CanVerify, Verified
<1>9. Voided'
  BY <1>1, <1>5, <1>6
     DEF AccountInv, Voided, Succeeded, Hopeless, Deactivated, IsLive, Filing
<1> QED  BY <1>1, <1>7, <1>8, <1>9
     DEF AccountInv, Posted, Filed, Sent, Shown, Proved, Consumed, Rotated, LoggedOut,
         OneEach, Enrolled, Queued, Past, Succeeded, Mailed, Filing, IsLive, Did, TokenKind

(* Mail on its way is mail that was sent, and stays what it is.            *)
LEMMA AccountMail ==
    ASSUME TypeInv, AccountInv, NEW m \in Mail, SendMail(m)
    PROVE  AccountInv'
<1>1. /\ UNCHANGED <<users, sessions, tokens, outbox, req>>
      /\ outgoing' \cup inbox' \subseteq outgoing \cup inbox
      /\ inbox \subseteq inbox'
  BY DEF SendMail, store
<1>2. Mailed \subseteq Mailed'
  BY <1>1 DEF Mailed
<1>3. Posted'
  BY <1>1 DEF AccountInv, Posted, Sent, TokenKind
<1>4. Shown' /\ Proved'
  BY <1>1, <1>2 DEF AccountInv, Shown, Proved, Past, Succeeded, TokenKind
<1> QED  BY <1>1, <1>3, <1>4
     DEF AccountInv, Filed, Sent, Consumed, Rotated, LoggedOut, Named, OneEach, NamesApart,
         Enrolled, Verifying, CanVerify, Verified, Queued, Voided, Hopeless, Deactivated,
         Past, Succeeded, Filing, IsLive, Did, TokenKind

(* Nobody has done anything, and the accounts are named by their addresses.*)
LEMMA AccountInit == Init => AccountInv
<1> SUFFICES ASSUME Init PROVE AccountInv
  OBVIOUS
<1>1. /\ tokens = {} /\ outgoing = {} /\ inbox = {}
      /\ \A r \in Request : req[r] = Idle
      /\ \A e \in Emails : users[e] # None => users[e].username = e
  BY DEF Init
<1>2. Idle.op = None /\ Idle.status = "idle" /\ Idle.void = FALSE
  BY DEF Idle
<1>3. None # "Logout"
  BY NoneAssumption, Methods
<1>4. ASSUME NEW r \in Request, NEW ops PROVE ~Succeeded(r, ops)
  BY <1>1, <1>2 DEF Succeeded
<1>5. ASSUME NEW r \in Request, NEW ops, NEW i \in {0, 1, 2, 3, 4} PROVE ~Past(r, ops, i)
  BY <1>1, <1>2, <1>4 DEF Past
<1>6. Posted /\ Filed /\ LoggedOut /\ NamesApart /\ Queued /\ Voided
  BY <1>1, <1>2, <1>3, <1>4 DEF Posted, Filed, LoggedOut, NamesApart, Queued, Voided
<1>7. /\ Shown /\ Proved /\ Consumed /\ Rotated /\ Named /\ OneEach
      /\ Verifying /\ CanVerify
  BY <1>5 DEF Shown, Proved, Consumed, Rotated, Named, OneEach, Enrolled, Verifying,
              CanVerify
<1> QED  BY <1>6, <1>7 DEF AccountInv

(* The invariant is inductive.                                             *)
LEMMA AccountNext ==
    TypeInv /\ SessionInv /\ AccountInv /\ [Next]_vars => AccountInv'
<1> SUFFICES ASSUME TypeInv, SessionInv, AccountInv, [Next]_vars PROVE AccountInv'
  OBVIOUS
<1>1. CASE \E r \in Request : Arrival(r) \/ Step(r)
  BY <1>1, AccountArrival, AccountStep
<1>2. CASE \/ Crash \/ \E e \in Emails : Deactivate(e)
           \/ \E m \in Mail : SendMail(m)
  BY <1>2, AccountCrash, AccountDeactivate, AccountMail
<1>3. CASE Tick \/ Quiescent \/ UNCHANGED vars
  <2>1. UNCHANGED <<users, sessions, tokens, outbox, outgoing, inbox, req>>
    BY <1>3 DEF Tick, Quiescent, vars, store, mail
  <2> QED  BY <2>1
       DEF AccountInv, Posted, Filed, Sent, Shown, Proved, Consumed, Rotated, LoggedOut,
           Named, OneEach, NamesApart, Enrolled, Verifying, CanVerify, Verified, Queued,
           Voided, Hopeless, Deactivated, Past, Succeeded, Mailed, Filing, IsLive, Did,
           TokenKind
<1> QED  BY <1>1, <1>2, <1>3 DEF Next

-----------------------------------------------------------------------------
(* The theorems.                                                           *)

(* Hence it always holds.                                                  *)
LEMMA AccountInvariant == Spec => [](TypeInv /\ AccountInv)
BY TypeInit, TypeNext, SessionInit, SessionNext, AccountInit, AccountNext, PTL DEF Spec

(* A password is reset, and an address verified, only with a token of that *)
(* kind that arrived in that account's mailbox: FindUserToken compares the *)
(* type, and a token's row and mail come from one CreateUserToken.         *)
THEOREM MailIsProof == Spec => []MailProvesAddress
<1>1. TypeInv /\ AccountInv => MailProvesAddress
  <2> SUFFICES ASSUME TypeInv, AccountInv, NEW r \in Request,
                      Succeeded(r, {"ResetPassword"}) \/ Succeeded(r, {"VerifyEmail"})
               PROVE  [to |-> req[r].user, token |-> req[r].token,
                       kind |-> IF req[r].op = "ResetPassword" THEN "password_reset"
                                ELSE "email_verification"] \in inbox
    BY DEF MailProvesAddress, Succeeded
  <2>1. Past(r, Consuming, 1)
    BY DEF Past, Succeeded, Consuming
  <2> QED  BY <2>1 DEF AccountInv, Proved, TokenKind, Succeeded
<1> QED  BY <1>1, AccountInvariant, PTL

(* Of the registrations for one address at most one succeeds, whatever     *)
(* lookups they interleave: the INSERT decides.                            *)
THEOREM RegistrationsExclude == Spec => []RegistrationExclusive
<1>1. TypeInv /\ AccountInv => RegistrationExclusive
  <2> SUFFICES ASSUME TypeInv, AccountInv PROVE RegistrationExclusive
    OBVIOUS
  <2>1. \A r \in Request : Succeeded(r, {"Register"}) => Enrolled(r)
    BY DEF Enrolled, Past, Succeeded
  <2> QED  BY <2>1 DEF AccountInv, RegistrationExclusive, Named, OneEach, NamesApart
<1> QED  BY <1>1, AccountInvariant, PTL

(* A registered client can verify its address, and its event is queued:    *)
(* VerifyEmail marks the account before it deletes the token.              *)
THEOREM RegisteredVerify == Spec => []RegisteredCanVerify
<1>1. TypeInv /\ AccountInv => RegisteredCanVerify
  <2> SUFFICES ASSUME TypeInv, AccountInv, NEW r \in Request, Succeeded(r, {"Register"})
               PROVE  /\ \/ users[req[r].user].verified
                         \/ \E t \in tokens : /\ t.token = r /\ t.user = req[r].user
                                              /\ t.type = "email_verification"
                      /\ Did(r, {"Emit"}) => req[r].user \in outbox
    BY DEF RegisteredCanVerify
  <2>1. Past(r, {"Register"}, 4)
    BY DEF Past, Succeeded
  <2> QED  BY <2>1 DEF AccountInv, CanVerify, Queued, Verified
<1> QED  BY <1>1, AccountInvariant, PTL

(* A token used up when a request began gets it nothing, unless the delete *)
(* of that token failed, and an account deactivated by then gets no login  *)
(* and no refresh.                                                         *)
THEOREM VoidIsRefused == Spec => []VoidRefused
<1>1. AccountInv => VoidRefused
  BY DEF AccountInv, Voided, VoidRefused
<1> QED  BY <1>1, AccountInvariant, PTL
=============================================================================

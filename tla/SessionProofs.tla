----------------------------- MODULE SessionProofs -----------------------------
(***************************************************************************)
(* What the table user_sessions keeps true, proved for every set of        *)
(* requests and accounts: whose the sessions are, that a rotation retires  *)
(* its parent, that a new password closes the sessions opened before it,   *)
(* that a row outlives its JWT, and that the table implements              *)
(* SessionLedger.                                                          *)
(***************************************************************************)
EXTENDS AuthServiceProofs

-----------------------------------------------------------------------------
(* The inductive invariant, in parts.                                      *)

(* The call that opens a session, by method.                               *)
Opens == [Register |-> 3, Login |-> 2, RefreshTokens |-> 4]

Versioned == \A e \in Emails : users[e] # None => users[e].version > 0

Unstarted == \A r \in Request : req[r].status = "idle" => req[r] = Idle

Unopened ==
    \A r \in Request :
        /\ req[r].op \in Minting /\ req[r].status = "running"
        /\ req[r].step <= Opens[req[r].op]
        => req[r].version = 0

Unset ==
    \A r \in Request :
        /\ req[r].op \in SettingPassword /\ req[r].status = "running"
        /\ req[r].step <= 2
        => req[r].version = 0

(* A refresh presents a token that was answered, by a request that will    *)
(* not write again.                                                        *)
Presented ==
    \A r \in Request : req[r].op = "RefreshTokens" =>
        req[r].token \in Request /\ Succeeded(req[r].token, Minting)

(* From its delete on, the refresh's old session is gone.                  *)
Retired ==
    \A r \in Request :
        /\ req[r].op = "RefreshTokens" /\ Did(r, {"DeleteUserSession"})
        /\ req[r].version > 0 \/ (req[r].status = "running" /\ req[r].step = 4)
        => ~IsLive(req[r].token)

(* The versions of an account only grow.                                   *)
Outdated ==
    \A r \in Request :
        /\ req[r].op \in SettingPassword
        /\ req[r].version > 0 \/ (req[r].status = "running" /\ req[r].step > 1)
        => /\ OnRecord(req[r].user, users)
           /\ req[r].version <= users[req[r].user].version

(* No JWT expires later than one minted now would.                         *)
Minted == \A r \in Request : req[r].exp <= now + RefreshTTL

SessionInv ==
    /\ Versioned /\ Unstarted /\ Unopened /\ Unset /\ SessionOwner
    /\ Presented /\ Retired
    /\ Outdated /\ OldSessionsRevoked
    /\ Minted /\ RowOutlivesJwt
-----------------------------------------------------------------------------
(* What one call may change of the request that makes it.                  *)

Same(n, q) ==
    /\ n.op = q.op /\ n.status = q.status /\ n.step = q.step
    /\ n.username = q.username /\ n.password = q.password
    /\ n.token = q.token /\ n.exp = q.exp /\ n.void = q.void
    /\ q.undone \subseteq n.undone

(* Whatever a call does, its request is then answered, goes on or fails;   *)
(* only a few calls record something in it before.                         *)
LEMMA StepForm ==
    ASSUME TypeInv, NEW r \in Request, Step(r)
    PROVE  /\ Running(r)
           /\ \E n \in RequestState :
                 /\ Same(n, req[r])
                 /\ n.user = req[r].user \/ FindUserToken(r)
                 /\ n.version = req[r].version
                    \/ CreateUserSession(r) \/ UpdatePassword(r)
                 /\ \/ Becomes(r, Advance(n))
                    \/ "storeError" \in Environment /\ Becomes(r, Fail(n))
                    \/ \E x \in Results \ {"ok"} : Becomes(r, Answer(n, x))
                    \/ MailLookup(r) /\ Becomes(r, Answer(n, "ok"))
<1> DEFINE q == req[r]
           Ends(n) == \/ Becomes(r, Advance(n))
                      \/ "storeError" \in Environment /\ Becomes(r, Fail(n))
                      \/ \E x \in Results \ {"ok"} : Becomes(r, Answer(n, x))
                      \/ MailLookup(r) /\ Becomes(r, Answer(n, "ok"))
           Goal == \E n \in RequestState :
                     /\ Same(n, q)
                     /\ n.user = q.user \/ FindUserToken(r)
                     /\ n.version = q.version
                        \/ CreateUserSession(r) \/ UpdatePassword(r)
                     /\ Ends(n)
<1>1. Running(r)
  BY DEF Step, Reads, At, RegisterLookup, LoginLookup, MailLookup,
         RefreshFindSession, RefreshGetUser, ChangeGetUser, VerifyGetUser,
         FindUserToken, CreateUser, CreateUserSession, CreateUserToken, Emit,
         UpdateLastLogin, DeleteUserSession, DeleteAllUserSessions,
         DeleteUserToken, UpdatePassword, MarkVerified, StoreError
<1>2. /\ q \in RequestState /\ q.status = "running" /\ Inputs(q)
      /\ NeedsAccount(q) => OnRecord(q.user, users)
  BY <1>1, RunningShape
<1>3. q.op \in OpNames /\ q.step \in 1..Len(Calls[q.op]) /\ TypeOK
  BY <1>2 DEF Inputs, TypeInv
<1>4. Same(q, q)
  BY DEF Same
<1>5. ASSUME NEW n \in RequestState, Same(n, q),
             n.user = q.user \/ FindUserToken(r),
             n.version = q.version \/ CreateUserSession(r) \/ UpdatePassword(r),
             Ends(n)
      PROVE  Goal
  BY <1>5
<1> SUFFICES Goal
  BY <1>1
<1> HIDE DEF Goal
<1>6. \/ RegisterLookup(r) \/ MailLookup(r) \/ RefreshFindSession(r)
      \/ RefreshGetUser(r) \/ VerifyGetUser(r) \/ CreateUserToken(r)
      \/ Emit(r) \/ UpdateLastLogin(r) \/ DeleteUserSession(r)
      \/ DeleteAllUserSessions(r) \/ DeleteUserToken(r) \/ MarkVerified(r)
      => Ends(q)
  <2> USE DEF Answers, Proceeds, Returns, Results
  <2>1. CASE \/ RegisterLookup(r) \/ RefreshFindSession(r) \/ RefreshGetUser(r)
    BY <2>1 DEF RegisterLookup, RefreshFindSession, RefreshGetUser
  <2>2. CASE MailLookup(r)
    BY <2>2 DEF MailLookup
  <2>3. CASE VerifyGetUser(r) \/ CreateUserToken(r)
    BY <2>3 DEF VerifyGetUser, CreateUserToken
  <2>4. CASE \/ Emit(r) \/ UpdateLastLogin(r) \/ DeleteUserSession(r)
             \/ DeleteAllUserSessions(r) \/ DeleteUserToken(r) \/ MarkVerified(r)
    BY <2>4 DEF Emit, UpdateLastLogin, DeleteUserSession, DeleteAllUserSessions,
                DeleteUserToken, MarkVerified
  <2> QED  BY <2>1, <2>2, <2>3, <2>4
<1>7. CASE LoginLookup(r)
  <2>1. CASE \E x \in Results \ {"ok"} : Becomes(r, Answer(q, x))
    BY <1>2, <1>4, <1>5, <2>1
  <2>2. CASE /\ users[q.user] # None
             /\ Becomes(r, Advance([q EXCEPT !.cred = users[q.user].version]))
    <3> DEFINE v == users[q.user].version
               n == [q EXCEPT !.cred = v]
    <3>1. v \in Nat
      BY <1>2, <1>3, <1>7, <2>2 DEF LoginLookup, Reads, Inputs, ByToken, TypeOK, UserRow
    <3> HIDE DEF v
    <3>2. n \in RequestState /\ Same(n, q) /\ n.user = q.user /\ n.version = q.version
      BY <1>2, <3>1 DEF RequestState, Same
    <3>3. Becomes(r, Advance(n))
      BY <2>2 DEF v
    <3> QED  BY <1>5, <3>2, <3>3
  <2> QED  BY <1>7, <2>1, <2>2 DEF LoginLookup, Answers, Proceeds, Results
<1>8. CASE ChangeGetUser(r)
  <2>1. CASE \E x \in Results \ {"ok"} : Becomes(r, Answer(q, x))
    BY <1>2, <1>4, <1>5, <2>1
  <2>2. CASE Becomes(r, Advance([q EXCEPT !.cred = users[q.user].version]))
    <3> DEFINE v == users[q.user].version
               n == [q EXCEPT !.cred = v]
    <3>1. v \in Nat
      BY <1>2, <1>3, <1>8 DEF ChangeGetUser, Reads, NeedsAccount, OnRecord, TypeOK, UserRow
    <3> HIDE DEF v
    <3>2. n \in RequestState /\ Same(n, q) /\ n.user = q.user /\ n.version = q.version
      BY <1>2, <3>1 DEF RequestState, Same
    <3>3. Becomes(r, Advance(n))
      BY <2>2 DEF v
    <3> QED  BY <1>5, <3>2, <3>3
  <2> QED  BY <1>8, <2>1, <2>2 DEF ChangeGetUser, Answers, Proceeds, Results
<1>9. CASE FindUserToken(r)
  <2>1. CASE \E x \in Results \ {"ok"} : Becomes(r, Answer(q, x))
    BY <1>2, <1>4, <1>5, <2>1
  <2>2. ASSUME NEW t \in tokens, Becomes(r, Advance([q EXCEPT !.user = t.user]))
        PROVE  Goal
    <3> DEFINE e == t.user
               n == [q EXCEPT !.user = e]
    <3>1. e \in Emails
      BY <1>3 DEF TypeOK, TokenRow
    <3> HIDE DEF e
    <3>2. n \in RequestState /\ Same(n, q) /\ n.version = q.version
      BY <1>2, <3>1 DEF RequestState, Same
    <3>3. Becomes(r, Advance(n))
      BY <2>2 DEF e
    <3> QED  BY <1>5, <1>9, <3>2, <3>3
  <2> QED  BY <1>9, <2>1, <2>2 DEF FindUserToken, Answers, Proceeds, Results
<1>10. CASE CreateUser(r)
  <2>1. CASE Becomes(r, Answer(q, "internal"))
    BY <1>2, <1>4, <1>5, <2>1 DEF Results
  <2> DEFINE n == [q EXCEPT !.cred = 1]
  <2>2. CASE Returns(r, n)
    <3>1. n \in RequestState /\ Same(n, q) /\ n.user = q.user /\ n.version = q.version
      BY <1>2 DEF RequestState, Same
    <3> QED  BY <1>5, <2>2, <3>1 DEF Returns
  <2> QED  BY <1>10, <2>1, <2>2 DEF CreateUser
<1>11. CASE CreateUserSession(r) \/ UpdatePassword(r)
  <2> DEFINE v == IF UpdatePassword(r) THEN users[q.user].version + 1
                  ELSE users[q.user].version
             n == [q EXCEPT !.version = v]
  <2>1. NeedsAccount(q)
    BY <1>3, <1>11, CallPlaces
       DEF CreateUserSession, UpdatePassword, At, Call, NeedsAccount
  <2>2. users[q.user].version \in Nat
    BY <1>2, <1>3, <2>1 DEF OnRecord, TypeOK, UserRow
  <2>3. v \in Nat
    BY <2>2
  <2>4. Returns(r, n)
    <3>1. CASE UpdatePassword(r)
      BY <3>1 DEF UpdatePassword
    <3>2. CASE ~UpdatePassword(r)
      BY <1>11, <3>2 DEF CreateUserSession
    <3> QED  BY <3>1, <3>2
  <2> HIDE DEF v
  <2>5. n \in RequestState /\ Same(n, q) /\ n.user = q.user
    BY <1>2, <2>3 DEF RequestState, Same
  <2> HIDE DEF n
  <2> QED  BY <1>5, <1>11, <2>4, <2>5 DEF Returns
<1>12. CASE StoreError(r)
  <2> DEFINE d == q.undone \cup (Droppable \cap {Call(q)})
             n == [q EXCEPT !.undone = d]
  <2>1. d \in SUBSET Droppable /\ q.undone \subseteq d
    BY <1>2 DEF RequestState
  <2>2. "storeError" \in Environment /\ Becomes(r, Fail(n))
    BY <1>12 DEF StoreError
  <2> HIDE DEF d
  <2>3. n \in RequestState /\ Same(n, q) /\ n.user = q.user /\ n.version = q.version
    BY <1>2, <2>1 DEF RequestState, Same
  <2> HIDE DEF n
  <2> QED  BY <1>5, <2>2, <2>3
<1> QED  BY <1>2, <1>4, <1>5, <1>6, <1>7, <1>8, <1>9, <1>10, <1>11, <1>12 DEF Step

(* Being answered, going on and failing leave the rest of a request alone. *)
LEMMA Kept ==
    ASSUME NEW q \in RequestState, NEW p, q.status = "running",
           p = Advance(q) \/ p = Fail(q) \/ \E x \in Results : p = Answer(q, x)
    PROVE  /\ p.op = q.op /\ p.user = q.user /\ p.token = q.token
           /\ p.username = q.username /\ p.password = q.password
           /\ p.cred = q.cred /\ p.version = q.version /\ p.void = q.void
           /\ p.undone = q.undone
           /\ p.status \in {"running", "done"}
           /\ p.status = "running" => p.step = q.step + 1
           /\ \/ p.exp = q.exp
              \/ /\ q.step # Len(Calls[q.op])
                 /\ Calls[q.op][q.step + 1] = "CreateUserSession"
                 /\ p.exp = now + RefreshTTL
           /\ p.status = "done" /\ p.result = "ok"
              => q.step = Len(Calls[q.op]) \/ p = Answer(q, "ok")
<1>1. ASSUME NEW x \in Results, p = Answer(q, x)
      PROVE  /\ p.status = "done" /\ p.result = x /\ p.exp = q.exp
             /\ p.op = q.op /\ p.user = q.user /\ p.token = q.token
             /\ p.username = q.username /\ p.password = q.password
             /\ p.cred = q.cred /\ p.version = q.version /\ p.void = q.void
             /\ p.undone = q.undone
  BY <1>1 DEF Answer, RequestState
<1>2. CASE \E x \in Results : p = Answer(q, x)
  <2>1. PICK x \in Results : p = Answer(q, x)
    BY <1>2
  <2>2. /\ p.status = "done" /\ p.result = x /\ p.exp = q.exp
        /\ p.op = q.op /\ p.user = q.user /\ p.token = q.token
        /\ p.username = q.username /\ p.password = q.password
        /\ p.cred = q.cred /\ p.version = q.version /\ p.void = q.void
        /\ p.undone = q.undone
    BY <1>1, <2>1
  <2> QED  BY <2>1, <2>2
<1>3. CASE p = Advance(q) /\ q.step = Len(Calls[q.op])
  BY <1>1, <1>3 DEF Advance, Results
<1>4. CASE p = Advance(q) /\ q.step # Len(Calls[q.op])
  <2> DEFINE x == IF Calls[q.op][q.step + 1] = "CreateUserSession"
                  THEN now + RefreshTTL ELSE q.exp
  <2>1. p = [q EXCEPT !.step = q.step + 1, !.exp = x]
    BY <1>4 DEF Advance, RequestState
  <2> HIDE DEF x
  <2>2. /\ p.op = q.op /\ p.user = q.user /\ p.token = q.token
        /\ p.username = q.username /\ p.password = q.password
        /\ p.cred = q.cred /\ p.version = q.version /\ p.void = q.void
        /\ p.undone = q.undone
        /\ p.status = q.status /\ p.step = q.step + 1 /\ p.exp = x
    BY <2>1 DEF RequestState
  <2> QED  BY <1>4, <2>2 DEF x
<1>5. p = Advance(q) \/ \E x \in Results : p = Answer(q, x)
  BY DEF Fail, Results
<1> QED  BY <1>2, <1>3, <1>4, <1>5

(* The sum of the two: one call moves one request, within these limits.    *)
LEMMA StepEffect ==
    ASSUME TypeInv, NEW r \in Request, Step(r)
    PROVE  /\ req[r].status = "running" /\ Inputs(req[r]) /\ now \in Nat
           /\ NeedsAccount(req[r]) => OnRecord(req[r].user, users)
           /\ req' \in [Request -> RequestState]
           /\ \A p \in Request \ {r} : req'[p] = req[p]
           /\ req'[r].op = req[r].op /\ req'[r].token = req[r].token
           /\ req'[r].username = req[r].username /\ req'[r].void = req[r].void
           /\ req[r].undone \subseteq req'[r].undone
           /\ req'[r].user = req[r].user \/ FindUserToken(r)
           /\ req'[r].version = req[r].version
              \/ CreateUserSession(r) \/ UpdatePassword(r)
           /\ req'[r].status \in {"running", "done"}
           /\ req'[r].status = "running" => req'[r].step = req[r].step + 1
           /\ \/ req'[r].exp = req[r].exp
              \/ /\ req[r].step # Len(Calls[req[r].op])
                 /\ Calls[req[r].op][req[r].step + 1] = "CreateUserSession"
                 /\ req'[r].exp = now + RefreshTTL
           /\ req'[r].status = "done" /\ req'[r].result = "ok"
              => req[r].step = Len(Calls[req[r].op]) \/ MailLookup(r)
<1>1. PICK n \in RequestState :
        /\ Same(n, req[r])
        /\ n.user = req[r].user \/ FindUserToken(r)
        /\ n.version = req[r].version
           \/ CreateUserSession(r) \/ UpdatePassword(r)
        /\ \/ Becomes(r, Advance(n))
           \/ "storeError" \in Environment /\ Becomes(r, Fail(n))
           \/ \E x \in Results \ {"ok"} : Becomes(r, Answer(n, x))
           \/ MailLookup(r) /\ Becomes(r, Answer(n, "ok"))
  BY StepForm
<1>2. /\ Running(r) /\ req[r].status = "running" /\ Inputs(req[r]) /\ now \in Nat
      /\ NeedsAccount(req[r]) => OnRecord(req[r].user, users)
  BY StepForm, RunningShape
<1>3. req \in [Request -> RequestState] /\ req' \in [Request -> RequestState]
  BY StepType DEF TypeInv, TypeOK
<1> DEFINE p == req'[r]
<1>4. PICK m : req' = [req EXCEPT ![r] = m] /\ m = p
               /\ \/ m = Advance(n)
                  \/ m = Fail(n)
                  \/ \E x \in Results \ {"ok"} : m = Answer(n, x)
                  \/ MailLookup(r) /\ m = Answer(n, "ok")
  BY <1>1, <1>3 DEF Becomes
<1>5. n.status = "running" /\ n.op = req[r].op /\ n.step = req[r].step
      /\ n.token = req[r].token /\ n.exp = req[r].exp
      /\ n.username = req[r].username /\ n.void = req[r].void
      /\ req[r].undone \subseteq n.undone
  BY <1>1, <1>2 DEF Same
<1>6. /\ p.op = n.op /\ p.user = n.user /\ p.token = n.token
      /\ p.username = n.username /\ p.void = n.void
      /\ p.version = n.version /\ p.status \in {"running", "done"}
      /\ p.undone = n.undone
      /\ p.status = "running" => p.step = n.step + 1
      /\ \/ p.exp = n.exp
         \/ /\ n.step # Len(Calls[n.op])
            /\ Calls[n.op][n.step + 1] = "CreateUserSession"
            /\ p.exp = now + RefreshTTL
      /\ p.status = "done" /\ p.result = "ok"
         => n.step = Len(Calls[n.op]) \/ p = Answer(n, "ok")
  BY <1>4, <1>5, Kept DEF Results
<1>7. p.status = "done" /\ p.result = "ok"
      => n.step = Len(Calls[n.op]) \/ MailLookup(r)
  <2> SUFFICES ASSUME p.status = "done", p.result = "ok", ~MailLookup(r),
                      n.step # Len(Calls[n.op])
               PROVE  FALSE
    OBVIOUS
  <2>1. \A x \in Results : Answer(n, x).result = x
    BY DEF Answer, RequestState
  <2>2. p = Advance(n) \/ p = Fail(n)
    BY <1>4, <2>1
  <2>3. Advance(n).status = "running"
    BY <1>5 DEF Advance, RequestState
  <2>4. Answer(n, "internal").result = "internal"
    BY <2>1 DEF Results
  <2> QED  BY <2>2, <2>3, <2>4 DEF Fail
<1>8. \A k \in Request \ {r} : req'[k] = req[k]
  BY <1>3, <1>4
<1> QED  BY <1>1, <1>2, <1>3, <1>5, <1>6, <1>7, <1>8

(* Where the tables of accounts and sessions change, and how.              *)
LEMMA StepTables ==
    ASSUME TypeInv, NEW r \in Request, Step(r)
    PROVE  /\ \/ sessions' \subseteq sessions
              \/ CreateUserSession(r)
           /\ \A e \in Emails : users[e] # None =>
                 /\ users'[e] # None /\ users'[e].version >= users[e].version
                 /\ users[e].version \in Nat /\ users'[e].version \in Nat
           /\ \A e \in Emails : users[e] = None /\ users'[e] # None
                                 => users'[e].version = 1
           /\ ~UpdatePassword(r) => \A e \in Emails : users[e] # None =>
                                      users'[e].version = users[e].version
           /\ now' = now
<1>1. /\ TypeOK /\ TypeOK'
      /\ NeedsAccount(req[r]) => OnRecord(req[r].user, users)
      /\ Inputs(req[r])
  BY StepEffect, StepType DEF TypeInv
<1>2. \A e \in Emails : users[e] # None => users[e].version \in Nat
  BY <1>1 DEF TypeOK, UserRow
<1>3. CASE CreateUser(r)
  BY <1>1, <1>2, <1>3 DEF CreateUser, TypeOK, Taken
<1>4. CASE UpdatePassword(r) \/ MarkVerified(r)
  <2>1. NeedsAccount(req[r])
    BY <1>1, <1>4, CallPlaces
       DEF UpdatePassword, MarkVerified, At, Call, NeedsAccount, Inputs
  <2> DEFINE e == req[r].user
             v == users[e].version + 1
             set == [users[e] EXCEPT !.password = req[r].password, !.version = v]
             mark == [users[e] EXCEPT !.verified = TRUE]
  <2>2. e \in Emails /\ users[e] \in UserRow /\ users[e].version \in Nat
    BY <1>1, <2>1 DEF OnRecord, TypeOK, UserRow
  <2>3. UpdatePassword(r) => req[r].password \in Passwords
    BY <1>1, CallPlaces DEF UpdatePassword, At, Call, Inputs, Presenting
  <2>4. CASE UpdatePassword(r)
    <3>1. users' = [users EXCEPT ![e] = set]
      BY <1>1, <2>2, <2>4 DEF UpdatePassword, TypeOK, UserRow
    <3>2. v \in Nat /\ v >= users[e].version
      BY <2>2
    <3> HIDE DEF v
    <3>3. set \in UserRow /\ set.version = v
      BY <2>2, <2>3, <2>4, <3>2 DEF UserRow
    <3> HIDE DEF set
    <3> QED  BY <1>1, <1>2, <2>2, <2>4, <3>1, <3>2, <3>3, RowAssumption
             DEF UpdatePassword, TypeOK
  <2>5. CASE MarkVerified(r) /\ ~UpdatePassword(r)
    <3>1. users' = [users EXCEPT ![e] = mark]
      BY <2>5 DEF MarkVerified
    <3>2. mark \in UserRow /\ mark.version = users[e].version
      BY <2>2 DEF UserRow
    <3> HIDE DEF mark
    <3>3. \A d \in Emails : users'[d] = IF d = e THEN mark ELSE users[d]
      BY <1>1, <3>1 DEF TypeOK
    <3>4. UNCHANGED <<sessions, now>>
      BY <2>5 DEF MarkVerified
    <3> QED  BY <1>2, <2>2, <2>5, <3>2, <3>3, <3>4, RowAssumption
  <2> QED  BY <1>4, <2>4, <2>5
<1>5. CASE CreateUserSession(r)
  BY <1>2, <1>5 DEF CreateUserSession
<1>6. CASE DeleteUserSession(r) \/ DeleteAllUserSessions(r)
  BY <1>2, <1>6 DEF DeleteUserSession, DeleteAllUserSessions
<1>7. CASE ~ \/ CreateUser(r) \/ UpdatePassword(r) \/ MarkVerified(r)
             \/ CreateUserSession(r) \/ DeleteUserSession(r)
             \/ DeleteAllUserSessions(r)
  <2>1. UNCHANGED <<users, sessions, now>>
    BY <1>7 DEF Step, Reads, store, RegisterLookup, LoginLookup, MailLookup,
       RefreshFindSession, RefreshGetUser, ChangeGetUser, VerifyGetUser,
       FindUserToken, CreateUserToken, Emit, UpdateLastLogin, DeleteUserToken,
       StoreError
  <2> QED  BY <1>2, <2>1
<1> QED  BY <1>3, <1>4, <1>5, <1>6, <1>7

(* A request that arrives has no session and no version yet.               *)
LEMMA ArrivalEffect ==
    ASSUME TypeInv, NEW r \in Request, Arrival(r)
    PROVE  /\ req[r].status = "idle"
           /\ req' \in [Request -> RequestState]
           /\ \A p \in Request \ {r} : req'[p] = req[p]
           /\ UNCHANGED <<users, sessions, tokens, outbox, outgoing, inbox, now>>
           /\ req'[r].version = 0 /\ req'[r].exp = 0
           /\ req'[r].status \in {"running", "done"}
           /\ req'[r].status = "running" => req'[r].step = 1
           /\ req'[r].status = "done" => req'[r].result # "ok"
           /\ req'[r].op = "RefreshTokens" => req'[r].token \in Issued
<1>1. req \in [Request -> RequestState] /\ req' \in [Request -> RequestState]
  BY ArrivalType DEF TypeInv, TypeOK
<1> DEFINE Fresh(q) == /\ q.version = 0 /\ q.exp = 0
                       /\ q.status \in {"running", "done"}
                       /\ q.status = "running" => q.step = 1
                       /\ q.status = "done" => q.result # "ok"
           Kind(q) == q.op = "RefreshTokens" => q.token \in Issued
           Goal == /\ req[r].status = "idle"
                   /\ \A p \in Request \ {r} : req'[p] = req[p]
                   /\ UNCHANGED <<users, sessions, tokens, outbox, outgoing, inbox, now>>
                   /\ Fresh(req'[r]) /\ Kind(req'[r])
<1>2. ASSUME NEW op \in OpNames, NEW q, Arrive(r, op, q),
             Fresh([q EXCEPT !.op = op]), Kind([q EXCEPT !.op = op])
      PROVE  Goal
  BY <1>1, <1>2 DEF Arrive, Becomes, store, mail
<1> SUFFICES Goal
  BY <1>1
<1> HIDE DEF Goal
<1>3. CASE BeginRegister(r)
  BY <1>2, <1>3, Methods DEF BeginRegister, Started, Refused, Answer, Idle
<1>4. CASE BeginLogin(r)
  BY <1>2, <1>4, Methods DEF BeginLogin, Started, Idle
<1>5. CASE BeginLogout(r)
  BY <1>2, <1>5, Methods DEF BeginLogout, Started, Idle
<1>6. CASE BeginRefreshTokens(r)
  BY <1>2, <1>6, Methods DEF BeginRefreshTokens, Started, Refused, Answer, Idle
<1>7. CASE BeginRequestPasswordReset(r)
  BY <1>2, <1>7, Methods DEF BeginRequestPasswordReset, Started, Idle
<1>8. CASE BeginResetPassword(r)
  BY <1>2, <1>8, Methods DEF BeginResetPassword, Started, Refused, Answer, Idle
<1>9. CASE BeginChangePassword(r)
  BY <1>2, <1>9, Methods DEF BeginChangePassword, Started, Idle
<1>10. CASE BeginVerifyEmail(r)
  BY <1>2, <1>10, Methods DEF BeginVerifyEmail, Started, Idle
<1>11. CASE BeginResendVerificationEmail(r)
  BY <1>2, <1>11, Methods DEF BeginResendVerificationEmail, Started, Idle
<1> QED  BY <1>3, <1>4, <1>5, <1>6, <1>7, <1>8, <1>9, <1>10, <1>11 DEF Arrival

(* A write that failed without effect is on the request's record.          *)
LEMMA StoreErrorRecords ==
    ASSUME TypeInv, NEW r \in Request, StoreError(r), Call(req[r]) \in Droppable
    PROVE  Call(req[r]) \in req'[r].undone
<1> DEFINE d == req[r].undone \cup (Droppable \cap {Call(req[r])})
           n == [req[r] EXCEPT !.undone = d]
<1>1. req[r] \in RequestState /\ req[r].status = "running"
  BY DEF TypeInv, TypeOK, StoreError, Running
<1>2. d \in SUBSET Droppable /\ Call(req[r]) \in d
  BY <1>1 DEF RequestState
<1>3. req'[r] = Fail(n)
  BY DEF StoreError, Becomes, TypeInv, TypeOK
<1> HIDE DEF d
<1>4. n \in RequestState /\ n.status = "running" /\ n.undone = d
  BY <1>1, <1>2 DEF RequestState
<1> HIDE DEF n
<1>5. req'[r].undone = d
  BY <1>3, <1>4, Kept
<1> QED  BY <1>2, <1>5

(* Which method is at which of its calls, and what it then writes.         *)
LEMMA Writers ==
    ASSUME TypeInv, NEW r \in Request, Step(r)
    PROVE  /\ CreateUserSession(r) =>
                req[r].op \in Minting /\ req[r].step = Opens[req[r].op]
           /\ UpdatePassword(r) => req[r].op \in SettingPassword /\ req[r].step = 2
           /\ FindUserToken(r) =>
                req[r].op \in {"ResetPassword", "VerifyEmail"} /\ req[r].step = 1
           /\ MailLookup(r) => req[r].op \notin Minting \cup SettingPassword
           /\ req[r].op = "RefreshTokens" /\ req[r].step = 3
                => \/ DeleteUserSession(r)
                   \/ "DeleteUserSession" \in req'[r].undone
           /\ req[r].op \in SettingPassword /\ req[r].step = Len(Calls[req[r].op])
                => \/ DeleteAllUserSessions(r)
                   \/ "DeleteAllUserSessions" \in req'[r].undone
<1> DEFINE q == req[r]
<1>1. q.op \in OpNames /\ q.step \in 1..Len(Calls[q.op])
  BY StepEffect DEF Inputs
<1>2. CreateUserSession(r) => q.op \in Minting /\ q.step = Opens[q.op]
  BY <1>1, CallPlaces DEF CreateUserSession, At, Call, Minting, Opens
<1>3. UpdatePassword(r) => q.op \in SettingPassword /\ q.step = 2
  BY <1>1, CallPlaces DEF UpdatePassword, At, Call, SettingPassword
<1>4. FindUserToken(r) => q.op \in {"ResetPassword", "VerifyEmail"} /\ q.step = 1
  BY <1>1, CallPlaces DEF FindUserToken, Reads, At, Call
<1>5. MailLookup(r) => q.op \notin Minting \cup SettingPassword
  BY DEF MailLookup, Reads, Minting, SettingPassword
<1>6. ASSUME NEW call \in {"DeleteUserSession", "DeleteAllUserSessions"},
             Call(q) = call
      PROVE  \/ call = "DeleteUserSession" /\ DeleteUserSession(r)
             \/ call = "DeleteAllUserSessions" /\ DeleteAllUserSessions(r)
             \/ call \in req'[r].undone
  <2>1. StoreError(r) => call \in req'[r].undone
    BY <1>6, StoreErrorRecords DEF Droppable
  <2> QED  BY <1>6, <2>1 DEF Step, Reads, At, RegisterLookup, LoginLookup, MailLookup,
     RefreshFindSession, RefreshGetUser, ChangeGetUser, VerifyGetUser,
     FindUserToken, CreateUser, CreateUserSession, CreateUserToken, Emit,
     UpdateLastLogin, DeleteUserSession, DeleteAllUserSessions,
     DeleteUserToken, UpdatePassword, MarkVerified
<1>7. q.op = "RefreshTokens" /\ q.step = 3 => Call(q) = "DeleteUserSession"
  BY Methods DEF RefreshTokens, Call
<1>8. q.op \in SettingPassword /\ q.step = Len(Calls[q.op])
      => Call(q) = "DeleteAllUserSessions"
  <2>1. ResetPassword[4] = "DeleteAllUserSessions"
        /\ ChangePassword[3] = "DeleteAllUserSessions"
    BY DEF ResetPassword, ChangePassword
  <2> QED  BY <2>1, Methods, Lengths DEF Call, SettingPassword
<1> QED  BY <1>2, <1>3, <1>4, <1>5, <1>6, <1>7, <1>8

(* The version a writer records in its request is the account's.           *)
LEMMA VersionSet ==
    ASSUME TypeInv, NEW r \in Request, Step(r)
    PROVE  /\ CreateUserSession(r) =>
                req'[r].version = users[req[r].user].version /\ users' = users
           /\ UpdatePassword(r) =>
                /\ req'[r].version = users[req[r].user].version + 1
                /\ req'[r].version = users'[req[r].user].version
           /\ CreateUserSession(r) \/ UpdatePassword(r) =>
                OnRecord(req[r].user, users)
<1> DEFINE q == req[r]
           u == users[q.user]
<1>1. /\ TypeOK /\ q \in RequestState /\ q.status = "running" /\ Inputs(q)
      /\ NeedsAccount(q) => OnRecord(q.user, users)
      /\ req' \in [Request -> RequestState]
  BY StepEffect DEF TypeInv, TypeOK
<1>2. CreateUserSession(r) \/ UpdatePassword(r) => NeedsAccount(q)
  BY <1>1, CallPlaces
     DEF CreateUserSession, UpdatePassword, At, Call, NeedsAccount, Inputs
<1>3. OnRecord(q.user, users) => u \in UserRow /\ u.version \in Nat
  BY <1>1 DEF OnRecord, TypeOK, UserRow
<1>4. ASSUME NEW v \in Nat, Returns(r, [q EXCEPT !.version = v])
      PROVE  req'[r].version = v
  <2> DEFINE n == [q EXCEPT !.version = v]
  <2>1. n \in RequestState /\ n.status = "running" /\ n.version = v
    BY <1>1 DEF RequestState
  <2> HIDE DEF n
  <2>2. req'[r] = Advance(n) \/ req'[r] = Fail(n)
    BY <1>1, <1>4 DEF Returns, Becomes, TypeOK, n
  <2> QED  BY <2>1, <2>2, Kept
<1>5. CASE CreateUserSession(r)
  <2>1. u.version \in Nat /\ OnRecord(q.user, users)
    BY <1>1, <1>2, <1>3, <1>5
  <2>2. req'[r].version = u.version /\ users' = users
    BY <1>4, <1>5, <2>1 DEF CreateUserSession
  <2>3. ~UpdatePassword(r)
    BY <1>5 DEF CreateUserSession, UpdatePassword, At
  <2> QED  BY <2>1, <2>2, <2>3
<1>6. CASE UpdatePassword(r)
  <2>1. u \in UserRow /\ u.version + 1 \in Nat /\ OnRecord(q.user, users)
    BY <1>1, <1>2, <1>3, <1>6
  <2>2. req'[r].version = u.version + 1
    BY <1>4, <1>6, <2>1 DEF UpdatePassword
  <2> DEFINE v == u.version + 1
             w == [u EXCEPT !.password = q.password, !.version = v]
  <2>3. users' = [users EXCEPT ![q.user] = w]
    BY <1>1, <1>6, <2>1 DEF UpdatePassword, UserRow, OnRecord, TypeOK
  <2> HIDE DEF v
  <2>4. w.version = v
    BY <2>1 DEF UserRow
  <2> HIDE DEF w
  <2>5. users'[q.user].version = v
    BY <1>1, <2>1, <2>3, <2>4 DEF OnRecord, TypeOK
  <2> QED  BY <1>2, <2>1, <2>2, <2>5, <1>6, CallPlaces, <1>1
           DEF v, CreateUserSession, UpdatePassword, At
<1> QED  BY <1>5, <1>6

-----------------------------------------------------------------------------
(* The invariant is preserved.                                             *)

(* A session row names the request that opened it, and none other.         *)
LEMMA SessionsKept ==
    ASSUME TypeInv, SessionInv, NEW r \in Request, Step(r), NEW s \in sessions'
    PROVE  /\ s.token \in Request /\ s.user \in Emails
           /\ \/ /\ s \in sessions
                 /\ req[s.token].op \in Minting
                 /\ req'[s.token].op = req[s.token].op
                 /\ req'[s.token].user = s.user /\ req[s.token].user = s.user
                 /\ req'[s.token].version = req[s.token].version
                 /\ req[s.token].version > 0
              \/ /\ s \notin sessions /\ CreateUserSession(r)
                 /\ s = [token |-> r, user |-> req[r].user, exp |-> SessionExpiry]
                 /\ req[r].op \in Minting /\ req'[r].op = req[r].op
                 /\ req'[r].user = s.user
                 /\ req'[r].version = users[s.user].version
                 /\ users' = users /\ OnRecord(s.user, users)
<1>1. sessions \subseteq SessionRow /\ sessions' \subseteq SessionRow
  BY StepType DEF TypeInv, TypeOK
<1>2. CASE s \in sessions
  <2>1. /\ s.token \in Request /\ req[s.token].op \in Minting
        /\ req[s.token].user = s.user /\ req[s.token].version > 0
    BY <1>1, <1>2 DEF SessionInv, SessionOwner, SessionRow
  <2>2. CASE s.token # r
    BY <1>1, <1>2, <2>1, <2>2, StepEffect DEF SessionRow
  <2>3. CASE s.token = r
    <3>1. ~FindUserToken(r) /\ ~UpdatePassword(r)
      BY <2>1, <2>3, Writers DEF Minting, SettingPassword
    <3>2. ~CreateUserSession(r)
      <4> SUFFICES ASSUME CreateUserSession(r) PROVE FALSE
        OBVIOUS
      <4>1. req[r].step = Opens[req[r].op]
        BY Writers
      <4>2. req[r].version = 0
        BY <2>1, <2>3, <4>1, StepEffect DEF SessionInv, Unopened, Inputs
      <4> QED  BY <2>1, <2>3, <4>2
    <3> QED  BY <1>1, <1>2, <2>1, <2>3, <3>1, <3>2, StepEffect DEF SessionRow
  <2> QED  BY <2>2, <2>3
<1>3. CASE s \notin sessions
  <2>1. CreateUserSession(r)
    BY <1>3, StepTables
  <2>2. s = [token |-> r, user |-> req[r].user, exp |-> SessionExpiry]
    BY <1>3, <2>1 DEF CreateUserSession
  <2>3. ~FindUserToken(r)
    BY <2>1, Writers DEF Minting
  <2>4. s.token = r /\ s.user = req[r].user
    BY <2>2
  <2>5. /\ req'[r].user = s.user /\ req'[r].op = req[r].op
        /\ req'[r].version = users[s.user].version /\ users' = users
        /\ OnRecord(s.user, users) /\ req[r].op \in Minting
    BY <2>1, <2>3, <2>4, StepEffect, Writers, VersionSet
  <2> QED  BY <1>1, <1>3, <2>1, <2>2, <2>4, <2>5 DEF SessionRow
<1> QED  BY <1>2, <1>3

(* Every call of a request keeps the invariant.                            *)
LEMMA SessionStep ==
    ASSUME TypeInv, SessionInv, NEW r \in Request, Step(r)
    PROVE  SessionInv'
<1> DEFINE q == req[r]
           p == req'[r]
<1>1. /\ q.status = "running" /\ Inputs(q) /\ now \in Nat /\ now' = now
      /\ req \in [Request -> RequestState] /\ req' \in [Request -> RequestState]
      /\ \A k \in Request \ {r} : req'[k] = req[k]
      /\ p.op = q.op /\ p.token = q.token
      /\ p.status \in {"running", "done"}
      /\ p.status = "running" => p.step = q.step + 1
  BY StepEffect, StepTables DEF TypeInv, TypeOK
<1>2. /\ q.op \in OpNames /\ q.step \in Nat /\ q.version \in Nat /\ p.version \in Nat
      /\ q.step \in 1..Len(Calls[q.op])
  BY <1>1 DEF RequestState, Inputs
<1>3. p.version = q.version \/ CreateUserSession(r) \/ UpdatePassword(r)
  BY StepEffect
<1>4. /\ CreateUserSession(r) => q.op \in Minting /\ q.step = Opens[q.op]
      /\ UpdatePassword(r) => q.op \in SettingPassword /\ q.step = 2
  BY Writers
<1>5. Minting \cap SettingPassword = {}
  BY DEF Minting, SettingPassword
<1>6. \A op \in Minting : Opens[op] \in 2..4
  BY DEF Minting, Opens
<1>7. Versioned'
  BY StepTables DEF SessionInv, Versioned
<1>8. Unstarted'
  BY <1>1 DEF SessionInv, Unstarted
<1>9. Unopened'
  <2> SUFFICES ASSUME p.op \in Minting, p.status = "running", p.step <= Opens[p.op]
               PROVE  p.version = 0
    BY <1>1 DEF SessionInv, Unopened
  <2>1. q.step < Opens[q.op] /\ q.op \in Minting
    BY <1>1, <1>2, <1>6
  <2>2. q.version = 0
    BY <1>1, <1>2, <1>6, <2>1 DEF SessionInv, Unopened
  <2> QED  BY <1>2, <1>3, <1>4, <1>5, <1>6, <2>1, <2>2
<1>10. Unset'
  <2> SUFFICES ASSUME p.op \in SettingPassword, p.status = "running", p.step <= 2
               PROVE  p.version = 0
    BY <1>1 DEF SessionInv, Unset
  <2>1. q.step < 2 /\ q.op \in SettingPassword
    BY <1>1, <1>2
  <2>2. q.version = 0
    BY <1>1, <1>2, <2>1 DEF SessionInv, Unset
  <2> QED  BY <1>3, <1>4, <1>5, <2>1, <2>2
<1>11. SessionOwner'
  <2> SUFFICES ASSUME NEW s \in sessions'
               PROVE  /\ req'[s.token].op \in Minting
                      /\ req'[s.token].user = s.user
                      /\ req'[s.token].version > 0
    BY DEF SessionOwner
  <2>1. CASE s \in sessions
    BY <2>1, SessionsKept
  <2>2. CASE s \notin sessions
    <3>1. s.token = r
      BY <2>2, SessionsKept
    <3>2. users[s.user].version > 0
      BY <2>2, SessionsKept DEF SessionInv, Versioned, OnRecord
    <3> QED  BY <2>2, <3>1, <3>2, SessionsKept
  <2> QED  BY <2>1, <2>2
<1>12. ASSUME NEW k \in Request, req'[k].op = "RefreshTokens"
       PROVE  /\ req[k].op = "RefreshTokens" /\ req'[k].token = req[k].token
              /\ req[k].token \in Request /\ req[k].token # r
              /\ Succeeded(req[k].token, Minting) /\ Succeeded(req[k].token, Minting)'
  <2>1. req[k].op = "RefreshTokens" /\ req'[k].token = req[k].token
    BY <1>1, <1>12
  <2>2. req[k].token \in Request /\ Succeeded(req[k].token, Minting)
    BY <2>1 DEF SessionInv, Presented
  <2>3. req[k].token # r
    BY <1>1, <2>2 DEF Succeeded
  <2> QED  BY <1>1, <2>1, <2>2, <2>3 DEF Succeeded
<1>13. Presented'
  BY <1>12 DEF Presented
<1>14. Retired'
  <2> SUFFICES ASSUME NEW k \in Request, req'[k].op = "RefreshTokens",
                      "DeleteUserSession" \notin req'[k].undone,
                      \/ req'[k].version > 0
                      \/ req'[k].status = "running" /\ req'[k].step = 4,
                      NEW s \in sessions', s.token = req'[k].token
               PROVE  FALSE
    BY DEF Retired, IsLive, Did
  <2>1. s \in sessions /\ s.token = req[k].token /\ req[k].op = "RefreshTokens"
        /\ "DeleteUserSession" \notin req[k].undone
    BY <1>1, <1>12, SessionsKept, StepEffect
  <2>2. ~ \/ req[k].version > 0
          \/ req[k].status = "running" /\ req[k].step = 4
    BY <2>1 DEF SessionInv, Retired, IsLive, Did
  <2>3. k = r
    BY <1>1, <2>2
  <2>4. ~CreateUserSession(r) /\ ~UpdatePassword(r)
    BY <1>1, <1>4, <2>1, <2>2, <2>3 DEF Opens, SettingPassword
  <2>5. q.step = 3
    BY <1>1, <1>2, <1>3, <2>2, <2>3, <2>4
  <2>6. DeleteUserSession(r)
    BY <2>1, <2>3, <2>5, Writers
  <2> QED  BY <2>1, <2>3, <2>6 DEF DeleteUserSession
<1>15. Outdated'
  <2> SUFFICES ASSUME NEW k \in Request, req'[k].op \in SettingPassword,
                      \/ req'[k].version > 0
                      \/ req'[k].status = "running" /\ req'[k].step > 1
               PROVE  /\ OnRecord(req'[k].user, users')
                      /\ req'[k].version <= users'[req'[k].user].version
    BY DEF Outdated
  <2>1. \A e : OnRecord(e, users) =>
           /\ OnRecord(e, users') /\ users'[e].version >= users[e].version
           /\ users[e].version \in Nat /\ users'[e].version \in Nat
    BY StepTables DEF OnRecord
  <2>2. CASE k # r
    <3>1. req'[k] = req[k]
      BY <1>1, <2>2
    <3>2. /\ OnRecord(req[k].user, users)
          /\ req[k].version <= users[req[k].user].version
      BY <3>1 DEF SessionInv, Outdated
    <3>3. req[k].version \in Nat
      BY <1>1 DEF RequestState
    <3> QED  BY <2>1, <3>1, <3>2, <3>3
  <2>3. CASE k = r /\ UpdatePassword(r)
    <3>1. p.user = q.user /\ OnRecord(q.user, users)
      BY <2>3, Writers, VersionSet, StepEffect
    <3>2. p.version = users'[q.user].version
      BY <2>3, VersionSet
    <3> QED  BY <1>2, <2>1, <2>3, <3>1, <3>2
  <2>4. CASE k = r /\ ~UpdatePassword(r)
    <3>1. p.version = q.version /\ q.op \in SettingPassword
      BY <1>1, <1>3, <1>4, <1>5, <2>4
    <3>2. CASE q.version > 0
      <4>1. q.step > 2
        BY <1>1, <1>2, <3>1, <3>2 DEF SessionInv, Unset
      <4>2. p.user = q.user
        BY <4>1, StepEffect, Writers
      <4>3. OnRecord(q.user, users) /\ q.version <= users[q.user].version
        BY <3>1, <3>2 DEF SessionInv, Outdated
      <4> QED  BY <1>2, <2>1, <2>4, <3>1, <4>2, <4>3
    <3>3. CASE q.version = 0
      <4>1. p.status = "running" /\ p.step > 1
        BY <2>4, <3>1, <3>3
      <4>2. Served(p, users')
        BY StepType DEF TypeInv, Shape
      <4>3. OnRecord(p.user, users')
        <5>1. p.step >= 2 /\ p.op \in SettingPassword
          BY <1>1, <1>2, <2>4, <3>1, <4>1
        <5>2. NeedsAccount(p)
          BY <5>1 DEF NeedsAccount, SettingPassword
        <5> QED  BY <4>1, <4>2, <5>2 DEF Served
      <4>4. users'[p.user].version \in Nat
        BY <4>3, StepType DEF OnRecord, TypeInv, TypeOK, UserRow
      <4> QED  BY <2>4, <3>1, <3>3, <4>3, <4>4
    <3> QED  BY <1>2, <3>2, <3>3
  <2> QED  BY <2>2, <2>3, <2>4
<1>16. OldSessionsRevoked'
  <2> SUFFICES ASSUME NEW k \in Request, Succeeded(k, SettingPassword)',
                      "DeleteAllUserSessions" \notin req'[k].undone,
                      NEW s \in sessions', s.user = req'[k].user
               PROVE  req'[s.token].version >= req'[k].version
    BY DEF OldSessionsRevoked, Did
  <2>1. CASE k = r
    <3>1. q.op \in SettingPassword /\ q.step = Len(Calls[q.op])
      BY <1>1, <2>1, StepEffect, Writers DEF Succeeded
    <3>2. DeleteAllUserSessions(r) /\ ~FindUserToken(r)
      BY <2>1, <3>1, Writers, Methods, Lengths DEF SettingPassword
    <3>3. p.user = q.user
      BY <3>2, StepEffect
    <3> QED  BY <2>1, <3>2, <3>3 DEF DeleteAllUserSessions
  <2>2. CASE k # r /\ s \in sessions
    <3>1. req'[k] = req[k] /\ Succeeded(k, SettingPassword)
      BY <1>1, <2>2 DEF Succeeded
    <3>2. req[s.token].version >= req[k].version
      BY <2>2, <3>1 DEF SessionInv, OldSessionsRevoked, Did
    <3>3. req'[s.token].version = req[s.token].version
      BY <2>2, SessionsKept
    <3> QED  BY <3>1, <3>2, <3>3
  <2>3. CASE k # r /\ s \notin sessions
    <3>1. req'[k] = req[k] /\ Succeeded(k, SettingPassword)
      BY <1>1, <2>3 DEF Succeeded
    <3>2. /\ s.token = r /\ req'[s.token].version = users[s.user].version
          /\ OnRecord(s.user, users)
      BY <2>3, SessionsKept
    <3>3. req[k].version \in Nat /\ users[s.user].version \in Nat
      BY <1>1, <3>2, StepTables DEF RequestState, OnRecord
    <3>4. req[k].version > 0 => req[k].version <= users[s.user].version
      BY <3>1 DEF SessionInv, Outdated, Succeeded
    <3> QED  BY <3>1, <3>2, <3>3, <3>4
  <2> QED  BY <2>1, <2>2, <2>3
<1>17. Minted'
  <2>1. p.exp <= now + RefreshTTL
    BY <1>1, StepEffect, ConstantsAssumption DEF SessionInv, Minted
  <2> QED  BY <1>1, <2>1 DEF SessionInv, Minted
<1>18. RowOutlivesJwt'
  <2> SUFFICES ASSUME NEW s \in sessions' PROVE s.exp >= req'[s.token].exp
    BY DEF RowOutlivesJwt
  <2>1. CASE s \in sessions /\ s.token # r
    BY <1>1, <2>1, SessionsKept DEF SessionInv, RowOutlivesJwt
  <2>2. CASE s \in sessions /\ s.token = r
    <3>1. q.op \in Minting /\ q.version > 0
      BY <2>2, SessionsKept
    <3>2. ~(q.step <= Opens[q.op])
      BY <1>1, <3>1 DEF SessionInv, Unopened
    <3>3. q.step # Len(Calls[q.op]) => Calls[q.op][q.step + 1] # "CreateUserSession"
      <4> SUFFICES ASSUME q.step # Len(Calls[q.op]),
                          Calls[q.op][q.step + 1] = "CreateUserSession"
                   PROVE  FALSE
        OBVIOUS
      <4>1. q.step + 1 \in 1..Len(Calls[q.op])
        BY <1>2, Methods, Lengths
      <4>2. q.step + 1 = Opens[q.op]
        BY <1>2, <3>1, <4>1, CallPlaces DEF Opens, Minting
      <4> QED  BY <1>2, <1>6, <3>1, <3>2, <4>2
    <3>4. p.exp = q.exp
      BY <3>3, StepEffect
    <3> QED  BY <2>2, <3>4 DEF SessionInv, RowOutlivesJwt
  <2>3. CASE s \notin sessions
    <3>1. s.token = r /\ s.exp = now + SessionTTL
      BY <2>3, SessionsKept DEF SessionExpiry
    <3>2. p.exp \in Nat /\ p.exp <= now + RefreshTTL
      BY <1>1, <1>17 DEF Minted, RequestState
    <3> QED  BY <1>1, <3>1, <3>2, TTLAssumption, ConstantsAssumption
  <2> QED  BY <2>1, <2>2, <2>3
<1> QED  BY <1>7, <1>8, <1>9, <1>10, <1>11, <1>13, <1>14, <1>15, <1>16, <1>17,
            <1>18 DEF SessionInv

(* An arrival touches no session: the request that arrives has none yet.   *)
LEMMA SessionArrival ==
    ASSUME TypeInv, SessionInv, NEW r \in Request, Arrival(r)
    PROVE  SessionInv'
<1> DEFINE p == req'[r]
<1>1. /\ req[r] = Idle /\ req[r].op = None /\ req[r].version = 0
      /\ \A k \in Request \ {r} : req'[k] = req[k]
      /\ UNCHANGED <<users, sessions, now>>
      /\ p.version = 0 /\ p.exp = 0 /\ p.status \in {"running", "done"}
      /\ p.status = "running" => p.step = 1
      /\ p.status = "done" => p.result # "ok"
      /\ p.op = "RefreshTokens" => p.token \in Issued
      /\ req[r].status = "idle"
  <2>1. req[r] = Idle
    BY ArrivalEffect DEF SessionInv, Unstarted
  <2>2. Idle.op = None /\ Idle.version = 0
    BY DEF Idle
  <2> QED  BY <2>1, <2>2, ArrivalEffect
<1>2. None \notin Minting
  BY NoneAssumption, Methods DEF Minting
<1>3. ASSUME NEW s \in sessions PROVE s.token \in Request \ {r} /\ s.token # r
  BY <1>1, <1>2 DEF SessionInv, SessionOwner, TypeInv, TypeOK, SessionRow
<1>4. ASSUME NEW t \in Request, Succeeded(t, Minting)
      PROVE  t # r /\ Succeeded(t, Minting)'
  BY <1>1, <1>4 DEF Succeeded
<1>5. Versioned' /\ Unstarted' /\ Unopened' /\ Unset'
  BY <1>1 DEF SessionInv, Versioned, Unstarted, Unopened, Unset
<1>6. SessionOwner' /\ RowOutlivesJwt'
  BY <1>1, <1>3 DEF SessionInv, SessionOwner, RowOutlivesJwt
<1>7. Presented'
  BY <1>1, <1>4 DEF SessionInv, Presented, Issued
<1>8. Retired'
  BY <1>1, <1>4 DEF SessionInv, Retired, IsLive, Did
<1>9. Outdated'
  BY <1>1 DEF SessionInv, Outdated, OnRecord
<1>10. OldSessionsRevoked'
  BY <1>1, <1>3 DEF SessionInv, OldSessionsRevoked, Succeeded, Did
<1>11. Minted'
  BY <1>1, ConstantsAssumption DEF SessionInv, Minted, TypeInv, TypeOK
<1> QED  BY <1>5, <1>6, <1>7, <1>8, <1>9, <1>10, <1>11 DEF SessionInv

(* A crash only stops requests: the tables are what they were.             *)
LEMMA SessionCrash ==
    ASSUME TypeInv, SessionInv, Crash
    PROVE  SessionInv'
<1>1. UNCHANGED <<users, sessions, now>> /\ req \in [Request -> RequestState]
  BY DEF Crash, store, TypeInv, TypeOK
<1>2. ASSUME NEW k \in Request
      PROVE  /\ req'[k].op = req[k].op /\ req'[k].user = req[k].user
             /\ req'[k].token = req[k].token /\ req'[k].version = req[k].version
             /\ req'[k].exp = req[k].exp /\ req'[k].step = req[k].step
             /\ req'[k].result = req[k].result /\ req'[k].undone = req[k].undone
             /\ \/ req'[k] = req[k]
                \/ req[k].status = "running" /\ req'[k].status = "dead"
  BY <1>1 DEF Crash, Running, RequestState
<1>3. \A k \in Request : \A ops : Succeeded(k, ops) <=> Succeeded(k, ops)'
  BY <1>2 DEF Succeeded
<1>4. \A s \in sessions : s.token \in Request
  BY DEF TypeInv, TypeOK, SessionRow
<1>5. Versioned' /\ Unstarted' /\ Unopened' /\ Unset'
  BY <1>1, <1>2 DEF SessionInv, Versioned, Unstarted, Unopened, Unset
<1>6. SessionOwner' /\ RowOutlivesJwt'
  BY <1>1, <1>2, <1>4 DEF SessionInv, SessionOwner, RowOutlivesJwt
<1>7. Presented'
  BY <1>2, <1>3 DEF SessionInv, Presented
<1>8. Retired'
  BY <1>1, <1>2 DEF SessionInv, Retired, IsLive, Did
<1>9. Outdated'
  BY <1>1, <1>2 DEF SessionInv, Outdated, OnRecord
<1>10. OldSessionsRevoked'
  BY <1>1, <1>2, <1>3, <1>4 DEF SessionInv, OldSessionsRevoked, Did
<1>11. Minted'
  BY <1>1, <1>2 DEF SessionInv, Minted
<1> QED  BY <1>5, <1>6, <1>7, <1>8, <1>9, <1>10, <1>11 DEF SessionInv

(* Deactivation touches neither versions nor sessions.                     *)
LEMMA SessionDeactivate ==
    ASSUME TypeInv, SessionInv, NEW e \in Emails, Deactivate(e)
    PROVE  SessionInv'
<1>1. /\ UNCHANGED <<sessions, req, now>>
      /\ users \in [Emails -> UserRow \cup {None}] /\ users[e] \in UserRow
  BY DEF Deactivate, mail, TypeInv, TypeOK
<1> DEFINE row == [users[e] EXCEPT !.active = FALSE]
<1>2. row \in UserRow /\ row.version = users[e].version
  BY <1>1 DEF UserRow
<1>3. users' = [users EXCEPT ![e] = row]
  BY DEF Deactivate
<1> HIDE DEF row
<1>4. \A d \in Emails : /\ users'[d] # None <=> users[d] # None
                        /\ users'[d] # None => users'[d].version = users[d].version
  BY <1>1, <1>2, <1>3, RowAssumption
<1>5. Versioned'
  BY <1>4 DEF SessionInv, Versioned
<1>6. Outdated'
  BY <1>1, <1>4 DEF SessionInv, Outdated, OnRecord
<1> QED  BY <1>1, <1>5, <1>6 DEF SessionInv, Unstarted, Unopened, Unset, SessionOwner,
            Presented, Retired, IsLive, OldSessionsRevoked, Succeeded, Minted,
            RowOutlivesJwt, Did

(* No session and no version at the start.                                 *)
LEMMA SessionInit == Init => SessionInv
<1> SUFFICES ASSUME Init PROVE SessionInv
  OBVIOUS
<1>1. /\ sessions = {} /\ now = 0 /\ \A r \in Request : req[r] = Idle
      /\ \A e \in Emails : users[e] # None => users[e].version = 1
  BY DEF Init
<1>2. /\ Idle.op = None /\ Idle.status = "idle" /\ Idle.version = 0
      /\ Idle.exp = 0
  BY DEF Idle
<1>3. None \notin OpNames
  BY NoneAssumption
<1>4. "RefreshTokens" # None /\ None \notin Minting \cup SettingPassword
  BY <1>3, Methods DEF Minting, SettingPassword
<1> QED  BY <1>1, <1>2, <1>4, ConstantsAssumption
         DEF SessionInv, Versioned, Unstarted, Unopened, Unset, SessionOwner,
             Presented, Retired, Outdated, OldSessionsRevoked, Succeeded, Minted,
             RowOutlivesJwt

(* The invariant is inductive.                                             *)
LEMMA SessionNext == TypeInv /\ SessionInv /\ [Next]_vars => SessionInv'
<1> SUFFICES ASSUME TypeInv, SessionInv, [Next]_vars PROVE SessionInv'
  OBVIOUS
<1>1. CASE \E r \in Request : Arrival(r) \/ Step(r)
  BY <1>1, SessionArrival, SessionStep
<1>2. CASE Crash \/ \E e \in Emails : Deactivate(e)
  BY <1>2, SessionCrash, SessionDeactivate
<1>3. ASSUME UNCHANGED <<users, sessions, req>>, now' = now \/ now' = now + 1
      PROVE  SessionInv'
  <2>1. Minted'
    BY <1>3, ConstantsAssumption
       DEF SessionInv, Minted, TypeInv, TypeOK, RequestState
  <2> QED  BY <1>3, <2>1 DEF SessionInv, Versioned, Unstarted, Unopened, Unset,
              SessionOwner, Presented, Retired, IsLive, Outdated, OnRecord,
              OldSessionsRevoked, Succeeded, RowOutlivesJwt, Did
<1>4. CASE \/ \E m \in Mail : SendMail(m)
           \/ Tick \/ Quiescent \/ UNCHANGED vars
  BY <1>3, <1>4 DEF SendMail, Tick, Quiescent, vars, store
<1> QED  BY <1>1, <1>2, <1>4 DEF Next

-----------------------------------------------------------------------------
(* The theorems.                                                           *)

(* Hence it always holds.                                                  *)
LEMMA SessionInvariant == Spec => [](TypeInv /\ SessionInv)
BY TypeInit, TypeNext, SessionInit, SessionNext, PTL DEF Spec

(* Every session belongs to the account its token's JWT names, and to a    *)
(* request that authenticated that account: no interleaving of logins,     *)
(* refreshes and registrations mixes two accounts up.                      *)
THEOREM SessionsOwned == Spec => []SessionOwner
<1>1. SessionInv => SessionOwner
  BY DEF SessionInv
<1> QED  BY <1>1, SessionInvariant, PTL

(* A session opened by a refresh and the session it was refreshed from are *)
(* never both live, unless its delete failed.  DeleteUserSession is first, *)
(* and nothing can insert the old token again: the request that minted it  *)
(* has been answered.                                                      *)
THEOREM RotationSafe == Spec => []RotationRetiresParent
<1>1. TypeInv /\ SessionInv => RotationRetiresParent
  <2> SUFFICES ASSUME TypeInv, SessionInv, NEW s \in sessions,
                      req[s.token].op = "RefreshTokens",
                      Did(s.token, {"DeleteUserSession"})
               PROVE  ~IsLive(req[s.token].token)
    BY DEF RotationRetiresParent
  <2>1. s.token \in Request /\ req[s.token].version > 0
    BY DEF SessionInv, SessionOwner, TypeInv, TypeOK, SessionRow
  <2> QED  BY <2>1 DEF SessionInv, Retired
<1> QED  BY <1>1, SessionInvariant, PTL

(* A successful change or reset of a password leaves no session inserted   *)
(* before the new password was stored, unless its delete of them failed.   *)
THEOREM PasswordRevokes == Spec => []OldSessionsRevoked
<1>1. SessionInv => OldSessionsRevoked
  BY DEF SessionInv
<1> QED  BY <1>1, SessionInvariant, PTL

(* A session's row lives at least as long as the JWT of its refresh token: *)
(* the JWT is stamped before the row is inserted, and for no longer.       *)
THEOREM RowsOutliveJwts == Spec => []RowOutlivesJwt
<1>1. SessionInv => RowOutlivesJwt
  BY DEF SessionInv
<1> QED  BY <1>1, SessionInvariant, PTL

-----------------------------------------------------------------------------
(* The table implements the ledger.                                        *)

(* As long as no session is opened, the ledger's books stand still.        *)
LEMMA BooksKept ==
    ASSUME \A t \in Request :
              /\ t \in Opened <=> t \in Opened'
              /\ t \in Opened => req'[t].user = req[t].user
    PROVE  Opened' = Opened /\ Owner' = Owner
<1>1. Opened' = Opened
  BY DEF Opened
<1>2. Owner' = [t \in Opened' |-> req'[t].user]
  BY DEF Owner
<1> QED  BY <1>1, <1>2 DEF Owner, Opened

(* A call opens one session, closes one, closes those of one account, or   *)
(* leaves the ledger alone.                                                *)
LEMMA LedgerStep ==
    ASSUME TypeInv, SessionInv, NEW r \in Request, Step(r)
    PROVE  \/ \E a \in Emails : Ledger!Open(r, a)
           \/ \E t \in Request : Ledger!Close(t)
           \/ \E a \in Emails : Ledger!CloseAccount(a)
           \/ Live' = Live /\ Opened' = Opened /\ Owner' = Owner
<1> DEFINE q == req[r]
           p == req'[r]
<1>1. /\ q.status = "running" /\ Inputs(q)
      /\ \A k \in Request \ {r} : req'[k] = req[k]
      /\ p.op = q.op /\ (p.user = q.user \/ FindUserToken(r))
      /\ p.version = q.version \/ CreateUserSession(r) \/ UpdatePassword(r)
  BY StepEffect
<1>2. /\ CreateUserSession(r) => q.op \in Minting /\ q.step = Opens[q.op]
      /\ UpdatePassword(r) => q.op \notin Minting
      /\ FindUserToken(r) => q.op \notin Minting
  BY Writers DEF Minting, SettingPassword
<1>3. CASE CreateUserSession(r)
  <2>1. r \notin Opened
    BY <1>1, <1>2, <1>3 DEF SessionInv, Unopened, Opened, Opens, Minting
  <2>2. q.user \in Emails /\ p.user = q.user /\ p.version > 0
    <3>1. OnRecord(q.user, users) /\ p.version = users[q.user].version
      BY <1>3, VersionSet
    <3> QED  BY <1>1, <1>2, <1>3, <3>1 DEF OnRecord, SessionInv, Versioned
  <2>3. Opened' = Opened \cup {r}
    BY <1>1, <1>2, <1>3, <2>2 DEF Opened
  <2>4. Live' = Live \cup {r}
    <3> DEFINE row == [token |-> r, user |-> q.user, exp |-> SessionExpiry]
    <3>1. sessions' = sessions \cup {row} /\ row.token = r
      BY <1>3 DEF CreateUserSession
    <3> HIDE DEF row
    <3> QED  BY <3>1 DEF Live
  <2>5. Owner' = [s \in Opened \cup {r} |-> IF s = r THEN q.user ELSE Owner[s]]
    <3>1. Owner' = [s \in Opened \cup {r} |-> req'[s].user]
      BY <2>3 DEF Owner
    <3>2. \A s \in Opened \cup {r} :
             req'[s].user = IF s = r THEN q.user ELSE Owner[s]
      BY <1>1, <2>1, <2>2 DEF Owner, Opened
    <3> QED  BY <3>1, <3>2
  <2>6. Ledger!Open(r, q.user)
    BY <2>1, <2>3, <2>4, <2>5 DEF Ledger!Open
  <2> QED  BY <2>2, <2>6
<1>4. CASE ~CreateUserSession(r)
  <2>1. Opened' = Opened /\ Owner' = Owner
    BY <1>1, <1>2, <1>4, BooksKept DEF Opened
  <2>2. CASE DeleteUserSession(r)
    <3>1. Live' = Live \ {q.token}
      BY <2>2 DEF DeleteUserSession, Live
    <3>2. Live \subseteq Request
      BY DEF Live, TypeInv, TypeOK, SessionRow
    <3>3. q.token \in Live => Ledger!Close(q.token)
      BY <2>1, <3>1 DEF Ledger!Close
    <3> QED  BY <2>1, <3>1, <3>2, <3>3
  <2>3. CASE DeleteAllUserSessions(r)
    <3>1. \A s \in sessions : s.token \in Opened /\ Owner[s.token] = s.user
      BY DEF SessionInv, SessionOwner, Opened, Owner, TypeInv, TypeOK, SessionRow
    <3>2. Live' = {t \in Live : Owner[t] # q.user}
      BY <2>3, <3>1 DEF DeleteAllUserSessions, Live
    <3>3. Ledger!CloseAccount(q.user)
      BY <2>1, <3>2 DEF Ledger!CloseAccount
    <3>4. q.user \in Emails
      <4>1. NeedsAccount(q)
        BY <1>1, <2>3, CallPlaces
           DEF DeleteAllUserSessions, At, Call, Inputs, NeedsAccount
      <4> QED  BY <4>1, StepEffect DEF OnRecord
    <3> QED  BY <3>3, <3>4
  <2>4. CASE ~DeleteUserSession(r) /\ ~DeleteAllUserSessions(r)
    <3>1. sessions' = sessions
      BY <1>4, <2>4
         DEF Step, Reads, store, RegisterLookup, LoginLookup, MailLookup,
             RefreshFindSession, RefreshGetUser, ChangeGetUser, VerifyGetUser,
             FindUserToken, CreateUser, CreateUserToken, Emit, UpdateLastLogin,
             DeleteUserToken, UpdatePassword, MarkVerified, StoreError
    <3> QED  BY <2>1, <3>1 DEF Live
  <2> QED  BY <2>2, <2>3, <2>4
<1> QED  BY <1>3, <1>4

(* Every step of the system is a step of the ledger or leaves it alone.    *)
LEMMA LedgerNext ==
    TypeInv /\ SessionInv /\ [Next]_vars
    => [Ledger!LedgerNext]_<<Opened, Live, Owner>>
<1> SUFFICES ASSUME TypeInv, SessionInv, [Next]_vars
             PROVE  [Ledger!LedgerNext]_<<Opened, Live, Owner>>
  OBVIOUS
<1>1. ASSUME NEW r \in Request, Step(r)
      PROVE  [Ledger!LedgerNext]_<<Opened, Live, Owner>>
  BY <1>1, LedgerStep DEF Ledger!LedgerNext
<1>2. ASSUME UNCHANGED sessions,
             \A t \in Request :
                /\ t \in Opened <=> t \in Opened'
                /\ t \in Opened => req'[t].user = req[t].user
      PROVE  UNCHANGED <<Opened, Live, Owner>>
  BY <1>2, BooksKept DEF Live
<1>3. ASSUME NEW r \in Request, Arrival(r)
      PROVE  UNCHANGED <<Opened, Live, Owner>>
  <2>1. /\ req[r].status = "idle" /\ req'[r].version = 0 /\ UNCHANGED sessions
        /\ \A k \in Request \ {r} : req'[k] = req[k]
    BY <1>3, ArrivalEffect
  <2>2. req[r].version = 0
    BY <2>1 DEF SessionInv, Unstarted, Idle
  <2> QED  BY <1>2, <2>1, <2>2 DEF Opened
<1>4. CASE Crash
  <2>1. ASSUME NEW k \in Request
        PROVE  /\ req'[k].op = req[k].op /\ req'[k].user = req[k].user
               /\ req'[k].version = req[k].version
    BY <1>4 DEF Crash, RequestState, TypeInv, TypeOK
  <2> QED  BY <1>2, <1>4, <2>1 DEF Crash, store, Opened
<1>5. CASE \/ \E m \in Mail : SendMail(m)
           \/ \E e \in Emails : Deactivate(e)
           \/ Tick \/ Quiescent \/ UNCHANGED vars
  <2>1. UNCHANGED <<sessions, req>>
    BY <1>5 DEF SendMail, Deactivate, Tick, Quiescent, vars, store
  <2> QED  BY <1>2, <2>1 DEF Opened
<1> QED  BY <1>1, <1>3, <1>4, <1>5 DEF Next

(* The sessions of the service implement the ledger, for any number of     *)
(* requests and under every fault: a refresh token opens at most one       *)
(* session, and a closed session stays closed.                             *)
THEOREM LedgerImplemented == Spec => LedgerSpec
<1>1. Init => Ledger!LedgerInit
  <2> SUFFICES ASSUME Init PROVE Ledger!LedgerInit
    OBVIOUS
  <2>1. Opened = {}
    BY DEF Init, Idle, Opened
  <2>2. Live = {}
    BY DEF Init, Live
  <2>3. Owner = [t \in {} |-> t]
    BY <2>1 DEF Owner
  <2> QED  BY <2>1, <2>2, <2>3 DEF Ledger!LedgerInit
<1> QED  BY <1>1, SessionInvariant, LedgerNext, PTL
         DEF Spec, LedgerSpec, Ledger!LedgerSpec
=============================================================================

--------------------------- MODULE AuthServiceProofs ---------------------------
(***************************************************************************)
(* What AuthService guarantees for every set of requests, accounts and     *)
(* passwords, proved.  The inductive invariant comes in parts: the types,  *)
(* what a request knows at each point of its method (Shape), and then one  *)
(* part per safety property.                                               *)
(***************************************************************************)
EXTENDS AuthService, TLAPS

-----------------------------------------------------------------------------
(* The methods' calls, tabulated for the provers.                          *)

(* The nine methods and how many calls each makes.                         *)
LEMMA Methods ==
    /\ OpNames = {"Register", "Login", "Logout", "RefreshTokens",
                  "RequestPasswordReset", "ResetPassword", "ChangePassword",
                  "VerifyEmail", "ResendVerificationEmail"}
    /\ Calls["Register"] = RegisterUser /\ Calls["Login"] = Login
    /\ Calls["Logout"] = Logout /\ Calls["RefreshTokens"] = RefreshTokens
    /\ Calls["RequestPasswordReset"] = RequestPasswordReset
    /\ Calls["ResetPassword"] = ResetPassword
    /\ Calls["ChangePassword"] = ChangePassword
    /\ Calls["VerifyEmail"] = VerifyEmail
    /\ Calls["ResendVerificationEmail"] = ResendVerificationEmail
BY DEF OpNames, Calls

(* How many calls each method makes.                                       *)
LEMMA Lengths ==
    /\ Len(RegisterUser) = 5 /\ Len(Login) = 3 /\ Len(Logout) = 1
    /\ Len(RefreshTokens) = 4 /\ Len(RequestPasswordReset) = 2
    /\ Len(ResetPassword) = 4 /\ Len(ChangePassword) = 3
    /\ Len(VerifyEmail) = 4 /\ Len(ResendVerificationEmail) = 2
BY DEF RegisterUser, Login, Logout, RefreshTokens, RequestPasswordReset,
       ResetPassword, ChangePassword, VerifyEmail, ResendVerificationEmail

(* Where each call stands in the methods that make it.                     *)
LEMMA CallPlaces ==
    ASSUME NEW op \in OpNames, NEW i \in 1..Len(Calls[op])
    PROVE  /\ i \in 1..5
           /\ Calls[op][i] = "CreateUser" => op = "Register" /\ i = 2
           /\ Calls[op][i] = "CreateUserSession" =>
                \/ op = "Register" /\ i = 3
                \/ op = "Login" /\ i = 2
                \/ op = "RefreshTokens" /\ i = 4
           /\ Calls[op][i] = "CreateUserToken" =>
                \/ op = "Register" /\ i = 4
                \/ op \in {"RequestPasswordReset", "ResendVerificationEmail"} /\ i = 2
           /\ Calls[op][i] = "Emit" => op = "Register" /\ i = 5
           /\ Calls[op][i] = "UpdateLastLogin" => op = "Login" /\ i = 3
           /\ Calls[op][i] = "DeleteUserSession" =>
                \/ op = "Logout" /\ i = 1
                \/ op = "RefreshTokens" /\ i = 3
           /\ Calls[op][i] = "DeleteAllUserSessions" =>
                \/ op = "ResetPassword" /\ i = 4
                \/ op = "ChangePassword" /\ i = 3
           /\ Calls[op][i] = "DeleteUserToken" =>
                op \in {"ResetPassword", "VerifyEmail"} /\ i = 3
           /\ Calls[op][i] = "UpdatePassword" =>
                op \in {"ResetPassword", "ChangePassword"} /\ i = 2
           /\ Calls[op][i] = "VerifyEmail" => op = "VerifyEmail" /\ i = 2
           /\ Calls[op][i] = "GetUserByID" =>
                \/ op = "RefreshTokens" /\ i = 2
                \/ op = "ChangePassword" /\ i = 1
                \/ op = "VerifyEmail" /\ i = 4
           /\ Calls[op][i] = "GetUserByEmail" => i = 1
           /\ Calls[op][i] = "GetUserTokenByHash" => i = 1
           /\ Calls[op][i] = "GetUserSessionByToken" => op = "RefreshTokens" /\ i = 1
<1>1. CASE op = "Register"
  BY <1>1, Methods, Lengths DEF RegisterUser
<1>2. CASE op = "Login"
  BY <1>2, Methods, Lengths DEF Login
<1>3. CASE op = "Logout"
  BY <1>3, Methods, Lengths DEF Logout
<1>4. CASE op = "RefreshTokens"
  BY <1>4, Methods, Lengths DEF RefreshTokens
<1>5. CASE op = "RequestPasswordReset"
  BY <1>5, Methods, Lengths DEF RequestPasswordReset
<1>6. CASE op = "ResetPassword"
  BY <1>6, Methods, Lengths DEF ResetPassword
<1>7. CASE op = "ChangePassword"
  BY <1>7, Methods, Lengths DEF ChangePassword
<1>8. CASE op = "VerifyEmail"
  BY <1>8, Methods, Lengths DEF VerifyEmail
<1>9. CASE op = "ResendVerificationEmail"
  BY <1>9, Methods, Lengths DEF ResendVerificationEmail
<1> QED  BY <1>1, <1>2, <1>3, <1>4, <1>5, <1>6, <1>7, <1>8, <1>9, Methods
-----------------------------------------------------------------------------
(* What a request knows while it is served.                                *)

ByToken == {"Logout", "ResetPassword", "VerifyEmail"}
Presenting == {"Register", "ResetPassword", "ChangePassword"}

(* The account of the request is on record by now.                         *)
NeedsAccount(q) ==
    \/ q.op = "Register" /\ q.step >= 3
    \/ q.op \in {"Login", "RequestPasswordReset", "ResendVerificationEmail",
                 "ResetPassword", "VerifyEmail"} /\ q.step >= 2
    \/ q.op \in {"RefreshTokens", "ChangePassword"}

OnRecord(e, us) == e \in Emails /\ us[e] # None

Inputs(q) ==
    /\ q.op \in OpNames /\ q.step \in 1..Len(Calls[q.op])
    /\ q.op \notin ByToken => q.user \in Emails
    /\ q.op = "Register" => q.username \in Usernames
    /\ q.op \in Presenting => q.password \in Passwords

Served(q, us) ==
    q.status = "running" => /\ Inputs(q)
                            /\ NeedsAccount(q) => OnRecord(q.user, us)
Satisfied(q, us) ==
    q.status = "done" /\ q.result = "ok" /\ q.op \in Minting
    => OnRecord(q.user, us)

Shape ==
    /\ \A r \in Request : Served(req[r], users) /\ Satisfied(req[r], users)
    /\ \A t \in tokens : OnRecord(t.user, users)
    /\ \A e \in Existing : OnRecord(e, users)

TypeInv == TypeOK /\ Shape

(* An answer keeps the types.                                              *)
LEMMA AnswerType ==
    ASSUME NEW q \in RequestState, NEW x \in Results
    PROVE  Answer(q, x) \in RequestState
BY DEF Answer, RequestState

(* An answered request needs nothing more, and a minting one that succeeds *)
(* keeps its account.                                                      *)
LEMMA AnswerShape ==
    ASSUME NEW q \in RequestState, NEW x \in Results, NEW us,
           x # "ok" \/ q.op \notin Minting \/ OnRecord(q.user, us)
    PROVE  Served(Answer(q, x), us) /\ Satisfied(Answer(q, x), us)
BY DEF Answer, RequestState, Served, Satisfied

(* Going on to the next call keeps the types, and the shape once the       *)
(* account is on record.                                                   *)
LEMMA AdvanceShape ==
    ASSUME NEW q \in RequestState, NEW us, now \in Nat,
           q.status = "running", Inputs(q),
           \/ OnRecord(q.user, us)
           \/ q.op = "Logout"
           \/ q.op = "Register" /\ q.step = 1
    PROVE  /\ Advance(q) \in RequestState
           /\ Served(Advance(q), us) /\ Satisfied(Advance(q), us)
<1>1. Len(Calls[q.op]) \in 1..5
  BY Methods, Lengths DEF Inputs
<1>2. CASE q.step = Len(Calls[q.op])
  <2>1. Advance(q) = Answer(q, "ok")
    BY <1>2 DEF Advance
  <2>2. q.op \notin Minting \/ OnRecord(q.user, us)
    <3>1. CASE q.op = "Register" /\ q.step = 1
      <4>1. Len(Calls[q.op]) = 5
        BY <3>1, Methods, Lengths
      <4> QED  BY <1>2, <3>1, <4>1
    <3> QED  BY <3>1 DEF Minting
  <2> QED  BY <2>1, <2>2, AnswerType, AnswerShape DEF Results
<1>3. CASE q.step # Len(Calls[q.op])
  <2> DEFINE x == IF Calls[q.op][q.step + 1] = "CreateUserSession"
                  THEN now + RefreshTTL ELSE q.exp
             n == [q EXCEPT !.step = q.step + 1, !.exp = x]
  <2>1. Advance(q) = n
    BY <1>3 DEF Advance, RequestState
  <2>2. x \in Nat
    BY ConstantsAssumption DEF RequestState
  <2> HIDE DEF x
  <2>3. n \in RequestState
    <3>1. [q EXCEPT !.step = q.step + 1] \in RequestState
      <4>1. q.step + 1 \in Nat
        BY DEF RequestState
      <4> HIDE DEF n
      <4> DEFINE i == q.step + 1
      <4>2. i \in Nat
        BY <4>1
      <4> HIDE DEF i
      <4>3. [q EXCEPT !.step = i] \in RequestState
        BY <4>2 DEF RequestState
      <4> QED  BY <4>3 DEF i
    <3> DEFINE m == [q EXCEPT !.step = q.step + 1]
    <3>2. m \in RequestState
      BY <3>1
    <3>3. n = [m EXCEPT !.exp = x]
      OBVIOUS
    <3> HIDE DEF m, n
    <3> QED  BY <2>2, <3>2, <3>3 DEF RequestState
  <2>4. /\ n.status = "running" /\ n.op = q.op /\ n.user = q.user
        /\ n.username = q.username /\ n.password = q.password
        /\ n.token = q.token /\ n.step = q.step + 1
    BY DEF RequestState
  <2>5. Inputs(n)
    BY <1>1, <1>3, <2>4 DEF Inputs
  <2>6. NeedsAccount(n) => OnRecord(n.user, us)
    BY <1>3, <2>4, Methods, Lengths DEF NeedsAccount
  <2> QED  BY <2>1, <2>3, <2>4, <2>5, <2>6 DEF Served, Satisfied
<1> QED  BY <1>2, <1>3

(* So does a call that failed: where the error is dropped, the account is  *)
(* on record already.                                                      *)
LEMMA FailShape ==
    ASSUME NEW q \in RequestState, NEW us, now \in Nat,
           q.status = "running", Inputs(q), NeedsAccount(q) => OnRecord(q.user, us)
    PROVE  /\ Fail(q) \in RequestState
           /\ Served(Fail(q), us) /\ Satisfied(Fail(q), us)
<1>1. CASE <<q.op, Call(q)>> \in Tolerated
  <2>1. q.op # "RefreshTokens" =>
          \/ q.op = "Register" /\ Call(q) = "Emit"
          \/ q.op = "Login" /\ Call(q) = "UpdateLastLogin"
          \/ /\ q.op \in {"ResetPassword", "ChangePassword", "VerifyEmail"}
             /\ Call(q) \in {"DeleteUserToken", "DeleteAllUserSessions", "GetUserByID"}
    BY <1>1 DEF Tolerated
  <2>2. NeedsAccount(q)
    BY <2>1, CallPlaces DEF Call, Inputs, NeedsAccount
  <2> QED  BY <1>1, <2>2, AdvanceShape DEF Fail
<1>2. CASE <<q.op, Call(q)>> \notin Tolerated
  BY <1>2, AnswerType, AnswerShape DEF Fail, Results
<1> QED  BY <1>1, <1>2
-----------------------------------------------------------------------------
(* Type correctness.                                                       *)

(* One request moves, the others stay; accounts stay on record.            *)
LEMMA MoveShape ==
    ASSUME TypeInv, NEW r \in Request, NEW q \in RequestState, Becomes(r, q),
           Served(q, users'), Satisfied(q, users'),
           \A e \in Emails : users[e] # None => users'[e] # None,
           \A t \in tokens' : OnRecord(t.user, users')
    PROVE  req' \in [Request -> RequestState] /\ Shape'
<1>1. req' = [req EXCEPT ![r] = q]
  BY DEF Becomes
<1>2. req \in [Request -> RequestState]
  BY DEF TypeInv, TypeOK
<1>3. ASSUME NEW p \in Request
      PROVE  Served(req'[p], users') /\ Satisfied(req'[p], users')
  <2>1. CASE p = r
    BY <1>1, <1>2, <2>1
  <2>2. CASE p # r
    <3>1. req'[p] = req[p]
      BY <1>1, <1>2, <2>2
    <3>2. Served(req[p], users) /\ Satisfied(req[p], users)
      BY DEF TypeInv, Shape
    <3>3. \A e : OnRecord(e, users) => OnRecord(e, users')
      BY DEF OnRecord
    <3> QED  BY <3>1, <3>2, <3>3 DEF Served, Satisfied
  <2> QED  BY <2>1, <2>2
<1>4. \A e \in Existing : OnRecord(e, users')
  BY ConstantsAssumption DEF TypeInv, Shape, OnRecord
<1> QED  BY <1>1, <1>2, <1>3, <1>4 DEF Shape

(* The types hold at the start.                                            *)
LEMMA TypeInit == Init => TypeInv
<1> SUFFICES ASSUME Init PROVE TypeInv
  OBVIOUS
<1>1. Idle \in RequestState
  BY DEF Idle, RequestState
<1>2. users \in [Emails -> UserRow \cup {None}]
  BY ConstantsAssumption DEF Init, UserRow
<1>3. TypeOK
  BY <1>1, <1>2 DEF Init, TypeOK
<1>4. ASSUME NEW e \in Existing PROVE OnRecord(e, users)
  <2>1. e \in Emails /\ users[e] \in UserRow
    BY ConstantsAssumption DEF Init, UserRow
  <2> QED  BY <2>1, RowAssumption DEF OnRecord
<1>5. \A r \in Request : Served(req[r], users) /\ Satisfied(req[r], users)
  BY DEF Init, Idle, Served, Satisfied
<1>6. Shape
  BY <1>4, <1>5 DEF Init, Shape
<1> QED  BY <1>3, <1>6 DEF TypeInv

(* An arrival: a request that was idle runs its first call or is refused.  *)
LEMMA ArrivalType ==
    ASSUME TypeInv, NEW r \in Request, Arrival(r)
    PROVE  TypeInv'
<1> USE DEF TypeInv
<1>1. req \in [Request -> RequestState] /\ TypeOK
  BY DEF TypeOK
<1>2. ASSUME NEW op \in OpNames, NEW q \in RequestState, Arrive(r, op, q),
             q.status = "running" => q.step = 1,
             q.status = "running" => Inputs([q EXCEPT !.op = op]),
             q.status = "running" /\ op \in {"RefreshTokens", "ChangePassword"}
               => OnRecord(q.user, users),
             q.status # "done" \/ q.result # "ok"
      PROVE  TypeInv'
  <2> DEFINE n == [q EXCEPT !.op = op]
  <2>1. n \in RequestState /\ n.op = op /\ n.status = q.status /\ n.step = q.step
        /\ n.result = q.result /\ n.user = q.user
    BY DEF RequestState
  <2>2. Served(n, users) /\ Satisfied(n, users)
    BY <1>2, <2>1 DEF Served, Satisfied, NeedsAccount
  <2>3. Becomes(r, n) /\ UNCHANGED <<store, mail, now>>
    BY <1>2 DEF Arrive
  <2> HIDE DEF n
  <2>4. req' \in [Request -> RequestState] /\ Shape'
    BY <2>1, <2>2, <2>3, MoveShape DEF Shape, store
  <2> QED  BY <1>1, <2>3, <2>4 DEF TypeOK, store, mail
<1>3. /\ Started \in RequestState /\ Started.status = "running"
      /\ Started.step = 1
  BY DEF Started, Idle, RequestState
<1>4. ASSUME NEW x \in Results
      PROVE  /\ Refused(x) \in RequestState
             /\ Refused(x).status = "done" /\ Refused(x).result = x
  BY DEF Refused, Answer, Idle, RequestState
<1>5. ASSUME NEW t \in Issued
      PROVE  t \in Request /\ OnRecord(req[t].user, users)
  BY DEF Issued, Succeeded, Shape, Satisfied
<1>6. \A t \in Mailed : t \in Request \cup {None}
  BY <1>1 DEF TypeOK, Mailed, Mail
<1>7. /\ 1 \in 1..Len(Calls["Register"]) /\ 1 \in 1..Len(Calls["Login"])
      /\ 1 \in 1..Len(Calls["Logout"]) /\ 1 \in 1..Len(Calls["RefreshTokens"])
      /\ 1 \in 1..Len(Calls["RequestPasswordReset"])
      /\ 1 \in 1..Len(Calls["ResetPassword"])
      /\ 1 \in 1..Len(Calls["ChangePassword"])
      /\ 1 \in 1..Len(Calls["VerifyEmail"])
      /\ 1 \in 1..Len(Calls["ResendVerificationEmail"])
  BY Methods, Lengths
<1>8. CASE BeginRegister(r)
  <2>1. PICK e \in Emails, n \in Usernames, p \in Passwords :
          \/ Arrive(r, "Register", Refused("weakPassword"))
          \/ Arrive(r, "Register", [Started EXCEPT !.user = e, !.username = n,
                                                   !.password = p])
    BY <1>8 DEF BeginRegister
  <2>2. CASE Arrive(r, "Register", Refused("weakPassword"))
    BY <1>2, <1>4, <2>2, Methods DEF Results
  <2>3. CASE Arrive(r, "Register", [Started EXCEPT !.user = e, !.username = n,
                                                   !.password = p])
    <3> DEFINE q == [Started EXCEPT !.user = e, !.username = n, !.password = p]
    <3>1. q \in RequestState /\ q.status = "running" /\ q.step = 1
      BY <1>3 DEF RequestState
    <3>2. Inputs([q EXCEPT !.op = "Register"])
      BY <1>3, <1>7, Methods DEF Inputs, RequestState, ByToken
    <3> QED  BY <1>2, <2>3, <3>1, <3>2, Methods
  <2> QED  BY <2>1, <2>2, <2>3
<1>9. CASE BeginLogin(r)
  <2>1. PICK e \in Emails, p \in Passwords :
          Arrive(r, "Login", [Started EXCEPT !.user = e, !.password = p, !.void = Deactivated(e)])
    BY <1>9 DEF BeginLogin
  <2> DEFINE v == Deactivated(e)
             q == [Started EXCEPT !.user = e, !.password = p, !.void = v]
  <2>2. v \in BOOLEAN
    BY DEF Deactivated
  <2> HIDE DEF v
  <2>3. q \in RequestState /\ q.status = "running" /\ q.step = 1
    BY <1>3, <2>2 DEF RequestState
  <2>4. Inputs([q EXCEPT !.op = "Login"])
    BY <1>3, <1>7, Methods DEF Inputs, RequestState, ByToken, Presenting
  <2> QED  BY <1>2, <2>1, <2>3, <2>4, Methods DEF v
<1>10. CASE BeginLogout(r)
  <2>1. PICK t \in Issued : Arrive(r, "Logout", [Started EXCEPT !.token = t])
    BY <1>10 DEF BeginLogout
  <2> DEFINE q == [Started EXCEPT !.token = t]
  <2>2. q \in RequestState /\ q.status = "running" /\ q.step = 1
    BY <1>1, <1>3, <1>5 DEF RequestState, TypeOK
  <2>3. Inputs([q EXCEPT !.op = "Logout"])
    BY <1>3, <1>7, <1>5, Methods DEF Inputs, RequestState, ByToken, Presenting
  <2> QED  BY <1>2, <2>1, <2>2, <2>3, Methods
<1>11. CASE BeginRefreshTokens(r)
  <2>1. PICK t \in Issued :
          \/ Arrive(r, "RefreshTokens", [Refused("internal") EXCEPT !.token = t])
          \/ Arrive(r, "RefreshTokens",
                    [Started EXCEPT !.token = t, !.user = req[t].user,
                                    !.cred = req[t].cred,
                                    !.void = \/ Spent(t, {"RefreshTokens", "Logout"})
                                             \/ Deactivated(req[t].user)])
    BY <1>11 DEF BeginRefreshTokens
  <2>2. CASE Arrive(r, "RefreshTokens", [Refused("internal") EXCEPT !.token = t])
    <3> DEFINE q == [Refused("internal") EXCEPT !.token = t]
    <3>1. q \in RequestState /\ q.status = "done" /\ q.result = "internal"
      BY <1>4, <1>5 DEF RequestState, Results
    <3> QED  BY <1>2, <2>2, <3>1, Methods
  <2>3. CASE Arrive(r, "RefreshTokens",
                    [Started EXCEPT !.token = t, !.user = req[t].user,
                                    !.cred = req[t].cred,
                                    !.void = \/ Spent(t, {"RefreshTokens", "Logout"})
                                             \/ Deactivated(req[t].user)])
    <3> DEFINE v == \/ Spent(t, {"RefreshTokens", "Logout"})
                    \/ Deactivated(req[t].user)
               c == req[t].cred
               e == req[t].user
               q == [Started EXCEPT !.token = t, !.user = e, !.cred = c, !.void = v]
    <3>1. v \in BOOLEAN /\ c \in Nat /\ e \in Emails /\ OnRecord(e, users)
      BY <1>1, <1>5 DEF Spent, Deactivated, OnRecord, RequestState
    <3>2. Arrive(r, "RefreshTokens", q)
      BY <2>3
    <3> HIDE DEF v, c, e
    <3>3. q \in RequestState /\ q.status = "running" /\ q.step = 1 /\ q.user = e
      BY <1>3, <1>5, <3>1 DEF RequestState
    <3>4. Inputs([q EXCEPT !.op = "RefreshTokens"])
      BY <1>3, <1>7, <3>1, Methods DEF Inputs, RequestState, ByToken, Presenting
    <3> QED  BY <1>2, <3>1, <3>2, <3>3, <3>4, Methods
  <2> QED  BY <2>1, <2>2, <2>3
<1>12. CASE BeginRequestPasswordReset(r)
  <2>1. PICK e \in Emails : Arrive(r, "RequestPasswordReset", [Started EXCEPT !.user = e])
    BY <1>12 DEF BeginRequestPasswordReset
  <2> DEFINE q == [Started EXCEPT !.user = e]
  <2>2. q \in RequestState /\ q.status = "running" /\ q.step = 1
    BY <1>1, <1>3 DEF RequestState, TypeOK
  <2>3. Inputs([q EXCEPT !.op = "RequestPasswordReset"])
    BY <1>3, <1>7, Methods DEF Inputs, RequestState, ByToken, Presenting
  <2> QED  BY <1>2, <2>1, <2>2, <2>3, Methods
<1>13. CASE BeginResetPassword(r)
  <2>1. PICK t \in Mailed, p \in Passwords :
          \/ Arrive(r, "ResetPassword", Refused("weakPassword"))
          \/ Arrive(r, "ResetPassword",
                    [Started EXCEPT !.token = t, !.password = p,
                                    !.void = Spent(t, {"ResetPassword"})])
    BY <1>13 DEF BeginResetPassword
  <2>2. CASE Arrive(r, "ResetPassword", Refused("weakPassword"))
    BY <1>2, <1>4, <2>2, Methods DEF Results
  <2>3. CASE Arrive(r, "ResetPassword",
                    [Started EXCEPT !.token = t, !.password = p,
                                    !.void = Spent(t, {"ResetPassword"})])
    <3> DEFINE v == Spent(t, {"ResetPassword"})
               q == [Started EXCEPT !.token = t, !.password = p, !.void = v]
    <3>1. v \in BOOLEAN
      BY DEF Spent
    <3> HIDE DEF v
    <3>2. q \in RequestState /\ q.status = "running" /\ q.step = 1
      BY <1>3, <1>6, <3>1 DEF RequestState
    <3>3. Inputs([q EXCEPT !.op = "ResetPassword"])
      BY <1>3, <1>7, Methods DEF Inputs, RequestState, ByToken, Presenting
    <3> QED  BY <1>2, <2>3, <3>2, <3>3, Methods DEF v
  <2> QED  BY <2>1, <2>2, <2>3
<1>14. CASE BeginChangePassword(r)
  <2>1. PICK e \in Authenticated, c \in Passwords, p \in Passwords :
          Arrive(r, "ChangePassword",
                 [Started EXCEPT !.user = e, !.current = c, !.password = p])
    BY <1>14 DEF BeginChangePassword
  <2> DEFINE q == [Started EXCEPT !.user = e, !.current = c, !.password = p]
  <2>2. OnRecord(e, users)
    BY <1>5 DEF Authenticated, Shape
  <2>3. q \in RequestState /\ q.status = "running" /\ q.step = 1 /\ q.user = e
    BY <1>3, <2>2 DEF RequestState, OnRecord
  <2>4. Inputs([q EXCEPT !.op = "ChangePassword"])
    BY <1>3, <1>7, <2>2, Methods DEF Inputs, RequestState, ByToken, Presenting, OnRecord
  <2> QED  BY <1>2, <2>1, <2>2, <2>3, <2>4, Methods
<1>15. CASE BeginVerifyEmail(r)
  <2>1. PICK t \in Mailed :
          Arrive(r, "VerifyEmail", [Started EXCEPT !.token = t, !.void = Spent(t, {"VerifyEmail"})])
    BY <1>15 DEF BeginVerifyEmail
  <2> DEFINE v == Spent(t, {"VerifyEmail"})
             q == [Started EXCEPT !.token = t, !.void = v]
  <2>2. v \in BOOLEAN
    BY DEF Spent
  <2> HIDE DEF v
  <2>3. q \in RequestState /\ q.status = "running" /\ q.step = 1
    BY <1>3, <1>6, <2>2 DEF RequestState
  <2>4. Inputs([q EXCEPT !.op = "VerifyEmail"])
    BY <1>3, <1>7, Methods DEF Inputs, RequestState, ByToken, Presenting
  <2> QED  BY <1>2, <2>1, <2>3, <2>4, Methods DEF v
<1>16. CASE BeginResendVerificationEmail(r)
  <2>1. PICK e \in Emails : Arrive(r, "ResendVerificationEmail", [Started EXCEPT !.user = e])
    BY <1>16 DEF BeginResendVerificationEmail
  <2> DEFINE q == [Started EXCEPT !.user = e]
  <2>2. q \in RequestState /\ q.status = "running" /\ q.step = 1
    BY <1>1, <1>3 DEF RequestState, TypeOK
  <2>3. Inputs([q EXCEPT !.op = "ResendVerificationEmail"])
    BY <1>3, <1>7, Methods DEF Inputs, RequestState, ByToken, Presenting
  <2> QED  BY <1>2, <2>1, <2>2, <2>3, Methods
<1> QED  BY <1>8, <1>9, <1>10, <1>11, <1>12, <1>13, <1>14, <1>15, <1>16 DEF Arrival

(* A request being served has what its next call needs.                    *)
LEMMA RunningShape ==
    ASSUME TypeInv, NEW r \in Request, Running(r)
    PROVE  /\ req[r] \in RequestState /\ req[r].status = "running"
           /\ Inputs(req[r])
           /\ NeedsAccount(req[r]) => OnRecord(req[r].user, users)
           /\ now \in Nat
BY DEF TypeInv, TypeOK, Shape, Served, Running

(* The three ways a request moves, lifted from the request to the state.   *)
LEMMA AnswerMove ==
    ASSUME TypeInv, NEW r \in Request, Running(r), NEW x \in Results,
           x # "ok" \/ req[r].op \notin Minting \/ OnRecord(req[r].user, users),
           Becomes(r, Answer(req[r], x)),
           \A e \in Emails : users[e] # None => users'[e] # None,
           \A t \in tokens' : OnRecord(t.user, users')
    PROVE  req' \in [Request -> RequestState] /\ Shape'
<1>1. req[r] \in RequestState
  BY RunningShape
<1>2. x # "ok" \/ req[r].op \notin Minting \/ OnRecord(req[r].user, users')
  BY DEF OnRecord
<1>3. /\ Answer(req[r], x) \in RequestState
      /\ Served(Answer(req[r], x), users') /\ Satisfied(Answer(req[r], x), users')
  BY <1>1, <1>2, AnswerType, AnswerShape
<1> QED  BY <1>3, MoveShape

(* A request that goes on.                                                 *)
LEMMA AdvanceMove ==
    ASSUME TypeInv, NEW r \in Request, NEW q \in RequestState,
           q.status = "running", Inputs(q), Becomes(r, Advance(q)),
           \/ OnRecord(q.user, users')
           \/ q.op = "Logout"
           \/ q.op = "Register" /\ q.step = 1,
           \A e \in Emails : users[e] # None => users'[e] # None,
           \A t \in tokens' : OnRecord(t.user, users')
    PROVE  req' \in [Request -> RequestState] /\ Shape'
<1>1. now \in Nat
  BY DEF TypeInv, TypeOK
<1>2. /\ Advance(q) \in RequestState
      /\ Served(Advance(q), users') /\ Satisfied(Advance(q), users')
  BY <1>1, AdvanceShape
<1> QED  BY <1>2, MoveShape

(* A request whose call failed.                                            *)
LEMMA FailMove ==
    ASSUME TypeInv, NEW r \in Request, NEW q \in RequestState,
           q.status = "running", Inputs(q), Becomes(r, Fail(q)),
           NeedsAccount(q) => OnRecord(q.user, users'),
           \A e \in Emails : users[e] # None => users'[e] # None,
           \A t \in tokens' : OnRecord(t.user, users')
    PROVE  req' \in [Request -> RequestState] /\ Shape'
<1>1. now \in Nat
  BY DEF TypeInv, TypeOK
<1>2. /\ Fail(q) \in RequestState
      /\ Served(Fail(q), users') /\ Satisfied(Fail(q), users')
  BY <1>1, FailShape
<1> QED  BY <1>2, MoveShape

(* A request whose statement took effect.                                  *)
LEMMA ReturnsMove ==
    ASSUME TypeInv, NEW r \in Request, NEW q \in RequestState,
           q.status = "running", Inputs(q), Returns(r, q),
           OnRecord(q.user, users') \/ q.op = "Logout",
           \A e \in Emails : users[e] # None => users'[e] # None,
           \A t \in tokens' : OnRecord(t.user, users')
    PROVE  req' \in [Request -> RequestState] /\ Shape'
<1>1. CASE Becomes(r, Advance(q))
  BY <1>1, AdvanceMove
<1>2. CASE Becomes(r, Fail(q))
  <2>1. NeedsAccount(q) => OnRecord(q.user, users')
    BY DEF NeedsAccount
  <2> QED  BY <1>2, <2>1, FailMove
<1> QED  BY <1>1, <1>2 DEF Returns

(* Every call keeps the types, read or write, answered or failed.          *)
LEMMA StepType ==
    ASSUME TypeInv, NEW r \in Request, Step(r)
    PROVE  TypeInv'
<1> DEFINE q == req[r]
<1>1. Running(r)
  BY DEF Step, Reads, At, RegisterLookup, LoginLookup, MailLookup,
         RefreshFindSession, RefreshGetUser, ChangeGetUser, VerifyGetUser,
         FindUserToken, CreateUser, CreateUserSession, CreateUserToken, Emit,
         UpdateLastLogin, DeleteUserSession, DeleteAllUserSessions,
         DeleteUserToken, UpdatePassword, MarkVerified, StoreError
<1>2. /\ q \in RequestState /\ q.status = "running" /\ Inputs(q)
      /\ NeedsAccount(q) => OnRecord(q.user, users)
  BY <1>1, RunningShape
<1>3. TypeOK /\ Shape
  BY DEF TypeInv
<1>4. \A t \in tokens : OnRecord(t.user, users)
  BY <1>3 DEF Shape
<1>5. q.op \in OpNames /\ q.step \in 1..Len(Calls[q.op])
  BY <1>2 DEF Inputs
<1>6. ASSUME UNCHANGED <<store, inbox, now>>, outgoing' \subseteq Mail,
             req' \in [Request -> RequestState] /\ Shape'
      PROVE  TypeInv'
  BY <1>3, <1>6 DEF TypeInv, TypeOK, store
<1>7. CASE RegisterLookup(r)
  <2>1. Reads(r, "Register", "GetUserByEmail") /\ q.op = "Register" /\ q.step = 1
    BY <1>5, <1>7, CallPlaces DEF RegisterLookup, Reads, At, Call
  <2>2. \/ \E x \in {"alreadyExists", "internal"} : Answers(r, x)
        \/ Proceeds(r, q)
    BY <1>7 DEF RegisterLookup
  <2>3. req' \in [Request -> RequestState] /\ Shape'
    BY <1>1, <1>2, <1>4, <2>1, <2>2, AnswerMove, AdvanceMove
       DEF Reads, store, Answers, Proceeds, Results
  <2> QED  BY <1>3, <1>6, <2>1, <2>2, <2>3 DEF Reads, Answers, Proceeds, TypeOK
<1>8. CASE LoginLookup(r)
  <2>1. Reads(r, "Login", "GetUserByEmail") /\ q.op = "Login"
    BY <1>8 DEF LoginLookup, Reads
  <2>2. CASE \E x \in {"notFound", "inactive", "invalidCredentials"} : Answers(r, x)
    <3>1. req' \in [Request -> RequestState] /\ Shape'
      BY <1>1, <1>4, <2>1, <2>2, AnswerMove DEF Reads, store, Answers, Results
    <3> QED  BY <1>3, <1>6, <2>1, <2>2, <3>1 DEF Reads, Answers, TypeOK
  <2>3. CASE /\ users[q.user] # None
             /\ Proceeds(r, [q EXCEPT !.cred = users[q.user].version])
    <3> DEFINE v == users[q.user].version
               n == [q EXCEPT !.cred = v]
    <3>1. OnRecord(q.user, users) /\ v \in Nat
      BY <1>2, <1>3, <2>1, <2>3 DEF Inputs, ByToken, OnRecord, TypeOK, UserRow
    <3> HIDE DEF v
    <3>2. /\ n \in RequestState /\ n.status = "running" /\ n.user = q.user
          /\ Inputs(n)
      BY <1>2, <3>1 DEF RequestState, Inputs
    <3>3. req' \in [Request -> RequestState] /\ Shape'
      BY <1>1, <1>4, <2>1, <2>3, <3>1, <3>2, AdvanceMove DEF Reads, store, Proceeds, v
    <3> QED  BY <1>3, <1>6, <2>1, <2>3, <3>3 DEF Reads, Proceeds, TypeOK
  <2> QED  BY <1>8, <2>2, <2>3 DEF LoginLookup
<1>9. CASE MailLookup(r)
  <2>1. PICK op \in {"RequestPasswordReset", "ResendVerificationEmail"} :
          /\ Reads(r, op, "GetUserByEmail") /\ q.op = op
          /\ \/ Answers(r, "ok")
             \/ users[q.user] # None /\ Proceeds(r, q)
    BY <1>9 DEF MailLookup, Reads
  <2>2. users[q.user] # None => OnRecord(q.user, users)
    BY <1>2, <2>1 DEF Inputs, ByToken, OnRecord
  <2>3. req' \in [Request -> RequestState] /\ Shape'
    BY <1>1, <1>2, <1>4, <2>1, <2>2, AnswerMove, AdvanceMove
       DEF Reads, store, Answers, Proceeds, Results, Minting
  <2> QED  BY <1>3, <1>6, <2>1, <2>3 DEF Reads, Answers, Proceeds, TypeOK
<1>10. CASE RefreshFindSession(r)
  <2>1. Reads(r, "RefreshTokens", "GetUserSessionByToken") /\ NeedsAccount(q)
    BY <1>10 DEF RefreshFindSession, Reads, NeedsAccount
  <2>2. \/ \E x \in {"sessionNotFound"} : Answers(r, x)
        \/ Proceeds(r, q)
    BY <1>10 DEF RefreshFindSession
  <2>3. req' \in [Request -> RequestState] /\ Shape'
    BY <1>1, <1>2, <1>4, <2>1, <2>2, AnswerMove, AdvanceMove
       DEF Reads, store, Answers, Proceeds, Results
  <2> QED  BY <1>3, <1>6, <2>1, <2>2, <2>3 DEF Reads, Answers, Proceeds, TypeOK
<1>11. CASE RefreshGetUser(r)
  <2>1. Reads(r, "RefreshTokens", "GetUserByID") /\ NeedsAccount(q)
    BY <1>11 DEF RefreshGetUser, Reads, NeedsAccount
  <2>2. \/ \E x \in {"inactive"} : Answers(r, x)
        \/ Proceeds(r, q)
    BY <1>11 DEF RefreshGetUser
  <2>3. req' \in [Request -> RequestState] /\ Shape'
    BY <1>1, <1>2, <1>4, <2>1, <2>2, AnswerMove, AdvanceMove
       DEF Reads, store, Answers, Proceeds, Results
  <2> QED  BY <1>3, <1>6, <2>1, <2>2, <2>3 DEF Reads, Answers, Proceeds, TypeOK
<1>12. CASE ChangeGetUser(r)
  <2>1. Reads(r, "ChangePassword", "GetUserByID") /\ NeedsAccount(q)
    BY <1>12 DEF ChangeGetUser, Reads, NeedsAccount
  <2>2. CASE \E x \in {"invalidCredentials", "weakPassword", "internal"} : Answers(r, x)
    <3>1. req' \in [Request -> RequestState] /\ Shape'
      BY <1>1, <1>4, <2>1, <2>2, AnswerMove DEF Reads, store, Answers, Results
    <3> QED  BY <1>3, <1>6, <2>1, <2>2, <3>1 DEF Reads, Answers, TypeOK
  <2>3. CASE Proceeds(r, [q EXCEPT !.cred = users[q.user].version])
    <3> DEFINE v == users[q.user].version
               n == [q EXCEPT !.cred = v]
    <3>1. OnRecord(q.user, users) /\ v \in Nat
      BY <1>2, <1>3, <2>1 DEF OnRecord, TypeOK, UserRow
    <3> HIDE DEF v
    <3>2. /\ n \in RequestState /\ n.status = "running" /\ n.user = q.user
          /\ Inputs(n)
      BY <1>2, <3>1 DEF RequestState, Inputs
    <3>3. req' \in [Request -> RequestState] /\ Shape'
      BY <1>1, <1>4, <2>1, <2>3, <3>1, <3>2, AdvanceMove DEF Reads, store, Proceeds, v
    <3> QED  BY <1>3, <1>6, <2>1, <2>3, <3>3 DEF Reads, Proceeds, TypeOK
  <2> QED  BY <1>12, <2>2, <2>3 DEF ChangeGetUser
<1>13. CASE VerifyGetUser(r)
  <2>1. Reads(r, "VerifyEmail", "GetUserByID") /\ q.op = "VerifyEmail"
    BY <1>13 DEF VerifyGetUser, Reads
  <2>2. NeedsAccount(q)
    BY <1>5, <2>1, CallPlaces DEF Reads, At, Call, NeedsAccount
  <2>3. outgoing' \subseteq Mail
    BY <1>2, <1>3, <1>13, <2>2 DEF VerifyGetUser, OnRecord, TypeOK, Mail
  <2>4. req' \in [Request -> RequestState] /\ Shape'
    BY <1>1, <1>2, <1>4, <1>13, <2>1, <2>2, AdvanceMove DEF VerifyGetUser, Reads, store
  <2> QED  BY <1>6, <2>1, <2>3, <2>4 DEF Reads
<1>14. CASE FindUserToken(r)
  <2>1. PICK op \in {"ResetPassword", "VerifyEmail"} :
          /\ Reads(r, op, "GetUserTokenByHash") /\ q.op = op
          /\ \/ \E x \in {"invalidToken", "internal"} : Answers(r, x)
             \/ \E t \in tokens : Proceeds(r, [q EXCEPT !.user = t.user])
    BY <1>14 DEF FindUserToken, Reads
  <2>2. CASE \E x \in {"invalidToken", "internal"} : Answers(r, x)
    <3>1. req' \in [Request -> RequestState] /\ Shape'
      BY <1>1, <1>4, <2>1, <2>2, AnswerMove DEF Reads, store, Answers, Results
    <3> QED  BY <1>3, <1>6, <2>1, <2>2, <3>1 DEF Reads, Answers, TypeOK
  <2>3. ASSUME NEW t \in tokens, Proceeds(r, [q EXCEPT !.user = t.user])
        PROVE  TypeInv'
    <3> DEFINE e == t.user
               n == [q EXCEPT !.user = e]
    <3>1. OnRecord(e, users)
      BY <1>4
    <3>2. /\ n \in RequestState /\ n.status = "running" /\ n.user = e
          /\ Inputs(n)
      BY <1>2, <2>1, <3>1 DEF RequestState, Inputs, OnRecord
    <3>3. req' \in [Request -> RequestState] /\ Shape'
      BY <1>1, <1>4, <2>1, <2>3, <3>1, <3>2, AdvanceMove DEF Reads, store, Proceeds
    <3> QED  BY <1>3, <1>6, <2>1, <2>3, <3>3 DEF Reads, Proceeds, TypeOK
  <2> QED  BY <2>1, <2>2, <2>3
<1>15. CASE CreateUser(r)
  <2>1. q.op = "Register" /\ q.user \in Emails /\ q.username \in Usernames
        /\ q.password \in Passwords
    BY <1>2, <1>5, <1>15, CallPlaces DEF CreateUser, At, Call, Inputs, ByToken, Presenting
  <2>2. CASE Becomes(r, Answer(q, "internal")) /\ UNCHANGED users
    <3>1. req' \in [Request -> RequestState] /\ Shape'
      BY <1>1, <1>4, <1>15, <2>2, AnswerMove DEF CreateUser, Results
    <3> QED  BY <1>3, <1>15, <2>2, <3>1 DEF CreateUser, TypeInv, TypeOK, mail
  <2> DEFINE row == [username |-> q.username, password |-> q.password,
                     active |-> TRUE, verified |-> FALSE, version |-> 1]
             n == [q EXCEPT !.cred = 1]
  <2>3. CASE users' = [users EXCEPT ![q.user] = row] /\ Returns(r, n)
    <3>1. row \in UserRow
      BY <2>1 DEF UserRow
    <3> HIDE DEF row
    <3>2. row # None
      BY <3>1, RowAssumption
    <3>3. users' \in [Emails -> UserRow \cup {None}]
      BY <1>3, <2>3, <3>1 DEF TypeOK
    <3>4. OnRecord(q.user, users') /\ \A e \in Emails : users[e] # None => users'[e] # None
      BY <1>3, <2>1, <2>3, <3>2 DEF TypeOK, OnRecord
    <3>5. \A t \in tokens' : OnRecord(t.user, users')
      BY <1>4, <1>15, <3>4 DEF CreateUser, OnRecord
    <3>6. n \in RequestState /\ n.status = "running" /\ n.user = q.user /\ Inputs(n)
      BY <1>2 DEF RequestState, Inputs
    <3>7. req' \in [Request -> RequestState] /\ Shape'
      BY <2>3, <3>4, <3>5, <3>6, ReturnsMove
    <3> QED  BY <1>3, <1>15, <3>3, <3>7 DEF CreateUser, TypeInv, TypeOK, mail
  <2> QED  BY <1>15, <2>2, <2>3 DEF CreateUser
<1>16. CASE CreateUserSession(r)
  <2>1. NeedsAccount(q)
    BY <1>5, <1>16, CallPlaces DEF CreateUserSession, At, Call, NeedsAccount
  <2> DEFINE v == users[q.user].version
             n == [q EXCEPT !.version = v]
  <2>2. OnRecord(q.user, users) /\ v \in Nat
    BY <1>2, <1>3, <2>1 DEF OnRecord, TypeOK, UserRow
  <2>3. Returns(r, n)
    BY <1>16 DEF CreateUserSession
  <2> HIDE DEF v
  <2>4. n \in RequestState /\ n.status = "running" /\ n.user = q.user /\ Inputs(n)
    BY <1>2, <2>2 DEF RequestState, Inputs
  <2>5. req' \in [Request -> RequestState] /\ Shape'
    BY <1>4, <1>16, <2>2, <2>3, <2>4, ReturnsMove DEF CreateUserSession
  <2>6. [token |-> r, user |-> q.user, exp |-> SessionExpiry] \in SessionRow
    BY <1>3, <2>2, TTLAssumption DEF SessionRow, SessionExpiry, OnRecord, TypeOK
  <2>7. sessions' \subseteq SessionRow
    BY <1>3, <1>16, <2>6 DEF CreateUserSession, TypeOK
  <2> QED  BY <1>3, <1>16, <2>5, <2>7 DEF CreateUserSession, TypeInv, TypeOK, mail
<1>17. CASE CreateUserToken(r)
  <2>1. NeedsAccount(q)
    BY <1>5, <1>17, CallPlaces DEF CreateUserToken, At, Call, NeedsAccount
  <2>2. OnRecord(q.user, users) /\ UNCHANGED users
    BY <1>2, <1>17, <2>1 DEF CreateUserToken
  <2> DEFINE ttl == IF q.op = "RequestPasswordReset" THEN ResetTTL ELSE VerifyTTL
             row == [token |-> r, user |-> q.user, type |-> TokenKind(q),
                     exp |-> now + ttl]
             m == [to |-> q.user, kind |-> TokenKind(q), token |-> r]
  <2>3. row \in TokenRow /\ m \in Mail
    <3>1. ttl \in Nat /\ now \in Nat
      BY <1>3, ConstantsAssumption DEF TypeOK
    <3>2. TokenKind(q) \in TokenType
      BY DEF TokenKind, TokenType
    <3> HIDE DEF ttl
    <3> QED  BY <2>2, <3>1, <3>2 DEF TokenRow, Mail, OnRecord
  <2>4. row.user = q.user /\ tokens' = tokens \cup {row}
    BY <1>17 DEF CreateUserToken
  <2>5. /\ \/ Becomes(r, Advance(q)) /\ outgoing' = outgoing \cup {m}
           \/ Becomes(r, Fail(q)) /\ UNCHANGED outgoing
    BY <1>17 DEF CreateUserToken
  <2> HIDE DEF row, m
  <2>6. \A t \in tokens' : OnRecord(t.user, users')
    BY <1>4, <2>2, <2>4
  <2>7. req' \in [Request -> RequestState] /\ Shape'
    BY <1>2, <2>2, <2>5, <2>6, AdvanceMove, FailMove
  <2>8. tokens' \subseteq TokenRow /\ outgoing' \subseteq Mail
    BY <1>3, <2>3, <2>4, <2>5 DEF TypeOK
  <2> QED  BY <1>3, <1>17, <2>7, <2>8 DEF CreateUserToken, TypeInv, TypeOK
<1>18. CASE Emit(r)
  <2>1. NeedsAccount(q)
    BY <1>5, <1>18, CallPlaces DEF Emit, At, Call, NeedsAccount
  <2>2. req' \in [Request -> RequestState] /\ Shape'
    BY <1>2, <1>4, <1>18, <2>1, ReturnsMove DEF Emit, store
  <2> QED  BY <1>2, <1>3, <1>18, <2>1, <2>2
           DEF Emit, TypeInv, TypeOK, mail, store, OnRecord
<1>19. CASE UpdateLastLogin(r)
  <2>1. NeedsAccount(q)
    BY <1>5, <1>19, CallPlaces DEF UpdateLastLogin, At, Call, NeedsAccount
  <2>2. req' \in [Request -> RequestState] /\ Shape'
    BY <1>2, <1>4, <1>19, <2>1, ReturnsMove DEF UpdateLastLogin, store
  <2> QED  BY <1>2, <1>3, <1>19, <2>1, <2>2
           DEF UpdateLastLogin, TypeInv, TypeOK, mail, store, OnRecord
<1>20. CASE DeleteUserSession(r)
  <2>1. q.op = "Logout" \/ NeedsAccount(q)
    BY <1>5, <1>20, CallPlaces DEF DeleteUserSession, At, Call, NeedsAccount
  <2>2. req' \in [Request -> RequestState] /\ Shape'
    BY <1>2, <1>4, <1>20, <2>1, ReturnsMove DEF DeleteUserSession
  <2> QED  BY <1>3, <1>20, <2>2 DEF DeleteUserSession, TypeInv, TypeOK, mail
<1>21. CASE DeleteAllUserSessions(r)
  <2>1. NeedsAccount(q)
    BY <1>5, <1>21, CallPlaces DEF DeleteAllUserSessions, At, Call, NeedsAccount
  <2>2. req' \in [Request -> RequestState] /\ Shape'
    BY <1>2, <1>4, <1>21, <2>1, ReturnsMove DEF DeleteAllUserSessions, store
  <2> QED  BY <1>2, <1>3, <1>21, <2>1, <2>2
           DEF DeleteAllUserSessions, TypeInv, TypeOK, mail, store, OnRecord
<1>22. CASE DeleteUserToken(r)
  <2>1. NeedsAccount(q)
    BY <1>5, <1>22, CallPlaces DEF DeleteUserToken, At, Call, NeedsAccount
  <2>2. tokens' \subseteq tokens /\ UNCHANGED users
    BY <1>22 DEF DeleteUserToken
  <2>3. req' \in [Request -> RequestState] /\ Shape'
    BY <1>2, <1>4, <1>22, <2>1, <2>2, ReturnsMove DEF DeleteUserToken
  <2> QED  BY <1>3, <1>22, <2>2, <2>3 DEF DeleteUserToken, TypeInv, TypeOK, mail
<1>23. CASE UpdatePassword(r)
  <2>1. NeedsAccount(q) /\ q.op \in Presenting
    BY <1>5, <1>23, CallPlaces DEF UpdatePassword, At, Call, NeedsAccount, Presenting
  <2>2. OnRecord(q.user, users) /\ q.password \in Passwords
    BY <1>2, <2>1 DEF Inputs
  <2>3. users[q.user] \in UserRow
    BY <1>3, <2>2 DEF OnRecord, TypeOK
  <2> DEFINE v == users[q.user].version + 1
             row == [users[q.user] EXCEPT !.password = q.password, !.version = v]
             n == [q EXCEPT !.version = v]
  <2>4. v \in Nat
    BY <2>3 DEF UserRow
  <2>5. users' = [users EXCEPT ![q.user] = row] /\ Returns(r, n)
    BY <1>3, <1>23, <2>2, <2>3 DEF UpdatePassword, OnRecord, TypeOK, UserRow
  <2> HIDE DEF v
  <2>6. row \in UserRow /\ n \in RequestState /\ n.status = "running"
        /\ n.user = q.user /\ Inputs(n)
    BY <1>2, <2>2, <2>3, <2>4 DEF UserRow, RequestState, Inputs
  <2> HIDE DEF row, n
  <2>7. users' \in [Emails -> UserRow \cup {None}] /\ users'[q.user] # None
        /\ \A e \in Emails : users[e] # None => users'[e] # None
    BY <1>3, <2>2, <2>5, <2>6, RowAssumption DEF TypeOK, OnRecord
  <2>8. OnRecord(q.user, users') /\ \A t \in tokens' : OnRecord(t.user, users')
    BY <1>4, <1>23, <2>2, <2>7 DEF UpdatePassword, OnRecord
  <2>9. req' \in [Request -> RequestState] /\ Shape'
    BY <2>5, <2>6, <2>7, <2>8, ReturnsMove
  <2> QED  BY <1>3, <1>23, <2>7, <2>9 DEF UpdatePassword, TypeInv, TypeOK, mail
<1>24. CASE MarkVerified(r)
  <2>1. NeedsAccount(q)
    BY <1>5, <1>24, CallPlaces DEF MarkVerified, At, Call, NeedsAccount
  <2>2. OnRecord(q.user, users) /\ users[q.user] \in UserRow
    BY <1>2, <1>3, <2>1 DEF OnRecord, TypeOK
  <2> DEFINE row == [users[q.user] EXCEPT !.verified = TRUE]
  <2>3. users' = [users EXCEPT ![q.user] = row] /\ Returns(r, q)
    BY <1>24 DEF MarkVerified
  <2>4. row \in UserRow
    BY <2>2 DEF UserRow
  <2> HIDE DEF row
  <2>5. users' \in [Emails -> UserRow \cup {None}]
        /\ \A e \in Emails : users[e] # None => users'[e] # None
    BY <1>3, <2>2, <2>3, <2>4, RowAssumption DEF TypeOK, OnRecord
  <2>6. OnRecord(q.user, users') /\ \A t \in tokens' : OnRecord(t.user, users')
    BY <1>4, <1>24, <2>2, <2>5 DEF MarkVerified, OnRecord
  <2>7. req' \in [Request -> RequestState] /\ Shape'
    BY <1>2, <2>3, <2>5, <2>6, ReturnsMove
  <2> QED  BY <1>3, <1>24, <2>5, <2>7 DEF MarkVerified, TypeInv, TypeOK, mail
<1>25. CASE StoreError(r)
  <2> DEFINE d == q.undone \cup (Droppable \cap {Call(q)})
             n == [q EXCEPT !.undone = d]
  <2>2. d \in SUBSET Droppable
    BY <1>2 DEF RequestState
  <2>3. Becomes(r, Fail(n)) /\ UNCHANGED <<store, mail, now>>
    BY <1>25 DEF StoreError
  <2> HIDE DEF d
  <2>4. n \in RequestState /\ n.status = "running" /\ Inputs(n)
    BY <1>2, <2>2 DEF RequestState, Inputs
  <2>5. NeedsAccount(n) => OnRecord(n.user, users)
    BY <1>2 DEF NeedsAccount
  <2> HIDE DEF n
  <2>6. users' = users /\ tokens' = tokens
    BY <2>3 DEF store
  <2>7. NeedsAccount(n) => OnRecord(n.user, users')
    BY <2>5, <2>6 DEF OnRecord
  <2>8. \A t \in tokens' : OnRecord(t.user, users')
    BY <1>4, <2>6 DEF OnRecord
  <2>1. req' \in [Request -> RequestState] /\ Shape'
    BY <2>3, <2>4, <2>6, <2>7, <2>8, FailMove
  <2> QED  BY <1>3, <1>6, <1>25, <2>1 DEF StoreError, mail, TypeOK
<1> QED  BY <1>7, <1>8, <1>9, <1>10, <1>11, <1>12, <1>13, <1>14, <1>15, <1>16,
            <1>17, <1>18, <1>19, <1>20, <1>21, <1>22, <1>23, <1>24, <1>25 DEF Step

(* Only the request at hand moves in a call; a crash moves all of them.    *)
LEMMA CrashType ==
    ASSUME TypeInv, Crash
    PROVE  TypeInv'
<1>1. TypeOK /\ Shape
  BY DEF TypeInv
<1>2. req' = [r \in Request |-> IF Running(r)
                                THEN [req[r] EXCEPT !.status = "dead"] ELSE req[r]]
  BY DEF Crash
<1>3. ASSUME NEW r \in Request
      PROVE  /\ req'[r] \in RequestState
             /\ Served(req'[r], users') /\ Satisfied(req'[r], users')
  <2>1. req[r] \in RequestState /\ Served(req[r], users) /\ Satisfied(req[r], users)
    BY <1>1 DEF TypeOK, Shape
  <2>2. users' = users
    BY DEF Crash, store
  <2>3. CASE Running(r)
    <3>1. req'[r] = [req[r] EXCEPT !.status = "dead"]
      BY <1>2, <2>3
    <3> QED  BY <2>1, <3>1 DEF RequestState, Served, Satisfied
  <2>4. CASE ~Running(r)
    <3>1. req'[r] = req[r]
      BY <1>2, <2>4
    <3> QED  BY <2>1, <2>2, <3>1
  <2> QED  BY <2>3, <2>4
<1>4. req' \in [Request -> RequestState]
  BY <1>2, <1>3
<1> QED  BY <1>1, <1>3, <1>4 DEF Crash, store, TypeInv, TypeOK, Shape

(* Deactivating an account leaves it on record.                            *)
LEMMA DeactivateType ==
    ASSUME TypeInv, NEW e \in Emails, Deactivate(e)
    PROVE  TypeInv'
<1>1. TypeOK /\ Shape
  BY DEF TypeInv
<1> DEFINE row == [users[e] EXCEPT !.active = FALSE]
<1>2. users[e] # None /\ users' = [users EXCEPT ![e] = row]
  BY DEF Deactivate
<1>3. row \in UserRow
  BY <1>1, <1>2 DEF TypeOK, UserRow
<1> HIDE DEF row
<1>4. /\ users' \in [Emails -> UserRow \cup {None}]
      /\ \A d : OnRecord(d, users) => OnRecord(d, users')
  BY <1>1, <1>2, <1>3, RowAssumption DEF TypeOK, OnRecord
<1>5. Shape'
  BY <1>1, <1>4 DEF Deactivate, mail, Shape, Served, Satisfied
<1> QED  BY <1>1, <1>4, <1>5 DEF Deactivate, mail, TypeInv, TypeOK

(* Every step of the system keeps the types.                               *)
LEMMA TypeNext == TypeInv /\ [Next]_vars => TypeInv'
<1> SUFFICES ASSUME TypeInv, [Next]_vars PROVE TypeInv'
  OBVIOUS
<1>1. TypeOK /\ Shape
  BY DEF TypeInv
<1>2. ASSUME NEW r \in Request, Arrival(r) \/ Step(r) PROVE TypeInv'
  BY <1>2, ArrivalType, StepType
<1>3. ASSUME NEW m \in Mail, SendMail(m) PROVE TypeInv'
  BY <1>1, <1>3 DEF SendMail, store, TypeInv, TypeOK, Shape
<1>4. ASSUME NEW e \in Emails, Deactivate(e) PROVE TypeInv'
  BY <1>4, DeactivateType
<1>5. CASE Crash
  BY <1>5, CrashType
<1>6. CASE Tick
  BY <1>1, <1>6 DEF Tick, store, mail, TypeInv, TypeOK, Shape
<1>7. CASE UNCHANGED vars
  BY <1>1, <1>7 DEF vars, TypeInv, TypeOK, Shape
<1> QED  BY <1>2, <1>3, <1>4, <1>5, <1>6, <1>7 DEF Next, Quiescent

(* The state stays well-typed, and every request being served keeps what   *)
(* its next statement needs: an account that exists, a password that was   *)
(* presented.                                                              *)
THEOREM TypeCorrect == Spec => []TypeOK
<1>1. TypeInv => TypeOK
  BY DEF TypeInv
<1> QED  BY <1>1, TypeInit, TypeNext, PTL DEF Spec
=============================================================================

---------------------------- MODULE SecretsProofs ----------------------------
(***************************************************************************)
(* All services of Accounts, for any number of e-mails, managers, tokens,  *)
(* codes and requests: their states are of their types, and what each of   *)
(* them hands out serves once, as SingleUse says.                          *)
(*                                                                         *)
(* The argument is the same in each service: what is stored has been drawn *)
(* and not been used, so that a new code is never one that was used; and   *)
(* the use of a code is acknowledged when nothing stores it any more, for  *)
(* a reason that is each service's own.  The token of a manager is in one  *)
(* document only.  The code of an administrator's log-in is removed first, *)
(* and what is stored afterwards is drawn after it.  The token of a        *)
(* customer is the key that is deleted.  The token of an administrator's   *)
(* reset is kept twice, and removed from MongoDB first: this is enough     *)
(* only if no other request copies it from there to Redis meanwhile.       *)
(***************************************************************************)
EXTENDS AccountsProofs

----------------------------------------------------------------------------
(* What the services have in common *)

AllRequests == Requests \cup ResetRequests

\* The code that each of the requests in R has at the steps in S.
CodesUsed(R, S) ==
  [r \in AllRequests |-> IF r \in R /\ request[r].step \in S THEN request[r].code ELSE NoCode]

OthersKept(R, r) == \A q \in R \ {r} : request'[q] = request[q]

\* Requests that use no code, or go on with theirs, change nothing.
LEMMA UsedKept ==
  ASSUME NEW R \in SUBSET AllRequests, NEW S, NEW r \in R, OthersKept(R, r),
         \/ request[r].step \notin S /\ request'[r].step \notin S
         \/ request[r].step \in S /\ request'[r].step \in S /\ request'[r].code = request[r].code
  PROVE  CodesUsed(R, S)' = CodesUsed(R, S)
  BY DEF CodesUsed, OthersKept

\* What is stored changes, but for codes that were used.
LEMMA ChangeStep ==
  ASSUME Valid' \subseteq Codes \ Spent, Spent' = Spent, Holding' = Holding
  PROVE  Secret!Next
  BY DEF Secret!Next, Secret!Change

\* A request is let in with a code that is stored.
LEMMA AcceptStep ==
  ASSUME NEW R \in SUBSET AllRequests, NEW S, NEW r \in R, OthersKept(R, r),
         Holding = CodesUsed(R, S), Holding' = CodesUsed(R, S)',
         request[r].step \notin S, request'[r].step \in S, request'[r].code \in Valid,
         UNCHANGED <<Valid, Spent>>
  PROVE  Secret!Next
  <1>1. Holding[r] = NoCode /\ Holding' = [Holding EXCEPT ![r] = request'[r].code]
    BY DEF CodesUsed, OthersKept
  <1>2. Secret!Accept(r)
    BY <1>1 DEF Secret!Accept
  <1>3. QED
    BY <1>2 DEF Secret!Next, AllRequests

\* A request is told that its code was used.
LEMMA AcknowledgeStep ==
  ASSUME NEW R \in SUBSET AllRequests, NEW S, NEW r \in R, OthersKept(R, r),
         Holding = CodesUsed(R, S), Holding' = CodesUsed(R, S)',
         request[r].step \in S, request'[r].step \notin S, request[r].code \in Codes,
         fate \in [Codes -> Fates],
         fate' = [fate EXCEPT ![request[r].code] = "spent"],
         Valid' \subseteq Valid \ Spent'
  PROVE  Secret!Next
  <1> DEFINE c == request[r].code
  <1>1. Holding[r] = c /\ Holding' = [Holding EXCEPT ![r] = NoCode]
    BY DEF CodesUsed, OthersKept
  <1>2. c # NoCode
    BY CodeAssumption
  <1>3. Spent' = Spent \cup {c}
    BY DEF Spent
  <1>4. Secret!Acknowledge(r)
    BY <1>1, <1>2, <1>3 DEF Secret!Acknowledge
  <1>5. QED
    BY <1>4 DEF Secret!Next, AllRequests

\* Requests end without that.
LEMMA GiveUpStep ==
  ASSUME NEW R \in SUBSET AllRequests, NEW S, NEW E \in SUBSET R,
         Holding = CodesUsed(R, S), Holding' = CodesUsed(R, S)',
         \A r \in E : request'[r].step \notin S,
         \A r \in R \ E : request'[r] = request[r],
         Valid' \subseteq Valid, Spent' = Spent
  PROVE  Secret!Next
  <1>1. E \in SUBSET AllRequests
    OBVIOUS
  <1>2. Holding' = [r \in AllRequests |-> IF r \in E THEN NoCode ELSE Holding[r]]
    BY DEF CodesUsed
  <1>3. Secret!GiveUp
    BY <1>1, <1>2 DEF Secret!GiveUp, AllRequests
  <1>4. QED
    BY <1>3 DEF Secret!Next

\* One request gives up the code it holds.
LEMMA OneGivesUp ==
  ASSUME NEW R \in SUBSET AllRequests, NEW S, NEW r \in R,
         Holding = CodesUsed(R, S), Holding' = CodesUsed(R, S)',
         request'[r].step \notin S, OthersKept(R, r),
         Valid' \subseteq Valid, Spent' = Spent
  PROVE  Secret!Next
  <1> DEFINE E == {r}
  <1>1. /\ E \in SUBSET R
        /\ \A q \in E : request'[q].step \notin S
        /\ \A q \in R \ E : request'[q] = request[q]
    BY DEF OthersKept
  <1> HIDE DEF E
  <1>2. QED
    BY <1>1, GiveUpStep

\* What a step has to be.
Once == [Secret!Next]_(Secret!vars)

\* Nothing that is stored, used or held changes.
LEMMA NothingStep ==
  ASSUME UNCHANGED <<Valid, Spent, Holding>> PROVE Once
  BY DEF Once, Secret!vars

----------------------------------------------------------------------------
(* Managers: a token is in the document of one manager. *)

ManagerCodes ==
  /\ \A m, n \in Managers : resetToken[m] # NoCode /\ resetToken[m] = resetToken[n] => m = n
  /\ \A m \in Managers : resetToken[m] # NoCode => fate[resetToken[m]] = "drawn"
  /\ \A r \in Requests : request[r].step = "saveReset" =>
       /\ fate[request[r].code] # "new"
       /\ \A m \in Managers : resetToken[m] = request[r].code => m = request[r].manager

\* What the secrets of Accounts are then.
LEMMA ManagerView ==
  service = "manager" => /\ Valid = Manager!Valid
                         /\ Holding = CodesUsed(Requests, {"saveReset"})
  BY DEF Valid, Holding, HoldingOf, Manager!Holding, CodesUsed, AllRequests

AtManagers == service = "manager" /\ service' = "manager" /\ ManagerIInv /\ ManagerCodes

\* It is also what they are after a step.
LEMMA ManagerViews ==
  ASSUME AtManagers
  PROVE  /\ Valid = Manager!Valid /\ Valid' = Manager!Valid'
         /\ Holding = CodesUsed(Requests, {"saveReset"})
         /\ Holding' = CodesUsed(Requests, {"saveReset"})'
         /\ Requests \in SUBSET AllRequests
  <1>1. (service = "manager" => /\ Valid = Manager!Valid
                                /\ Holding = CodesUsed(Requests, {"saveReset"}))'
    BY ManagerView, PTL
  <1>2. QED
    BY <1>1, ManagerView DEF AtManagers, AllRequests

\* Tokens that are stored are codes, and not spent.
LEMMA ManagerUnspent ==
  ASSUME AtManagers PROVE Valid \subseteq Codes \ Spent
  BY ManagerViews
     DEF AtManagers, ManagerIInv, Manager!TypeOK, ManagerCodes, Manager!Valid, Spent

\* The token that is drawn is nobody else's, and nobody uses it.
LEMMA SaveTokenOnce ==
  ASSUME AtManagers, NEW r \in Requests, NEW c \in Codes, Manager!SaveToken(r, c)
  PROVE  ManagerCodes' /\ Once
  <1> DEFINE m == request[r].manager
  <1>1. /\ request[r].step = "saveToken" /\ fate[c] = "new"
        /\ resetToken' = [resetToken EXCEPT ![m] = c]
        /\ fate' = [fate EXCEPT ![c] = "drawn"]
        /\ request' = [request EXCEPT ![r] = Manager!Idle]
    BY DEF Manager!SaveToken, Manager!Draw, Manager!Finish
  <1>2. m \in Managers
    BY <1>1, ManagerRequests DEF AtManagers, Manager!Idle
  <1>3. OthersKept(Requests, r) /\ request'[r].step = "idle"
    BY <1>1 DEF AtManagers, ManagerIInv, Manager!TypeOK, Manager!Idle, OthersKept
  <1> HIDE DEF m
  <1>4. c # NoCode /\ \A n \in Managers : resetToken[n] # c
    BY <1>1, CodeAssumption DEF AtManagers, ManagerCodes
  <1>5. \A q \in Requests : request[q].step = "saveReset" =>
          request[q].code \in Codes /\ request[q].code # c
    BY <1>1, ManagerRequests DEF AtManagers, ManagerCodes, Manager!Idle
  <1>6. ManagerCodes'
    BY <1>1, <1>2, <1>3, <1>4, <1>5
       DEF AtManagers, ManagerIInv, Manager!TypeOK, ManagerCodes, OthersKept
  <1>7. Spent' = Spent
    BY <1>1 DEF Spent, AtManagers, ManagerIInv, Manager!TypeOK
  <1>8. Valid' \subseteq Codes \ Spent
    <2>1. Valid' \subseteq Valid \cup {c}
      BY <1>1, <1>2, ManagerViews DEF Manager!Valid, AtManagers, ManagerIInv, Manager!TypeOK
    <2>2. c \notin Spent
      BY <1>1 DEF Spent
    <2>3. QED
      BY <2>1, <2>2, ManagerUnspent
  <1>9. Holding' = Holding
    BY <1>1, <1>3, ManagerViews, UsedKept
  <1>10. QED
    BY <1>6, <1>7, <1>8, <1>9, ChangeStep DEF Once

\* Requests start: who resets is let in with the manager's token.
LEMMA ManagerStartsOnce ==
  ASSUME AtManagers, NEW r \in Requests, NEW m \in Managers,
         \/ \E p \in Passwords : Manager!Signup(r, m, p) \/ Manager!resetPassword(r, m, p)
         \/ Manager!initiatePasswordReset(r, m)
  PROVE  ManagerCodes' /\ Once
  <1>1. CASE \E p \in Passwords : Manager!resetPassword(r, m, p)
    <2>1. PICK p \in Passwords : Manager!resetPassword(r, m, p)
      BY <1>1
    <2> DEFINE q == [step |-> "saveReset", manager |-> m, password |-> p, code |-> resetToken[m]]
    <2>2. /\ resetToken[m] # NoCode /\ request[r] = Manager!Idle
          /\ request' = [request EXCEPT ![r] = q]
          /\ UNCHANGED <<resetToken, fate>>
      BY <2>1 DEF Manager!resetPassword, Manager!Start, Manager!document
    <2>3. q.step = "saveReset" /\ q.manager = m /\ q.code = resetToken[m]
      OBVIOUS
    <2> HIDE DEF q
    <2>4. OthersKept(Requests, r) /\ request'[r] = q
      BY <2>2 DEF AtManagers, ManagerIInv, Manager!TypeOK, OthersKept
    <2>5. ManagerCodes'
      BY <2>2, <2>3, <2>4 DEF AtManagers, ManagerCodes, OthersKept
    <2>6. request[r].step # "saveReset" /\ request'[r].code \in Valid
      BY <2>2, <2>3, <2>4, ManagerViews DEF Manager!Idle, Manager!Valid
    <2>7. UNCHANGED <<Valid, Spent>>
      BY <2>2, ManagerViews DEF Manager!Valid, Spent
    <2>8. QED
      BY <2>3, <2>4, <2>5, <2>6, <2>7, AcceptStep, ManagerViews DEF Once
  <1>2. CASE \/ \E p \in Passwords : Manager!Signup(r, m, p)
             \/ Manager!initiatePasswordReset(r, m)
    <2>1. /\ request[r].step = "idle" /\ request'[r].step \in {"saveNew", "saveToken"}
          /\ OthersKept(Requests, r)
          /\ UNCHANGED <<resetToken, fate>>
      BY <1>2
         DEF Manager!Signup, Manager!initiatePasswordReset, Manager!Start, Manager!Idle,
             Manager!document, AtManagers, ManagerIInv, Manager!TypeOK, OthersKept
    <2>2. ManagerCodes'
      BY <2>1 DEF AtManagers, ManagerCodes, OthersKept
    <2>3. UNCHANGED <<Valid, Spent, Holding>>
      BY <2>1, ManagerViews, UsedKept DEF Manager!Valid, Spent
    <2>4. QED
      BY <2>2, <2>3, NothingStep
  <1>3. QED
    BY <1>1, <1>2

\* The token that was used is in no other document than the one it is removed from.
LEMMA SaveResetOnce ==
  ASSUME AtManagers, NEW r \in Requests, Manager!SaveReset(r)
  PROVE  ManagerCodes' /\ Once
  <1> DEFINE m == request[r].manager
             c == request[r].code
  <1>1. /\ request[r].step = "saveReset"
        /\ resetToken' = [resetToken EXCEPT ![m] = NoCode]
        /\ fate' = [fate EXCEPT ![c] = "spent"]
        /\ request' = [request EXCEPT ![r] = Manager!Idle]
    BY DEF Manager!SaveReset, Manager!Acknowledge, Manager!Finish
  <1>2. m \in Managers /\ c \in Codes /\ \A n \in Managers : resetToken[n] = c => n = m
    BY <1>1, ManagerRequests DEF AtManagers, Manager!Idle, ManagerCodes
  <1>3. OthersKept(Requests, r) /\ request'[r].step = "idle"
    BY <1>1 DEF AtManagers, ManagerIInv, Manager!TypeOK, Manager!Idle, OthersKept
  <1>4. \A q \in Requests : request[q].step = "saveReset" => request[q].code \in Codes
    BY ManagerRequests DEF AtManagers, Manager!Idle
  <1>5. fate \in [Codes -> Fates]
    BY DEF AtManagers, ManagerIInv, Manager!TypeOK, Fates, Manager!Fates
  <1>6. Spent' = Spent \cup {c}
    BY <1>1, <1>2, <1>5 DEF Spent
  <1> HIDE DEF m, c
  <1>7. ManagerCodes'
    BY <1>1, <1>2, <1>3, <1>4, <1>5, CodeAssumption
       DEF AtManagers, ManagerIInv, Manager!TypeOK, ManagerCodes, OthersKept
  <1>8. Valid' \subseteq Valid \ Spent'
    <2>1. Valid' \subseteq Valid \ {c}
      BY <1>1, <1>2, ManagerViews DEF Manager!Valid, AtManagers, ManagerIInv, Manager!TypeOK
    <2>2. QED
      BY <2>1, <1>6, ManagerUnspent
  <1>9. QED
    <2>1. request[r].step \in {"saveReset"} /\ request'[r].step \notin {"saveReset"}
      BY <1>1, <1>3
    <2>2. Secret!Next
      BY <2>1, <1>1, <1>2, <1>3, <1>5, <1>8, AcknowledgeStep, ManagerViews DEF c
    <2>3. QED
      BY <1>7, <2>2 DEF Once

\* Tokens are removed and requests end, without an acknowledgement.
LEMMA ManagerLossOnce ==
  ASSUME AtManagers, NEW E \in SUBSET Requests, UNCHANGED fate,
         \A m \in Managers : resetToken'[m] \in {resetToken[m], NoCode},
         \A q \in E : request'[q] = Manager!Idle,
         \A q \in Requests \ E : request'[q] = request[q]
  PROVE  ManagerCodes' /\ Once
  <1>1. \A q \in Requests : request[q].step = "saveReset" => request[q].code # NoCode
    BY ManagerRequests, CodeAssumption DEF AtManagers, Manager!Idle
  <1>2. \A q \in E : request'[q].step # "saveReset"
    BY DEF Manager!Idle
  <1>3. ManagerCodes'
    BY <1>1, <1>2 DEF AtManagers, ManagerCodes
  <1>4. Valid' \subseteq Valid /\ Spent' = Spent
    BY ManagerViews DEF Manager!Valid, Spent
  <1>5. Secret!Next
    <2>1. \A q \in E : request'[q].step \notin {"saveReset"}
      BY <1>2
    <2> HIDE <1>2
    <2>2. QED
      BY <2>1, <1>4, GiveUpStep, ManagerViews
  <1>6. QED
    BY <1>3, <1>5 DEF Once

\* Every step of a manager's is one of SingleUse, or none.
LEMMA ManagerNextOnce ==
  ASSUME AtManagers, Manager!Next PROVE ManagerCodes' /\ Once
  <1>1. ASSUME NEW r \in Requests, Manager!SaveNew(r) \/ Manager!WriteLost(r) \/ Manager!RequestFails(r)
        PROVE  ManagerCodes' /\ Once
    <2>1. /\ UNCHANGED fate
          /\ \A m \in Managers : resetToken'[m] \in {resetToken[m], NoCode}
      BY <1>1 DEF Manager!SaveNew, Manager!WriteLost, Manager!RequestFails, Manager!document,
                  AtManagers, ManagerIInv, Manager!TypeOK
    <2>2. /\ \A q \in {r} : request'[q] = Manager!Idle
          /\ \A q \in Requests \ {r} : request'[q] = request[q]
      BY <1>1 DEF Manager!SaveNew, Manager!WriteLost, Manager!RequestFails, Manager!Failure,
                  Manager!Finish, AtManagers, ManagerIInv, Manager!TypeOK
    <2>3. {r} \in SUBSET Requests
      OBVIOUS
    <2>4. QED
      BY <2>1, <2>2, <2>3, ManagerLossOnce
  <1>2. ASSUME NEW m \in Managers,
               Manager!ResetExpires(m) \/ \E p \in Passwords : Manager!updateManager(m, p)
        PROVE  ManagerCodes' /\ Once
    <2>1. /\ UNCHANGED <<fate, request>>
          /\ \A n \in Managers : resetToken'[n] \in {resetToken[n], NoCode}
      BY <1>2 DEF Manager!ResetExpires, Manager!updateManager, AtManagers, ManagerIInv,
                  Manager!TypeOK
    <2>2. /\ \A q \in {} : request'[q] = Manager!Idle
          /\ \A q \in Requests \ {} : request'[q] = request[q]
          /\ {} \in SUBSET Requests
      BY <2>1
    <2>3. QED
      BY <2>1, <2>2, ManagerLossOnce
  <1>3. CASE Manager!Restart
    <2>1. /\ UNCHANGED <<fate, resetToken>>
          /\ \A q \in Requests : request'[q] = Manager!Idle
          /\ Requests \in SUBSET Requests
      BY <1>3 DEF Manager!Restart, Manager!Restarted, Manager!document
    <2>2. QED
      BY <2>1, ManagerLossOnce
  <1>4. QED
    BY <1>1, <1>2, <1>3, SaveTokenOnce, ManagerStartsOnce, SaveResetOnce DEF Manager!Next

----------------------------------------------------------------------------
(* The administrator's log-in: a code is removed before it is acknowledged,*)
(* and what is stored afterwards is drawn after it.                        *)

LoginCodes ==
  /\ otp # NoCode => fate[otp] = "drawn"
  /\ \A r \in Requests : request[r].step \in Login!VerifySteps =>
       /\ fate[request[r].code] # "new"
       /\ request[r].step # "unsetOtp" => otp # request[r].code

\* What the secrets of Accounts are then.
LEMMA LoginView ==
  service = "login" => /\ Valid = Login!Valid
                       /\ Holding = CodesUsed(Requests, Login!VerifySteps)
  BY DEF Valid, Holding, HoldingOf, Login!Holding, CodesUsed, AllRequests

AtLogin == service = "login" /\ service' = "login" /\ LoginIInv /\ LoginCodes

\* It is also what they are after a step.
LEMMA LoginViews ==
  ASSUME AtLogin
  PROVE  /\ Valid = Login!Valid /\ Valid' = Login!Valid'
         /\ Holding = CodesUsed(Requests, Login!VerifySteps)
         /\ Holding' = CodesUsed(Requests, Login!VerifySteps)'
         /\ Requests \in SUBSET AllRequests
         /\ Login!TypeOK
  <1>1. (service = "login" => /\ Valid = Login!Valid
                              /\ Holding = CodesUsed(Requests, Login!VerifySteps))'
    BY LoginView, PTL
  <1>2. QED
    BY <1>1, LoginView DEF AtLogin, AllRequests, LoginIInv

\* A code that is stored is a code, and not spent.
LEMMA LoginUnspent ==
  ASSUME AtLogin PROVE Valid \subseteq Codes \ Spent
  BY LoginViews DEF AtLogin, Login!TypeOK, LoginCodes, Login!Valid, Spent

\* The code that is drawn is nobody's yet.
LEMMA SetOtpOnce ==
  ASSUME AtLogin, NEW r \in Requests, NEW c \in Codes, Login!SetOtp(r, c)
  PROVE  LoginCodes' /\ Once
  <1>1. /\ request[r].step = "setOtp" /\ fate[c] = "new"
        /\ otp' = c
        /\ fate' = [fate EXCEPT ![c] = "drawn"]
        /\ Login!Continue(r, "mailOtp")
    BY DEF Login!SetOtp, Login!Draw
  <1>2. /\ OthersKept(Requests, r) /\ request'[r].step \notin Login!VerifySteps
        /\ request[r].step \notin Login!VerifySteps
    <2>1. request[r].step \in Login!LoginSteps /\ "mailOtp" \in Login!LoginSteps
      BY <1>1 DEF Login!LoginSteps
    <2>2. QED
      BY <1>1, <2>1, LoginContinued, LoginViews DEF OthersKept, Login!VerifySteps
  <1>3. \A q \in Requests : request[q].step \in Login!VerifySteps =>
          request[q].code \in Codes /\ request[q].code # c
    BY <1>1, LoginRequests, LoginViews DEF AtLogin, LoginCodes
  <1>4. LoginCodes'
    BY <1>1, <1>2, <1>3, LoginViews DEF AtLogin, Login!TypeOK, LoginCodes, OthersKept
  <1>5. Spent' = Spent /\ c \notin Spent
    BY <1>1, LoginViews DEF Spent, Login!TypeOK
  <1>6. Valid' \subseteq Codes \ Spent
    BY <1>1, <1>5, LoginViews DEF Login!Valid
  <1>7. Holding' = Holding
    BY <1>2, LoginViews, UsedKept
  <1>8. QED
    BY <1>4, <1>5, <1>6, <1>7, ChangeStep DEF Once

\* Steps of a request that uses no code, and leaves what is stored alone.
LEMMA LoginQuietOnce ==
  ASSUME AtLogin, NEW r \in Requests, OthersKept(Requests, r), UNCHANGED <<otp, fate>>,
         request[r].step \notin Login!VerifySteps, request'[r].step \notin Login!VerifySteps
  PROVE  LoginCodes' /\ Once
  <1>1. LoginCodes'
    BY DEF AtLogin, LoginCodes, OthersKept
  <1>2. UNCHANGED <<Valid, Spent, Holding>>
    BY LoginViews, UsedKept DEF Login!Valid, Spent
  <1>3. QED
    BY <1>1, <1>2, NothingStep

\* Other steps of a log-in, of a refresh, of a log-out.
LEMMA LoginOthersOnce ==
  ASSUME AtLogin, NEW r \in Requests,
         \/ Login!login(r) \/ Login!NoteDevice(r) \/ Login!sendEmail(r)
         \/ Login!Refreshing(r) \/ Login!LoggingOut(r) \/ Login!Listing(r)
  PROVE  LoginCodes' /\ Once
  <1>1. UNCHANGED <<otp, fate>>
    BY DEF Login!login, Login!NoteDevice, Login!sendEmail, Login!Refreshing, Login!refreshToken,
           Login!FindSession, Login!LoggingOut, Login!logout, Login!DeleteSessions, Login!ReadKeys,
           Login!DeleteKeys, Login!Listing, Login!getAll, Login!verifyJwtToken, Login!ReadList,
           Login!admin
  <1>2. request[r].step \notin Login!VerifySteps
    BY DEF Login!login, Login!NoteDevice, Login!sendEmail, Login!Refreshing, Login!refreshToken,
           Login!FindSession, Login!LoggingOut, Login!logout, Login!DeleteSessions, Login!ReadKeys,
           Login!DeleteKeys, Login!Listing, Login!getAll, Login!verifyJwtToken, Login!ReadList,
           Login!Start, Login!Idle, Login!VerifySteps
  <1>3. OthersKept(Requests, r) /\ request'[r].step \notin Login!VerifySteps
    <2>1. CASE \/ Login!NoteDevice(r) \/ Login!sendEmail(r)
               \/ Login!FindSession(r) \/ Login!DeleteKeys(r)
               \/ Login!ReadKeys(r) /\ access = {}
      <3>1. CASE Login!Finish(r)
        BY <3>1, LoginFinished, LoginViews DEF OthersKept
      <3>2. CASE /\ request[r].step \in Login!LoginSteps
                 /\ \E next \in Login!LoginSteps : Login!Continue(r, next)
        BY <3>2, LoginContinued, LoginViews DEF OthersKept
      <3>3. QED
        BY <2>1, <3>1, <3>2
           DEF Login!NoteDevice, Login!sendEmail, Login!FindSession, Login!DeleteKeys,
               Login!ReadKeys, Login!LoginSteps
    <2>2. CASE Login!login(r) \/ Login!refreshToken(r) \/ Login!logout(r)
      <3>1. PICK q \in Login!Request : Login!Start(r, q) /\ q.step \notin Login!VerifySteps
        <4>1. CASE Login!login(r)
          <5> DEFINE q == [step |-> IF deviceKnown THEN "setOtp" ELSE "setDevice"]
          <5>1. q \in Login!Request /\ q.step \notin Login!VerifySteps
            BY DEF Login!Request, Login!LoginSteps, Login!VerifySteps
          <5>2. Login!Start(r, q)
            BY <4>1 DEF Login!login
          <5>3. QED
            BY <5>1, <5>2
        <4>2. CASE Login!refreshToken(r)
          <5> DEFINE q == [step |-> "findSession"]
          <5>1. q \in Login!Request /\ q.step \notin Login!VerifySteps
            BY DEF Login!Request, Login!RefreshSteps, Login!VerifySteps
          <5>2. Login!Start(r, q)
            BY <4>2 DEF Login!refreshToken
          <5>3. QED
            BY <5>1, <5>2
        <4>3. CASE Login!logout(r)
          <5> DEFINE q == [step |-> "deleteSessions", before |-> entered, keys |-> {}]
          <5>1. q \in Login!Request /\ q.step \notin Login!VerifySteps
            BY LoginViews DEF Login!TypeOK, Login!Request, Login!LogoutSteps, Login!VerifySteps
          <5>2. Login!Start(r, q)
            BY <4>3 DEF Login!logout
          <5>3. QED
            BY <5>1, <5>2
        <4>4. QED
          BY <2>2, <4>1, <4>2, <4>3
      <3>2. QED
        BY <3>1, LoginStarted, LoginViews DEF OthersKept
    <2>3. CASE Login!DeleteSessions(r)
      BY <2>3, LoginViews
         DEF Login!DeleteSessions, Login!Continue, Login!TypeOK, OthersKept, Login!VerifySteps
    <2>4. CASE Login!ReadKeys(r) /\ access # {}
      <3>1. OthersKept(Requests, r)
        BY <2>4, LoginViews DEF Login!ReadKeys, Login!TypeOK, OthersKept
      <3>2. request'[r].step = "deleteKeys"
        <4>1. request'[r] = [[request[r] EXCEPT !.step = "deleteKeys"] EXCEPT !.keys = access]
          BY <2>4, LoginViews DEF Login!ReadKeys, Login!TypeOK
        <4>2. request[r] \in [step: Login!LogoutSteps, before: SUBSET Tokens, keys: SUBSET Tokens]
          BY <2>4, LoginRequests, LoginViews DEF Login!ReadKeys, Login!LogoutSteps
        <4>3. QED
          BY <4>1, <4>2
      <3>3. QED
        BY <3>1, <3>2 DEF Login!VerifySteps
    <2>5. CASE Login!Listing(r)
      BY <2>5, ListingMoves, LoginViews DEF OthersKept
    <2>6. QED
      BY <2>1, <2>2, <2>3, <2>4, <2>5 DEF Login!Refreshing, Login!LoggingOut
  <1>4. QED
    BY <1>1, <1>2, <1>3, LoginQuietOnce

\* A verification is let in with the code, removes it, and is acknowledged later.
LEMMA VerifyingOnce ==
  ASSUME AtLogin, NEW r \in Requests, Login!Verifying(r)
  PROVE  LoginCodes' /\ Once
  <1>1. ASSUME NEW t \in Tokens, Login!verifyOtp(r, t) PROVE LoginCodes' /\ Once
    <2> DEFINE q == [step |-> "unsetOtp", code |-> otp, token |-> t]
    <2>1. /\ otp # NoCode /\ request[r] = Login!Idle /\ request' = [request EXCEPT ![r] = q]
          /\ UNCHANGED <<otp, fate>>
      BY <1>1 DEF Login!verifyOtp, Login!Start, Login!admin
    <2>2. q.step = "unsetOtp" /\ q.code = otp
      OBVIOUS
    <2> HIDE DEF q
    <2>3. OthersKept(Requests, r) /\ request'[r] = q
      BY <2>1, LoginViews DEF Login!TypeOK, OthersKept
    <2>4. LoginCodes'
      BY <2>1, <2>2, <2>3 DEF AtLogin, LoginCodes, OthersKept
    <2>5. /\ request[r].step \notin Login!VerifySteps /\ request'[r].step \in Login!VerifySteps
          /\ request'[r].code \in Valid
      BY <2>1, <2>2, <2>3, LoginViews DEF Login!Idle, Login!VerifySteps, Login!Valid
    <2>6. UNCHANGED <<Valid, Spent>>
      BY <2>1, LoginViews DEF Login!Valid, Spent
    <2>7. QED
      BY <2>3, <2>4, <2>5, <2>6, AcceptStep, LoginViews DEF Once
  <1>2. CASE Login!UnsetOtp(r) \/ Login!SetKey(r)
    <2>1. /\ OthersKept(Requests, r)
          /\ request[r].step \in Login!VerifySteps /\ request'[r].step \in Login!VerifySteps
          /\ request'[r].code = request[r].code
          /\ UNCHANGED fate /\ otp' \in {otp, NoCode}
          /\ request[r].step = "unsetOtp" => otp' = NoCode
      BY <1>2, VerifyContinued, LoginViews
         DEF Login!UnsetOtp, Login!SetKey, Login!VerifySteps, Login!admin, OthersKept
    <2>2. \A q \in Requests : request[q].step \in Login!VerifySteps => request[q].code # NoCode
      BY LoginRequests, LoginViews, CodeAssumption
    <2>3. LoginCodes'
      BY <2>1, <2>2 DEF AtLogin, LoginCodes, OthersKept
    <2>4. Valid' \subseteq Codes \ Spent /\ Spent' = Spent
      BY <2>1, LoginUnspent, LoginViews DEF Login!Valid, Spent
    <2>5. Holding' = Holding
      BY <2>1, UsedKept, LoginViews
    <2>6. QED
      BY <2>3, <2>4, <2>5, ChangeStep DEF Once
  <1>3. CASE Login!InsertSession(r)
    <2> DEFINE c == request[r].code
    <2>1. /\ request[r].step = "insertSession" /\ fate' = [fate EXCEPT ![c] = "spent"]
          /\ UNCHANGED otp
      BY <1>3 DEF Login!InsertSession, Login!Acknowledge, Login!admin
    <2>2. /\ OthersKept(Requests, r) /\ request'[r].step \notin Login!VerifySteps
      BY <1>3, LoginFinished, LoginViews DEF Login!InsertSession, OthersKept
    <2>3. request[r].step \in Login!VerifySteps /\ c \in Codes /\ otp # c
      BY <2>1, LoginRequests, LoginViews DEF AtLogin, LoginCodes, Login!VerifySteps
    <2>4. fate \in [Codes -> Fates]
      BY LoginViews DEF Login!TypeOK, Fates, Login!Fates
    <2>5. \A q \in Requests : request[q].step \in Login!VerifySteps => request[q].code \in Codes
      BY LoginRequests, LoginViews
    <2>6. Spent' = Spent \cup {c}
      BY <2>1, <2>3, <2>4 DEF Spent
    <2> HIDE DEF c
    <2>7. LoginCodes'
      BY <2>1, <2>2, <2>3, <2>4, <2>5, LoginViews DEF AtLogin, Login!TypeOK, LoginCodes, OthersKept
    <2>8. Valid' \subseteq Valid \ Spent'
      BY <2>1, <2>3, <2>6, LoginUnspent, LoginViews DEF Login!Valid
    <2>9. Secret!Next
      BY <2>1, <2>2, <2>3, <2>4, <2>8, AcknowledgeStep, LoginViews DEF c
    <2>10. QED
      BY <2>7, <2>9 DEF Once
  <1>4. QED
    BY <1>1, <1>2, <1>3 DEF Login!Verifying

\* Codes and keys run out, calls fail, the service restarts.
LEMMA LoginLossOnce ==
  ASSUME AtLogin,
         \/ \E r \in Requests : Login!RequestFails(r)
         \/ \E t \in Tokens : Login!KeyExpires(t)
         \/ Login!OtpExpires
         \/ Login!Restart
  PROVE  LoginCodes' /\ Once
  <1>1. PICK E \in SUBSET Requests :
          /\ \A q \in E : request'[q].step \notin Login!VerifySteps
          /\ \A q \in Requests \ E : request'[q] = request[q]
    <2>1. CASE \E r \in Requests : Login!RequestFails(r)
      <3>1. PICK r \in Requests : Login!RequestFails(r)
        BY <2>1
      <3>2. /\ \A q \in {r} : request'[q].step \notin Login!VerifySteps
            /\ \A q \in Requests \ {r} : request'[q] = request[q]
        BY <3>1, LoginFinished, LoginViews DEF Login!RequestFails, Login!Failure
      <3>3. {r} \in SUBSET Requests
        OBVIOUS
      <3>4. QED
        BY <3>2, <3>3
    <2>2. CASE UNCHANGED request
      <3>1. /\ {} \in SUBSET Requests
            /\ \A q \in {} : request'[q].step \notin Login!VerifySteps
            /\ \A q \in Requests \ {} : request'[q] = request[q]
        BY <2>2
      <3>2. QED
        BY <3>1
    <2>3. CASE Login!Restart
      <3>1. /\ Requests \in SUBSET Requests
            /\ \A q \in Requests : request'[q].step \notin Login!VerifySteps
        BY <2>3 DEF Login!Restart, Login!Restarted, Login!Idle, Login!VerifySteps
      <3>2. QED
        BY <3>1
    <2>4. QED
      BY <2>1, <2>2, <2>3 DEF Login!KeyExpires, Login!OtpExpires
  <1>2. UNCHANGED fate /\ otp' \in {otp, NoCode}
    BY DEF Login!RequestFails, Login!KeyExpires, Login!OtpExpires, Login!Restart, Login!admin
  <1>3. \A q \in Requests : request[q].step \in Login!VerifySteps => request[q].code # NoCode
    BY LoginRequests, LoginViews, CodeAssumption
  <1>4. LoginCodes'
    BY <1>1, <1>2, <1>3 DEF AtLogin, LoginCodes
  <1>5. Valid' \subseteq Valid /\ Spent' = Spent
    BY <1>2, LoginViews DEF Login!Valid, Spent
  <1>6. Secret!Next
    BY <1>1, <1>5, GiveUpStep, LoginViews
  <1>7. QED
    BY <1>4, <1>6 DEF Once

\* Every step of the log-in is one of SingleUse, or none.
LEMMA LoginNextOnce ==
  ASSUME AtLogin, Login!Next PROVE LoginCodes' /\ Once
  <1>1. ASSUME NEW r \in Requests, Login!LoggingIn(r) PROVE LoginCodes' /\ Once
    BY <1>1, SetOtpOnce, LoginOthersOnce DEF Login!LoggingIn
  <1>2. QED
    BY <1>1, LoginOthersOnce, VerifyingOnce, LoginLossOnce DEF Login!Next

----------------------------------------------------------------------------
(* Customers who forgot the password: a token is a key, and is deleted.    *)

\* The steps of a request that uses a token.
UsingToken == {"savePassword", "removeToken"}

ForgotCodes ==
  /\ \A c \in reset : fate[c] = "drawn"
  /\ \A r \in Requests : request[r].step \in UsingToken => fate[request[r].code] # "new"

ForgotIInv == Forgot!TypeOK /\ ForgotCodes

\* What the secrets of Accounts are then.
LEMMA ForgotView ==
  service = "forgot" => /\ Valid = reset
                        /\ Holding = CodesUsed(Requests, UsingToken)
  BY DEF Valid, Holding, HoldingOf, Forgot!Valid, Forgot!Holding, CodesUsed, AllRequests, UsingToken

AtForgot == service = "forgot" /\ service' = "forgot" /\ ForgotIInv

\* It is also what they are after a step.
LEMMA ForgotViews ==
  ASSUME AtForgot
  PROVE  /\ Valid = reset /\ Valid' = reset'
         /\ Holding = CodesUsed(Requests, UsingToken)
         /\ Holding' = CodesUsed(Requests, UsingToken)'
         /\ Requests \in SUBSET AllRequests
         /\ Forgot!TypeOK
         /\ fate \in [Codes -> Fates]
         /\ reset \subseteq Codes \ Spent
  <1>1. (service = "forgot" => /\ Valid = reset
                               /\ Holding = CodesUsed(Requests, UsingToken))'
    BY ForgotView, PTL
  <1>2. fate \in [Codes -> Fates] /\ reset \subseteq Codes \ Spent
    BY DEF AtForgot, ForgotIInv, ForgotCodes, Forgot!TypeOK, Fates, Forgot!Fates, Spent
  <1>3. QED
    BY <1>1, <1>2, ForgotView DEF AtForgot, AllRequests, ForgotIInv

\* The token of a request that uses one.
LEMMA ForgotRequests ==
  ASSUME Forgot!TypeOK, NEW r \in Requests
  PROVE  /\ request[r].step \in UsingToken =>
              request[r] \in [step: UsingToken, code: Codes]
         /\ request[r].step \in UsingToken \cup {"idle", "setToken"}
  BY DEF Forgot!TypeOK, Forgot!Request, Forgot!Idle, UsingToken

\* A request that ends.
LEMMA ForgotFinished ==
  ASSUME Forgot!TypeOK, NEW r \in Requests, Forgot!Finish(r)
  PROVE  /\ request' \in [Requests -> Forgot!Request \cup {Forgot!Idle}]
         /\ OthersKept(Requests, r) /\ request'[r].step \notin UsingToken
  BY DEF Forgot!TypeOK, Forgot!Finish, Forgot!Idle, OthersKept, UsingToken

\* A request that starts.
LEMMA ForgotStarted ==
  ASSUME Forgot!TypeOK, NEW r \in Requests, NEW q \in Forgot!Request, Forgot!Start(r, q)
  PROVE  /\ request' \in [Requests -> Forgot!Request \cup {Forgot!Idle}]
         /\ OthersKept(Requests, r) /\ request'[r] = q /\ request[r].step \notin UsingToken
  BY DEF Forgot!TypeOK, Forgot!Start, Forgot!Idle, OthersKept, UsingToken

\* A token is asked for, and drawn.
LEMMA ForgotDrawn ==
  ASSUME AtForgot, NEW r \in Requests,
         Forgot!forgotPassword(r) \/ \E c \in Codes : Forgot!generate(r, c)
  PROVE  ForgotIInv' /\ Once
  <1>1. CASE Forgot!forgotPassword(r)
    <2> DEFINE q == [step |-> "setToken"]
    <2>1. q \in Forgot!Request /\ q.step \notin UsingToken
      BY DEF Forgot!Request, UsingToken
    <2>2. Forgot!Start(r, q) /\ UNCHANGED <<reset, fate, faults>>
      BY <1>1 DEF Forgot!forgotPassword
    <2> HIDE DEF q
    <2>3. /\ request' \in [Requests -> Forgot!Request \cup {Forgot!Idle}]
          /\ OthersKept(Requests, r) /\ request'[r] = q /\ request[r].step \notin UsingToken
      BY <2>1, <2>2, ForgotStarted, ForgotViews
    <2>4. ForgotIInv'
      BY <2>1, <2>2, <2>3 DEF AtForgot, ForgotIInv, Forgot!TypeOK, ForgotCodes, OthersKept
    <2>5. UNCHANGED <<Valid, Spent, Holding>>
      BY <2>1, <2>2, <2>3, UsedKept, ForgotViews DEF Spent
    <2>6. QED
      BY <2>4, <2>5, NothingStep
  <1>2. ASSUME NEW c \in Codes, Forgot!generate(r, c) PROVE ForgotIInv' /\ Once
    <2>1. /\ request[r].step = "setToken" /\ fate[c] = "new"
          /\ fate' = [fate EXCEPT ![c] = "drawn"] /\ reset' = reset \cup {c}
          /\ UNCHANGED faults
      BY <1>2 DEF Forgot!generate, Forgot!Draw
    <2>2. /\ request' \in [Requests -> Forgot!Request \cup {Forgot!Idle}]
          /\ OthersKept(Requests, r) /\ request'[r].step \notin UsingToken
      BY <1>2, ForgotFinished, ForgotViews DEF Forgot!generate
    <2>3. Forgot!TypeOK'
      BY <2>1, <2>2, ForgotViews DEF Forgot!TypeOK, Forgot!Fates
    <2>4. ForgotCodes'
      BY <2>1, <2>2, ForgotRequests, ForgotViews
         DEF AtForgot, ForgotIInv, ForgotCodes, Forgot!TypeOK, OthersKept
    <2>5. Spent' = Spent /\ c \notin Spent
      BY <2>1, ForgotViews DEF Spent
    <2>6. Valid' \subseteq Codes \ Spent
      BY <2>1, <2>5, ForgotViews
    <2>7. Holding' = Holding
      BY <2>1, <2>2, UsedKept, ForgotViews DEF UsingToken
    <2>8. QED
      BY <2>3, <2>4, <2>5, <2>6, <2>7, ChangeStep DEF ForgotIInv, Once
  <1>3. QED
    BY <1>1, <1>2

\* A token is accepted, used, and deleted.
LEMMA ForgotUsed ==
  ASSUME AtForgot, NEW r \in Requests,
         \/ \E c \in Codes : Forgot!resetPassword(r, c)
         \/ Forgot!updatePassword(r) \/ Forgot!remove(r)
  PROVE  ForgotIInv' /\ Once
  <1>1. ASSUME NEW c \in Codes, Forgot!resetPassword(r, c) PROVE ForgotIInv' /\ Once
    <2> DEFINE q == [step |-> "savePassword", code |-> c]
    <2>1. q \in Forgot!Request /\ q.step \in UsingToken /\ q.code = c
      BY DEF Forgot!Request, UsingToken
    <2>2. Forgot!Start(r, q) /\ c \in reset /\ UNCHANGED <<reset, fate, faults>>
      BY <1>1 DEF Forgot!resetPassword
    <2> HIDE DEF q
    <2>3. /\ request' \in [Requests -> Forgot!Request \cup {Forgot!Idle}]
          /\ OthersKept(Requests, r) /\ request'[r] = q /\ request[r].step \notin UsingToken
      BY <2>1, <2>2, ForgotStarted, ForgotViews
    <2>4. ForgotIInv'
      BY <2>1, <2>2, <2>3 DEF AtForgot, ForgotIInv, Forgot!TypeOK, ForgotCodes, OthersKept
    <2>5. UNCHANGED <<Valid, Spent>> /\ request'[r].code \in Valid
      BY <2>1, <2>2, <2>3, ForgotViews DEF Spent
    <2>6. QED
      BY <2>1, <2>3, <2>4, <2>5, AcceptStep, ForgotViews DEF Once
  <1>2. CASE Forgot!updatePassword(r)
    <2> DEFINE n == [request[r] EXCEPT !.step = "removeToken"]
    <2>1. request[r].step \in UsingToken /\ UNCHANGED <<reset, fate, faults>>
      BY <1>2 DEF Forgot!updatePassword, UsingToken
    <2>2. n \in [step: UsingToken, code: Codes] /\ n.code = request[r].code
      BY <2>1, ForgotRequests, ForgotViews DEF UsingToken
    <2>3. request' = [request EXCEPT ![r] = n]
      BY <1>2 DEF Forgot!updatePassword, Forgot!Continue
    <2> HIDE DEF n
    <2>4. OthersKept(Requests, r) /\ request'[r] = n
      BY <2>3, ForgotViews DEF Forgot!TypeOK, OthersKept
    <2>5. n \in Forgot!Request /\ n.step \in UsingToken
      BY <2>2 DEF Forgot!Request, UsingToken
    <2>6. ForgotIInv'
      BY <2>1, <2>2, <2>3, <2>4, <2>5
         DEF AtForgot, ForgotIInv, Forgot!TypeOK, ForgotCodes, OthersKept
    <2>7. UNCHANGED <<Valid, Spent, Holding>>
      BY <2>1, <2>2, <2>4, <2>5, UsedKept, ForgotViews DEF Spent
    <2>8. QED
      BY <2>6, <2>7, NothingStep
  <1>3. CASE Forgot!remove(r)
    <2> DEFINE c == request[r].code
    <2>1. /\ request[r].step \in UsingToken
          /\ reset' = reset \ {c} /\ fate' = [fate EXCEPT ![c] = "spent"] /\ UNCHANGED faults
      BY <1>3 DEF Forgot!remove, Forgot!Acknowledge, UsingToken
    <2>2. c \in Codes
      BY <2>1, ForgotRequests, ForgotViews
    <2>3. /\ request' \in [Requests -> Forgot!Request \cup {Forgot!Idle}]
          /\ OthersKept(Requests, r) /\ request'[r].step \notin UsingToken
      BY <1>3, ForgotFinished, ForgotViews DEF Forgot!remove
    <2>4. Spent' = Spent \cup {c}
      BY <2>1, <2>2, ForgotViews DEF Spent
    <2> HIDE DEF c
    <2>5. Forgot!TypeOK'
      BY <2>1, <2>2, <2>3, ForgotViews DEF Forgot!TypeOK, Forgot!Fates
    <2>6. ForgotCodes'
      BY <2>1, <2>2, <2>3, ForgotRequests, ForgotViews
         DEF AtForgot, ForgotIInv, ForgotCodes, Forgot!TypeOK, OthersKept
    <2>7. Valid' \subseteq Valid \ Spent'
      BY <2>1, <2>4, ForgotViews
    <2>8. Secret!Next
      BY <2>1, <2>2, <2>3, <2>7, AcknowledgeStep, ForgotViews DEF c
    <2>9. QED
      BY <2>5, <2>6, <2>8 DEF ForgotIInv, Once
  <1>4. QED
    BY <1>1, <1>2, <1>3

\* A key runs out, or a call fails.
LEMMA ForgotLost ==
  ASSUME AtForgot,
         \/ \E r \in Requests : Forgot!RequestFails(r)
         \/ \E c \in Codes : Forgot!ResetExpires(c)
  PROVE  ForgotIInv' /\ Once
  <1>1. PICK E \in SUBSET Requests :
          /\ \A q \in E : request'[q].step \notin UsingToken
          /\ \A q \in Requests \ E : request'[q] = request[q]
          /\ request' \in [Requests -> Forgot!Request \cup {Forgot!Idle}]
    <2>1. CASE \E r \in Requests : Forgot!RequestFails(r)
      <3>1. PICK r \in Requests : Forgot!RequestFails(r)
        BY <2>1
      <3>2. /\ \A q \in {r} : request'[q].step \notin UsingToken
            /\ \A q \in Requests \ {r} : request'[q] = request[q]
            /\ request' \in [Requests -> Forgot!Request \cup {Forgot!Idle}]
        BY <3>1, ForgotFinished, ForgotViews DEF Forgot!RequestFails, Forgot!Failure, OthersKept
      <3>3. {r} \in SUBSET Requests
        OBVIOUS
      <3>4. QED
        BY <3>2, <3>3
    <2>2. CASE UNCHANGED request
      <3>1. /\ {} \in SUBSET Requests
            /\ \A q \in {} : request'[q].step \notin UsingToken
            /\ \A q \in Requests \ {} : request'[q] = request[q]
            /\ request' \in [Requests -> Forgot!Request \cup {Forgot!Idle}]
        BY <2>2, ForgotViews DEF Forgot!TypeOK
      <3>2. QED
        BY <3>1
    <2>3. QED
      BY <2>1, <2>2 DEF Forgot!ResetExpires
  <1>2. UNCHANGED fate /\ reset' \subseteq reset /\ faults' \in 0..MaxFaults
    BY FaultsAssumption, ForgotViews
       DEF Forgot!RequestFails, Forgot!Failure, Forgot!Fault, Forgot!ResetExpires, Forgot!TypeOK
  <1>3. ForgotIInv'
    BY <1>1, <1>2 DEF AtForgot, ForgotIInv, Forgot!TypeOK, ForgotCodes
  <1>4. Valid' \subseteq Valid /\ Spent' = Spent
    BY <1>2, ForgotViews DEF Spent
  <1>5. Secret!Next
    BY <1>1, <1>4, GiveUpStep, ForgotViews
  <1>6. QED
    BY <1>3, <1>5 DEF Once

\* Every step of a customer's reset is one of SingleUse, or none.
LEMMA ForgotNextOnce ==
  ASSUME AtForgot, Forgot!Next PROVE ForgotIInv' /\ Once
  BY ForgotDrawn, ForgotUsed, ForgotLost DEF Forgot!Next

----------------------------------------------------------------------------
(* The administrator's reset: MongoDB forgets the token first, then Redis. *)

\* The steps of a request that has a token to store.
Storing == {"saveAgain", "saveNew", "setCache"}

\* Who stores a token has one, although the document need not have had one.
ResetTyped ==
  /\ Reset!TypeOK
  /\ \A r \in ResetRequests : request[r].step \in Storing => request[r].token.code \in Codes

Unused(c) == c # NoCode => fate[c] = "drawn"

ResetCodes ==
  /\ Unused(mongo.code) /\ Unused(cache.code)
  /\ \A r \in ResetRequests :
       /\ request[r].step \in {"readCache"} \cup Storing => Unused(request[r].token.code)
       /\ request[r].step \in Reset!ResetSteps => fate[request[r].code] # "new"
       /\ request[r].step = "deleteCache" => mongo = Reset!NoToken

\* Resets are taken one at a time.
OneReset == \A q, r \in ResetRequests : q = r

\* What the secrets of Accounts are then.
LEMMA ResetView ==
  service = "reset" => /\ Valid = Reset!Valid
                       /\ Holding = CodesUsed(ResetRequests, Reset!ResetSteps)
  BY DEF Valid, Holding, HoldingOf, Reset!Holding, CodesUsed, AllRequests

AtReset == service = "reset" /\ service' = "reset" /\ ResetTyped

\* It is also what they are after a step.
LEMMA ResetViews ==
  ASSUME AtReset
  PROVE  /\ Valid = Reset!Valid /\ Valid' = Reset!Valid'
         /\ Holding = CodesUsed(ResetRequests, Reset!ResetSteps)
         /\ Holding' = CodesUsed(ResetRequests, Reset!ResetSteps)'
         /\ ResetRequests \in SUBSET AllRequests
         /\ fate \in [Codes -> Fates]
  <1>1. (service = "reset" => /\ Valid = Reset!Valid
                              /\ Holding = CodesUsed(ResetRequests, Reset!ResetSteps))'
    BY ResetView, PTL
  <1>2. fate \in [Codes -> Fates]
    BY DEF AtReset, ResetTyped, Reset!TypeOK, Fates, Reset!Fates
  <1>3. QED
    BY <1>1, <1>2, ResetView DEF AtReset, AllRequests

\* A token that is alive is one; what is kept for an hour can be stored.
LEMMA StoredTokens ==
  ASSUME Reset!TypeOK
  PROVE  /\ \A t \in Reset!Stored : Reset!Alive(t) => t.code \in Codes
         /\ \A c \in Codes : /\ Reset!ForAnHour(c) \in Reset!Stored
                              /\ Reset!ForAnHour(c).code = c
         /\ Reset!NoToken \in Reset!Stored /\ Reset!NoToken.code = NoCode
         /\ ~Reset!Alive(Reset!NoToken)
         /\ mongo \in Reset!Stored /\ cache \in Reset!Stored
  BY AccountsAssumption
     DEF Reset!TypeOK, Reset!Stored, Reset!NoToken, Reset!Alive, Reset!ForAnHour, Reset!Times

Forgetful == [step: Reset!ForgotSteps, token: Reset!Stored]
Resetful == [step: Reset!ResetSteps, code: Codes]

\* What the step of a request says about its other fields.
LEMMA ResetRequestTypes ==
  ASSUME Reset!TypeOK, NEW r \in ResetRequests
  PROVE  /\ request[r].step \in Reset!ForgotSteps => request[r] \in Forgetful
         /\ request[r].step \in Reset!ResetSteps => request[r] \in Resetful
         /\ request[r] = Reset!Idle =>
              request[r].step \notin Reset!ForgotSteps \cup Reset!ResetSteps
  BY DEF Reset!TypeOK, Reset!Request, Reset!Idle, Reset!ForgotSteps, Reset!ResetSteps, Forgetful,
         Resetful

\* The steps of the one are not those of the other.
LEMMA ResetStepsApart ==
  /\ Storing \cup {"readCache", "mail"} = Reset!ForgotSteps
  /\ Reset!ForgotSteps \cap Reset!ResetSteps = {}
  /\ "idle" \notin Reset!ForgotSteps \cup Reset!ResetSteps
  /\ "deleteCache" \in Reset!ResetSteps
  BY DEF Storing, Reset!ForgotSteps, Reset!ResetSteps

\* Requests that start, go on and end are requests.
LEMMA ResetRequestsKept ==
  ASSUME Reset!TypeOK, NEW r \in ResetRequests, NEW n \in Forgetful \cup Resetful \cup {Reset!Idle},
         request' = [request EXCEPT ![r] = n]
  PROVE  /\ request' \in [ResetRequests -> Reset!Request \cup {Reset!Idle}]
         /\ OthersKept(ResetRequests, r) /\ request'[r] = n
  BY DEF Reset!TypeOK, Reset!Request, Forgetful, Resetful, OthersKept

\* A request to be mailed a token that goes on, with the same token or another.
LEMMA ForgottenGoes ==
  ASSUME Reset!TypeOK, NEW r \in ResetRequests, request[r].step \in Reset!ForgotSteps,
         NEW next \in Reset!ForgotSteps, NEW t \in Reset!Stored,
         \/ request' = [request EXCEPT ![r].step = next] /\ t = request[r].token
         \/ request' = [request EXCEPT ![r].step = next, ![r].token = t]
  PROVE  /\ request' \in [ResetRequests -> Reset!Request \cup {Reset!Idle}]
         /\ OthersKept(ResetRequests, r)
         /\ request[r].step \notin Reset!ResetSteps /\ request'[r].step \notin Reset!ResetSteps
         /\ request'[r].step = next /\ request'[r].token = t
  <1> DEFINE n == [step |-> next, token |-> t]
  <1>1. request[r] \in Forgetful
    BY ResetRequestTypes
  <1>2. request' = [request EXCEPT ![r] = n]
    <2>1. [request[r] EXCEPT !.step = next] = [step |-> next, token |-> request[r].token]
      BY <1>1 DEF Forgetful
    <2>2. [[request[r] EXCEPT !.step = next] EXCEPT !.token = t] = n
      <3>1. [[step |-> next, token |-> request[r].token] EXCEPT !.token = t] = n
        OBVIOUS
      <3>2. QED
        BY <2>1, <3>1
    <2>3. request \in [ResetRequests -> Reset!Request \cup {Reset!Idle}]
      BY DEF Reset!TypeOK
    <2>4. CASE request' = [request EXCEPT ![r].step = next] /\ t = request[r].token
      BY <2>1, <2>4
    <2>5. CASE request' = [request EXCEPT ![r].step = next, ![r].token = t]
      BY <2>2, <2>3, <2>5
    <2>6. QED
      BY <2>4, <2>5
  <1>3. n \in Forgetful /\ n.step = next /\ n.token = t
    BY DEF Forgetful
  <1> HIDE DEF n
  <1>4. QED
    BY <1>2, <1>3, ResetRequestsKept, ResetStepsApart

\* A request to use a token that goes on.
LEMMA ResettingGoes ==
  ASSUME Reset!TypeOK, NEW r \in ResetRequests, request[r].step \in Reset!ResetSteps,
         NEW next \in Reset!ResetSteps, Reset!Continue(r, next)
  PROVE  /\ request' \in [ResetRequests -> Reset!Request \cup {Reset!Idle}]
         /\ OthersKept(ResetRequests, r)
         /\ request'[r].step = next /\ request'[r].code = request[r].code
  <1> DEFINE n == [step |-> next, code |-> request[r].code]
  <1>1. request[r] \in Resetful
    BY ResetRequestTypes
  <1>2. request' = [request EXCEPT ![r] = n]
    <2>1. [request[r] EXCEPT !.step = next] = n
      BY <1>1 DEF Resetful
    <2>2. QED
      BY <2>1 DEF Reset!Continue
  <1>3. n \in Resetful /\ n.step = next /\ n.code = request[r].code
    BY <1>1 DEF Resetful
  <1> HIDE DEF n
  <1>4. QED
    BY <1>2, <1>3, ResetRequestsKept

\* A request that ends.
LEMMA ResetFinished ==
  ASSUME Reset!TypeOK, NEW r \in ResetRequests, Reset!Finish(r)
  PROVE  /\ request' \in [ResetRequests -> Reset!Request \cup {Reset!Idle}]
         /\ OthersKept(ResetRequests, r) /\ request'[r].step = "idle"
  BY DEF Reset!TypeOK, Reset!Finish, Reset!Idle, OthersKept

\* What each step has to keep and, with one reset at a time, to be.
ResetKept == ResetTyped' /\ (OneReset /\ ResetCodes => ResetCodes' /\ Once)

\* The state apart from requests stays what it has to be.
LEMMA ResetTypedKept ==
  ASSUME AtReset, NEW r \in ResetRequests, OthersKept(ResetRequests, r),
         request' \in [ResetRequests -> Reset!Request \cup {Reset!Idle}],
         request'[r].step \in Storing => request'[r].token.code \in Codes,
         now' \in Reset!Times \ {0}, signed' \in [Codes -> Reset!Times],
         mongo' \in Reset!Stored, cache' \in Reset!Stored, fate' \in [Codes -> Fates],
         faults' \in 0..MaxFaults
  PROVE  ResetTyped'
  BY DEF AtReset, ResetTyped, Reset!TypeOK, OthersKept, Fates, Reset!Fates

\* Steps of a request that uses no token, and draws none.
LEMMA ForgottenOnce ==
  ASSUME AtReset, OneReset, ResetCodes, NEW r \in ResetRequests, OthersKept(ResetRequests, r),
         request[r].step \notin Reset!ResetSteps, request'[r].step \notin Reset!ResetSteps,
         UNCHANGED <<now, fate>>,
         Unused(mongo.code)', Unused(cache.code)',
         request'[r].step \in {"readCache"} \cup Storing => Unused(request'[r].token.code),
         cache' \in Reset!Stored
  PROVE  ResetCodes' /\ Once
  <1>1. \A q \in ResetRequests : q = r
    BY DEF OneReset
  <1>2. ResetCodes'
    BY <1>1, ResetStepsApart DEF ResetCodes, Unused
  <1>3. Valid' \subseteq Codes \ Spent
    BY ResetViews, CodeAssumption DEF Reset!Valid, Spent, Unused
  <1>4. Spent' = Spent
    BY DEF Spent
  <1>5. Holding' = Holding
    BY UsedKept, ResetViews
  <1>6. QED
    BY <1>2, <1>3, <1>4, <1>5, ChangeStep DEF Once

\* A token is looked for, found or drawn.
LEMMA LookingKeeps ==
  ASSUME AtReset, NEW r \in ResetRequests,
         \/ Reset!forgotPassword(r) \/ Reset!FoundInCache(r) \/ Reset!FoundInDocument(r)
         \/ \E c \in Codes : Reset!SignToken(r, c)
  PROVE  ResetKept
  <1>1. CASE Reset!forgotPassword(r)
    <2> DEFINE n == [step |-> "readCache", token |-> mongo]
    <2>1. /\ n \in Forgetful /\ n.step = "readCache" /\ n.token = mongo
          /\ request[r] = Reset!Idle /\ request' = [request EXCEPT ![r] = n]
          /\ UNCHANGED <<now, signed, mongo, cache, fate, faults>>
      BY <1>1, StoredTokens
         DEF Reset!forgotPassword, Reset!Start, Forgetful, Reset!ForgotSteps, AtReset, ResetTyped
    <2> HIDE DEF n
    <2>2. /\ request' \in [ResetRequests -> Reset!Request \cup {Reset!Idle}]
          /\ OthersKept(ResetRequests, r) /\ request'[r] = n
          /\ request[r].step \notin Reset!ResetSteps /\ request'[r].step \notin Reset!ResetSteps
      BY <2>1, ResetRequestsKept, ResetRequestTypes, ResetStepsApart DEF AtReset, ResetTyped
    <2>3. ResetTyped'
      BY <2>1, <2>2, ResetTypedKept, ResetViews DEF Storing, AtReset, ResetTyped, Reset!TypeOK
    <2>4. ASSUME OneReset, ResetCodes PROVE ResetCodes' /\ Once
      <3>1. /\ Unused(mongo.code)' /\ Unused(cache.code)' /\ Unused(request'[r].token.code)
            /\ cache' \in Reset!Stored
        BY <2>1, <2>2, <2>4, StoredTokens DEF ResetCodes, Unused, AtReset, ResetTyped
      <3>2. QED
        BY <2>1, <2>2, <2>4, <3>1, ForgottenOnce
    <2>5. QED
      BY <2>3, <2>4 DEF ResetKept
  <1>2. CASE Reset!FoundInCache(r) \/ Reset!FoundInDocument(r)
    <2> DEFINE t == IF Reset!FoundInCache(r) THEN cache ELSE request[r].token
    <2>1. /\ request[r].step = "readCache" /\ Reset!Alive(t)
          /\ UNCHANGED <<now, signed, mongo, cache, fate, faults>>
      BY <1>2 DEF Reset!FoundInCache, Reset!FoundInDocument
    <2>2. request[r].step \in Reset!ForgotSteps /\ request[r].token \in Reset!Stored
      BY <2>1, ResetRequestTypes DEF Reset!ForgotSteps, Forgetful, AtReset, ResetTyped
    <2>3. t \in Reset!Stored /\ t.code \in Codes
      BY <2>1, <2>2, StoredTokens DEF AtReset, ResetTyped
    <2>4. PICK next \in Storing :
            \/ request' = [request EXCEPT ![r].step = next] /\ t = request[r].token
            \/ request' = [request EXCEPT ![r].step = next, ![r].token = t]
      BY <1>2 DEF Reset!FoundInCache, Reset!FoundInDocument, Reset!Continue, Storing
    <2>5. ResetCodes => Unused(t.code)
      BY <2>1 DEF ResetCodes
    <2> HIDE DEF t
    <2>6. /\ request' \in [ResetRequests -> Reset!Request \cup {Reset!Idle}]
          /\ OthersKept(ResetRequests, r)
          /\ request[r].step \notin Reset!ResetSteps /\ request'[r].step \notin Reset!ResetSteps
          /\ request'[r].token = t
      BY <2>2, <2>3, <2>4, ForgottenGoes, ResetStepsApart DEF AtReset, ResetTyped
    <2>7. ResetTyped'
      BY <2>1, <2>3, <2>6, ResetTypedKept, ResetViews DEF AtReset, ResetTyped, Reset!TypeOK
    <2>8. ASSUME OneReset, ResetCodes PROVE ResetCodes' /\ Once
      <3>1. /\ Unused(mongo.code)' /\ Unused(cache.code)' /\ Unused(request'[r].token.code)
            /\ cache' \in Reset!Stored
        BY <2>1, <2>5, <2>6, <2>8, StoredTokens DEF ResetCodes, Unused, AtReset, ResetTyped
      <3>2. QED
        BY <2>1, <2>6, <2>8, <3>1, ForgottenOnce
    <2>9. QED
      BY <2>7, <2>8 DEF ResetKept
  <1>3. ASSUME NEW c \in Codes, Reset!SignToken(r, c) PROVE ResetKept
    <2> DEFINE t == Reset!ForAnHour(c)
    <2>1. /\ request[r].step = "readCache" /\ fate[c] = "new"
          /\ fate' = [fate EXCEPT ![c] = "drawn"]
          /\ signed' = [signed EXCEPT ![c] = now]
          /\ request' = [request EXCEPT ![r].step = "saveNew", ![r].token = t]
          /\ UNCHANGED <<now, mongo, cache, faults>>
      BY <1>3 DEF Reset!SignToken, Reset!Draw
    <2>2. request[r].step \in Reset!ForgotSteps /\ "saveNew" \in Reset!ForgotSteps
      BY <2>1 DEF Reset!ForgotSteps
    <2>3. t \in Reset!Stored /\ t.code = c
      BY StoredTokens DEF AtReset, ResetTyped
    <2> HIDE DEF t
    <2>4. /\ request' \in [ResetRequests -> Reset!Request \cup {Reset!Idle}]
          /\ OthersKept(ResetRequests, r)
          /\ request[r].step \notin Reset!ResetSteps /\ request'[r].step \notin Reset!ResetSteps
          /\ request'[r].step = "saveNew" /\ request'[r].token = t
      BY <2>1, <2>2, <2>3, ForgottenGoes DEF AtReset, ResetTyped
    <2>5. fate' \in [Codes -> Fates] /\ signed' \in [Codes -> Reset!Times]
      BY <2>1, ResetViews DEF Fates, AtReset, ResetTyped, Reset!TypeOK
    <2>6. ResetTyped'
      BY <2>1, <2>3, <2>4, <2>5, ResetTypedKept DEF AtReset, ResetTyped, Reset!TypeOK
    <2>7. ASSUME OneReset, ResetCodes PROVE ResetCodes' /\ Once
      <3>1. \A q \in ResetRequests : q = r
        BY <2>7 DEF OneReset
      <3>2. Unused(mongo.code)' /\ Unused(cache.code)' /\ Unused(request[r].token.code)'
        BY <2>1, <2>3, <2>4, <2>7, ResetViews DEF ResetCodes, Unused
      <3>3. ResetCodes'
        BY <2>4, <3>1, <3>2 DEF ResetCodes
      <3>4. Spent' = Spent
        BY <2>1, ResetViews DEF Spent
      <3>5. Valid' = Valid
        BY <2>1, ResetViews DEF Reset!Valid, Reset!Alive
      <3>6. Holding' = Holding
        BY <2>4, UsedKept, ResetViews
      <3>7. QED
        BY <3>3, <3>4, <3>5, <3>6, NothingStep
    <2>8. QED
      BY <2>6, <2>7 DEF ResetKept
  <1>4. QED
    BY <1>1, <1>2, <1>3

\* A token is stored, and mailed.
LEMMA StoringKeeps ==
  ASSUME AtReset, NEW r \in ResetRequests,
         Reset!SaveToken(r) \/ Reset!SetCache(r) \/ Reset!sendEmail(r)
  PROVE  ResetKept
  <1>1. CASE Reset!SaveToken(r) \/ Reset!SetCache(r)
    <2> DEFINE t == request[r].token
    <2>1. request[r].step \in Storing /\ UNCHANGED <<now, signed, fate, faults>>
      BY <1>1 DEF Reset!SaveToken, Reset!SetCache, Storing
    <2>2. t \in Reset!Stored /\ t.code \in Codes /\ request[r].step \in Reset!ForgotSteps
      BY <2>1, ResetRequestTypes, ResetStepsApart DEF Forgetful, AtReset, ResetTyped
    <2>3. PICK next \in Storing \cup {"mail"} : request' = [request EXCEPT ![r].step = next]
      BY <1>1 DEF Reset!SaveToken, Reset!SetCache, Reset!Continue, Storing
    <2>4. /\ mongo' \in {mongo, Reset!ForAnHour(t.code)}
          /\ cache' \in {cache, Reset!ForAnHour(t.code)}
      BY <1>1 DEF Reset!SaveToken, Reset!SetCache
    <2>5. ResetCodes => Unused(t.code)
      BY <2>1 DEF ResetCodes
    <2> HIDE DEF t
    <2>6. /\ request' \in [ResetRequests -> Reset!Request \cup {Reset!Idle}]
          /\ OthersKept(ResetRequests, r)
          /\ request[r].step \notin Reset!ResetSteps /\ request'[r].step \notin Reset!ResetSteps
          /\ request'[r].token = t
      <3>1. next \in Reset!ForgotSteps /\ t = request[r].token
        BY <2>3, ResetStepsApart DEF t
      <3>2. Reset!TypeOK
        BY DEF AtReset, ResetTyped
      <3>3. next \notin Reset!ResetSteps
        BY <2>3, ResetStepsApart
      <3>4. QED
        BY <2>2, <2>3, <3>1, <3>2, <3>3, ForgottenGoes
    <2>7. /\ mongo' \in Reset!Stored /\ mongo'.code \in {mongo.code, t.code}
          /\ cache' \in Reset!Stored /\ cache'.code \in {cache.code, t.code}
      BY <2>2, <2>4, StoredTokens DEF AtReset, ResetTyped
    <2>8. ResetTyped'
      BY <2>1, <2>2, <2>6, <2>7, ResetTypedKept, ResetViews DEF AtReset, ResetTyped, Reset!TypeOK
    <2>9. ASSUME OneReset, ResetCodes PROVE ResetCodes' /\ Once
      <3>1. Unused(mongo.code)' /\ Unused(cache.code)' /\ Unused(request'[r].token.code)
        BY <2>1, <2>5, <2>6, <2>7, <2>9 DEF ResetCodes, Unused
      <3>2. QED
        BY <2>1, <2>6, <2>7, <2>9, <3>1, ForgottenOnce
    <2>10. QED
      BY <2>8, <2>9 DEF ResetKept
  <1>2. CASE Reset!sendEmail(r)
    <2>1. /\ request[r].step = "mail" /\ UNCHANGED <<now, signed, mongo, cache, fate, faults>>
      BY <1>2 DEF Reset!sendEmail
    <2>2. /\ request' \in [ResetRequests -> Reset!Request \cup {Reset!Idle}]
          /\ OthersKept(ResetRequests, r) /\ request'[r].step = "idle"
      BY <1>2, ResetFinished DEF Reset!sendEmail, AtReset, ResetTyped
    <2>3. ResetTyped'
      BY <2>1, <2>2, ResetTypedKept, ResetViews, ResetStepsApart
         DEF AtReset, ResetTyped, Reset!TypeOK
    <2>4. ASSUME OneReset, ResetCodes PROVE ResetCodes' /\ Once
      <3>1. /\ Unused(mongo.code)' /\ Unused(cache.code)' /\ cache' \in Reset!Stored
            /\ request[r].step \notin Reset!ResetSteps
        BY <2>1, <2>4, StoredTokens, ResetStepsApart DEF ResetCodes, Unused, AtReset, ResetTyped
      <3>2. request'[r].step \notin {"readCache"} \cup Storing \cup Reset!ResetSteps
        BY <2>2, ResetStepsApart
      <3>3. QED
        BY <2>1, <2>2, <2>4, <3>1, <3>2, ForgottenOnce
    <2>5. QED
      BY <2>3, <2>4 DEF ResetKept
  <1>3. QED
    BY <1>1, <1>2

\* A token is let in, and compared with the document's.
LEMMA ComparingKeeps ==
  ASSUME AtReset, NEW r \in ResetRequests,
         (\E c \in Codes : Reset!resetPassword(r, c)) \/ Reset!FindAdmin(r)
  PROVE  ResetKept
  <1>1. ASSUME NEW c \in Codes, Reset!resetPassword(r, c) PROVE ResetKept
    <2> DEFINE n == [step |-> "findAdmin", code |-> c]
    <2>1. /\ n \in Resetful /\ n.step = "findAdmin" /\ n.code = c
          /\ fate[c] # "new" /\ c \in Reset!Valid
          /\ request[r] = Reset!Idle /\ request' = [request EXCEPT ![r] = n]
          /\ UNCHANGED <<now, signed, mongo, cache, fate, faults>>
      BY <1>1 DEF Reset!resetPassword, Reset!Unexpired, Reset!Start, Resetful, Reset!ResetSteps,
                  Reset!Valid
    <2> HIDE DEF n
    <2>2. /\ request' \in [ResetRequests -> Reset!Request \cup {Reset!Idle}]
          /\ OthersKept(ResetRequests, r) /\ request'[r] = n
          /\ request[r].step \notin Reset!ResetSteps /\ request'[r].step \in Reset!ResetSteps
      BY <2>1, ResetRequestsKept, ResetRequestTypes, ResetStepsApart
         DEF AtReset, ResetTyped, Reset!ResetSteps
    <2>3. ResetTyped'
      BY <2>1, <2>2, ResetTypedKept, ResetViews DEF Storing, AtReset, ResetTyped, Reset!TypeOK
    <2>4. ASSUME OneReset, ResetCodes PROVE ResetCodes' /\ Once
      <3>1. \A q \in ResetRequests : q = r
        BY <2>4 DEF OneReset
      <3>2. ResetCodes'
        BY <2>1, <2>2, <2>4, <3>1 DEF ResetCodes, Unused, Storing
      <3>3. UNCHANGED <<Valid, Spent>> /\ request'[r].code \in Valid
        BY <2>1, <2>2, ResetViews DEF Reset!Valid, Reset!Alive, Spent
      <3>4. QED
        BY <2>2, <3>2, <3>3, AcceptStep, ResetViews DEF Once
    <2>5. QED
      BY <2>3, <2>4 DEF ResetKept
  <1>2. CASE Reset!FindAdmin(r) /\ ~Reset!Finish(r)
    <2>1. /\ request[r].step = "findAdmin" /\ Reset!Continue(r, "savePassword")
          /\ UNCHANGED <<now, signed, mongo, cache, fate, faults>>
      BY <1>2 DEF Reset!FindAdmin
    <2>2. request[r].step \in Reset!ResetSteps /\ "savePassword" \in Reset!ResetSteps
      BY <2>1 DEF Reset!ResetSteps
    <2>3. /\ request' \in [ResetRequests -> Reset!Request \cup {Reset!Idle}]
          /\ OthersKept(ResetRequests, r)
          /\ request'[r].step = "savePassword" /\ request'[r].code = request[r].code
      BY <2>1, <2>2, ResettingGoes DEF AtReset, ResetTyped
    <2>4. ResetTyped'
      BY <2>1, <2>3, ResetTypedKept, ResetViews DEF Storing, AtReset, ResetTyped, Reset!TypeOK
    <2>5. ASSUME OneReset, ResetCodes PROVE ResetCodes' /\ Once
      <3>1. \A q \in ResetRequests : q = r
        BY <2>5 DEF OneReset
      <3>2. ResetCodes'
        BY <2>1, <2>2, <2>3, <2>5, <3>1 DEF ResetCodes, Unused, Storing
      <3>3. UNCHANGED <<Valid, Spent, Holding>>
        BY <2>1, <2>2, <2>3, UsedKept, ResetViews DEF Reset!Valid, Reset!Alive, Spent
      <3>4. QED
        BY <3>2, <3>3, NothingStep
    <2>6. QED
      BY <2>4, <2>5 DEF ResetKept
  <1>3. CASE Reset!FindAdmin(r) /\ Reset!Finish(r)
    <2>1. /\ request[r].step = "findAdmin" /\ UNCHANGED <<now, signed, mongo, cache, fate, faults>>
      BY <1>3 DEF Reset!FindAdmin
    <2>2. /\ request' \in [ResetRequests -> Reset!Request \cup {Reset!Idle}]
          /\ OthersKept(ResetRequests, r) /\ request'[r].step = "idle"
      BY <1>3, ResetFinished DEF AtReset, ResetTyped
    <2>3. ResetTyped'
      BY <2>1, <2>2, ResetTypedKept, ResetViews DEF Storing, AtReset, ResetTyped, Reset!TypeOK
    <2>4. ASSUME OneReset, ResetCodes PROVE ResetCodes' /\ Once
      <3>1. \A q \in ResetRequests : q = r
        BY <2>4 DEF OneReset
      <3>2. ResetCodes'
        BY <2>1, <2>2, <2>4, <3>1, ResetStepsApart DEF ResetCodes, Unused, Storing
      <3>3. Valid' \subseteq Valid /\ Spent' = Spent
        BY <2>1, ResetViews DEF Reset!Valid, Reset!Alive, Spent
      <3>4. request'[r].step \notin Reset!ResetSteps /\ OthersKept(ResetRequests, r)
        BY <2>2, ResetStepsApart
      <3>5. /\ Holding = CodesUsed(ResetRequests, Reset!ResetSteps)
            /\ Holding' = CodesUsed(ResetRequests, Reset!ResetSteps)'
            /\ ResetRequests \in SUBSET AllRequests
        BY ResetViews
      <3>6. Secret!Next
        BY <3>3, <3>4, <3>5, OneGivesUp
      <3>7. QED
        BY <3>2, <3>6 DEF Once
    <2>5. QED
      BY <2>3, <2>4 DEF ResetKept
  <1>4. QED
    BY <1>1, <1>2, <1>3

\* The token is removed from the document, and then from Redis.
LEMMA RemovingKeeps ==
  ASSUME AtReset, NEW r \in ResetRequests, Reset!SavePassword(r) \/ Reset!DeleteCache(r)
  PROVE  ResetKept
  <1>1. CASE Reset!SavePassword(r)
    <2>1. /\ request[r].step = "savePassword" /\ Reset!Continue(r, "deleteCache")
          /\ mongo' = Reset!NoToken
          /\ UNCHANGED <<now, signed, cache, fate, faults>>
      BY <1>1 DEF Reset!SavePassword
    <2>2. request[r].step \in Reset!ResetSteps /\ "deleteCache" \in Reset!ResetSteps
      BY <2>1 DEF Reset!ResetSteps
    <2>3. /\ request' \in [ResetRequests -> Reset!Request \cup {Reset!Idle}]
          /\ OthersKept(ResetRequests, r)
          /\ request'[r].step = "deleteCache" /\ request'[r].code = request[r].code
      BY <2>1, <2>2, ResettingGoes DEF AtReset, ResetTyped
    <2>4. Reset!NoToken \in Reset!Stored /\ Reset!NoToken.code = NoCode
      BY StoredTokens DEF AtReset, ResetTyped
    <2>5. ResetTyped'
      BY <2>1, <2>3, <2>4, ResetTypedKept, ResetViews
         DEF Storing, AtReset, ResetTyped, Reset!TypeOK
    <2>6. ASSUME OneReset, ResetCodes PROVE ResetCodes' /\ Once
      <3>1. \A q \in ResetRequests : q = r
        BY <2>6 DEF OneReset
      <3>2. ResetCodes'
        <4>1. Unused(mongo.code)' /\ Unused(cache.code)' /\ mongo' = Reset!NoToken
          BY <2>1, <2>4, <2>6 DEF ResetCodes, Unused
        <4>2. fate'[request'[r].code] # "new"
          BY <2>1, <2>2, <2>3, <2>6 DEF ResetCodes
        <4>3. \A q \in ResetRequests : request'[q].step = "deleteCache" /\ request'[q] = request'[r]
          BY <2>3, <3>1
        <4>4. Reset!NoToken' = Reset!NoToken
          BY DEF Reset!NoToken
        <4>5. QED
          BY <4>1, <4>2, <4>3, <4>4 DEF ResetCodes, Storing
      <3>3. UNCHANGED <<Valid, Spent, Holding>>
        BY <2>1, <2>2, <2>3, UsedKept, ResetViews DEF Reset!Valid, Reset!Alive, Spent
      <3>4. QED
        BY <3>2, <3>3, NothingStep
    <2>7. QED
      BY <2>5, <2>6 DEF ResetKept
  <1>2. CASE Reset!DeleteCache(r)
    <2> DEFINE c == request[r].code
    <2>1. /\ request[r].step = "deleteCache" /\ cache' = Reset!NoToken
          /\ fate' = [fate EXCEPT ![c] = "spent"]
          /\ UNCHANGED <<now, signed, mongo, faults>>
      BY <1>2 DEF Reset!DeleteCache, Reset!Acknowledge
    <2>2. request[r].step \in Reset!ResetSteps /\ c \in Codes
      BY <2>1, ResetRequestTypes DEF Reset!ResetSteps, Resetful, AtReset, ResetTyped
    <2>3. /\ request' \in [ResetRequests -> Reset!Request \cup {Reset!Idle}]
          /\ OthersKept(ResetRequests, r) /\ request'[r].step = "idle"
      BY <1>2, ResetFinished DEF Reset!DeleteCache, AtReset, ResetTyped
    <2>4. Reset!NoToken \in Reset!Stored /\ Reset!NoToken.code = NoCode
      BY StoredTokens DEF AtReset, ResetTyped
    <2>5. fate' \in [Codes -> Fates]
      BY <2>1, <2>2, ResetViews DEF Fates
    <2>6. ResetTyped'
      BY <2>1, <2>3, <2>4, <2>5, ResetTypedKept DEF Storing, AtReset, ResetTyped, Reset!TypeOK
    <2>7. ASSUME OneReset, ResetCodes PROVE ResetCodes' /\ Once
      <3>1. \A q \in ResetRequests : q = r
        BY <2>7 DEF OneReset
      <3>2. mongo = Reset!NoToken
        BY <2>1, <2>7 DEF ResetCodes
      <3>3. ResetCodes'
        <4>1. mongo'.code = NoCode /\ cache'.code = NoCode
          BY <2>1, <2>4, <3>2
        <4>2. \A q \in ResetRequests : request'[q].step = "idle"
          BY <2>3, <3>1
        <4>3. QED
          BY <4>1, <4>2, ResetStepsApart DEF ResetCodes, Unused, Storing
      <3>4. Valid' = {}
        BY <2>1, <2>4, ResetViews, CodeAssumption DEF Reset!Valid
      <3>5. Secret!Next
        BY <2>1, <2>2, <2>3, <3>4, AcknowledgeStep, ResetViews, ResetStepsApart
      <3>6. QED
        BY <3>3, <3>5 DEF Once
    <2>8. QED
      BY <2>6, <2>7 DEF ResetKept
  <1>3. QED
    BY <1>1, <1>2

\* Time passes.
LEMMA TickKeeps ==
  ASSUME AtReset, Reset!Tick PROVE ResetKept
  <1>1. /\ now < MaxTime /\ now' = now + 1
        /\ UNCHANGED <<signed, mongo, cache, fate, request, faults>>
    BY DEF Reset!Tick
  <1>2. now' \in Reset!Times \ {0}
    BY <1>1, AccountsAssumption DEF AtReset, ResetTyped, Reset!TypeOK, Reset!Times
  <1>3. ResetTyped'
    BY <1>1, <1>2 DEF AtReset, ResetTyped, Reset!TypeOK
  <1>4. ASSUME ResetCodes PROVE ResetCodes' /\ Once
    <2>1. ResetCodes'
      BY <1>1, <1>4 DEF ResetCodes, Unused, Reset!NoToken
    <2>2. Valid' \subseteq Codes \ Spent
      BY <1>1, <1>4, ResetViews, CodeAssumption DEF Reset!Valid, Spent, ResetCodes, Unused
    <2>3. Spent' = Spent
      BY <1>1 DEF Spent
    <2>4. Holding' = Holding
      BY <1>1, ResetViews DEF CodesUsed
    <2>5. Secret!Next
      BY <2>2, <2>3, <2>4, ChangeStep
    <2>6. QED
      BY <2>1, <2>5 DEF Once
  <1>5. QED
    BY <1>3, <1>4 DEF ResetKept

\* A call fails.
LEMMA ResetFailsKeeps ==
  ASSUME AtReset, NEW r \in ResetRequests, Reset!RequestFails(r) PROVE ResetKept
  <1>1. /\ UNCHANGED <<now, signed, mongo, cache, fate>> /\ faults' \in 0..MaxFaults
    BY FaultsAssumption
       DEF Reset!RequestFails, Reset!Failure, Reset!Fault, AtReset, ResetTyped, Reset!TypeOK
  <1>2. /\ request' \in [ResetRequests -> Reset!Request \cup {Reset!Idle}]
        /\ OthersKept(ResetRequests, r) /\ request'[r].step = "idle"
    BY ResetFinished DEF Reset!RequestFails, Reset!Failure, AtReset, ResetTyped
  <1>3. ResetTyped'
    BY <1>1, <1>2, ResetTypedKept, ResetViews DEF Storing, AtReset, ResetTyped, Reset!TypeOK
  <1>4. ASSUME ResetCodes PROVE ResetCodes' /\ Once
    <2>1. ResetCodes'
      BY <1>1, <1>2, <1>4, ResetStepsApart
         DEF ResetCodes, Unused, Storing, OthersKept, Reset!NoToken
    <2>2. Valid' \subseteq Valid /\ Spent' = Spent
      BY <1>1, ResetViews DEF Reset!Valid, Reset!Alive, Spent
    <2>3. request'[r].step \notin Reset!ResetSteps /\ OthersKept(ResetRequests, r)
      BY <1>2, ResetStepsApart
    <2>4. /\ Holding = CodesUsed(ResetRequests, Reset!ResetSteps)
          /\ Holding' = CodesUsed(ResetRequests, Reset!ResetSteps)'
          /\ ResetRequests \in SUBSET AllRequests
      BY ResetViews
    <2>5. Secret!Next
      BY <2>2, <2>3, <2>4, OneGivesUp
    <2>6. QED
      BY <2>1, <2>5 DEF Once
  <1>5. QED
    BY <1>3, <1>4 DEF ResetKept

\* Every step of a reset keeps the invariant and is one of SingleUse, or none.
LEMMA ResetNextKeeps == ASSUME AtReset, Reset!Next PROVE ResetKept
  BY LookingKeeps, StoringKeeps, ComparingKeeps, RemovingKeeps, TickKeeps, ResetFailsKeeps
     DEF Reset!Next, Reset!Forgotten, Reset!Resetting

----------------------------------------------------------------------------
(* Partners: their codes implement SingleUse (AccountsProofs), and so do   *)
(* those of Accounts while it is about partners.                           *)

\* What the secrets of Accounts are then.
LEMMA PartnerView ==
  service = "partner" => Valid = Partner!Valid /\ Holding = HoldingOf(Partner!Holding)
  BY DEF Valid, Holding

\* A step of the one is a step of the other.
LEMMA PartnerOnce ==
  ASSUME service = "partner", service' = "partner", [PartnerSecret!Next]_(PartnerSecret!vars)
  PROVE  Once
  <1>1. /\ Valid = Partner!Valid /\ Holding = HoldingOf(Partner!Holding)
        /\ Valid' = Partner!Valid' /\ Holding' = HoldingOf(Partner!Holding)'
        /\ Partner!Spent = Spent /\ Partner!Spent' = Spent'
    <2>1. (service = "partner" => Valid = Partner!Valid /\ Holding = HoldingOf(Partner!Holding))'
      BY PartnerView, PTL
    <2>2. QED
      BY <2>1, PartnerView DEF Spent, Partner!Spent
  <1> DEFINE H == Partner!Holding
  <1>2. /\ Holding = [r \in AllRequests |-> IF r \in Requests THEN H[r] ELSE NoCode]
        /\ Holding' = [r \in AllRequests |-> IF r \in Requests THEN H'[r] ELSE NoCode]
        /\ DOMAIN H = Requests /\ DOMAIN H' = Requests
    BY <1>1 DEF HoldingOf, AllRequests, Partner!Holding
  <1> HIDE DEF H
  <1>3. CASE PartnerSecret!Change
    <2>1. H' = H /\ Valid' \subseteq Codes \ Spent /\ Spent' = Spent
      BY <1>1, <1>3 DEF PartnerSecret!Change, H
    <2>2. QED
      BY <1>2, <2>1, ChangeStep DEF Once
  <1>4. ASSUME NEW r \in Requests, PartnerSecret!Accept(r) PROVE Once
    <2>1. PICK s \in Valid : H' = [H EXCEPT ![r] = s]
      BY <1>1, <1>4 DEF PartnerSecret!Accept, H
    <2>2. H[r] = NoCode /\ UNCHANGED <<Valid, Spent>>
      BY <1>1, <1>4 DEF PartnerSecret!Accept, H
    <2>3. Holding' = [Holding EXCEPT ![r] = s] /\ Holding[r] = NoCode /\ r \in AllRequests
      BY <1>2, <2>1, <2>2 DEF AllRequests
    <2>4. QED
      BY <2>2, <2>3 DEF Once, Secret!Next, Secret!Accept, AllRequests
  <1>5. ASSUME NEW r \in Requests, PartnerSecret!Acknowledge(r) PROVE Once
    <2>1. /\ H[r] # NoCode /\ H' = [H EXCEPT ![r] = NoCode]
          /\ Spent' = Spent \cup {H[r]} /\ Valid' \subseteq Valid \ Spent'
      BY <1>1, <1>5 DEF PartnerSecret!Acknowledge, H
    <2>2. /\ Holding' = [Holding EXCEPT ![r] = NoCode] /\ Holding[r] = H[r]
          /\ r \in AllRequests
      BY <1>2, <2>1 DEF AllRequests
    <2>3. QED
      BY <2>1, <2>2 DEF Once, Secret!Next, Secret!Acknowledge, AllRequests
  <1>6. CASE PartnerSecret!GiveUp
    <2>1. PICK R \in SUBSET Requests :
            H' = [r \in Requests |-> IF r \in R THEN NoCode ELSE H[r]]
      BY <1>6 DEF PartnerSecret!GiveUp, H
    <2>2. Valid' \subseteq Valid /\ Spent' = Spent
      BY <1>1, <1>6 DEF PartnerSecret!GiveUp
    <2>3. Holding' = [r \in AllRequests |-> IF r \in R THEN NoCode ELSE Holding[r]]
      BY <1>2, <2>1
    <2>4. R \in SUBSET AllRequests
      BY DEF AllRequests
    <2>5. QED
      BY <2>2, <2>3, <2>4 DEF Once, Secret!Next, Secret!GiveUp, AllRequests
  <1>7. CASE UNCHANGED PartnerSecret!vars
    BY <1>1, <1>2, <1>7, NothingStep DEF PartnerSecret!vars, H
  <1>8. QED
    BY <1>3, <1>4, <1>5, <1>6, <1>7 DEF PartnerSecret!Next

----------------------------------------------------------------------------
(* Theorems *)

SecretsInv ==
  /\ service = "manager" => ManagerCodes
  /\ service = "login" => LoginCodes
  /\ service = "forgot" => ForgotIInv
  /\ service = "reset" => ResetTyped

ResetInv == service = "reset" => ResetCodes

\* What is known at all times: the last part, if resets are taken one at a time.
OtherInvs == PartnerInv /\ ManagerInv /\ LoginInv

\* Nothing is handed out when a service starts.
LEMMA SecretsInit ==
  ASSUME Init PROVE SecretsInv /\ ResetInv /\ Secret!Init
  <1> DEFINE None == Spent = {} /\ Valid = {} /\ Holding = [r \in AllRequests |-> NoCode]
  <1>1. CASE service = "partner"
    <2>1. Partner!Valid = {} /\ Partner!Spent = {} /\ Partner!Holding = [r \in Requests |-> NoCode]
      BY <1>1, InitIInv DEF Init, PartnerSecret!Init
    <2>2. None
      BY <1>1, <2>1, PartnerView DEF HoldingOf, AllRequests, Spent, Partner!Spent
    <2>3. QED
      BY <1>1, <2>2 DEF Secret!Init, SecretsInv, ResetInv, AllRequests
  <1>2. CASE service = "manager"
    <2>1. /\ resetToken = [m \in Managers |-> NoCode] /\ fate = [c \in Codes |-> "new"]
          /\ request = [r \in Requests |-> Manager!Idle] /\ Manager!Idle.step = "idle"
      BY <1>2 DEF Init, Manager!Init, Manager!NoRequests, Manager!Idle
    <2>2. ManagerCodes
      BY <2>1 DEF ManagerCodes
    <2>3. None
      BY <1>2, <2>1, ManagerView DEF Manager!Valid, CodesUsed, Spent
    <2>4. QED
      BY <1>2, <2>2, <2>3 DEF Secret!Init, SecretsInv, ResetInv, AllRequests
  <1>3. CASE service = "login"
    <2>1. /\ otp = NoCode /\ fate = [c \in Codes |-> "new"]
          /\ request = [r \in Requests |-> Login!Idle] /\ Login!Idle.step \notin Login!VerifySteps
      BY <1>3 DEF Init, Login!Init, Login!NoRequests, Login!Idle, Login!VerifySteps
    <2>2. LoginCodes
      BY <2>1 DEF LoginCodes
    <2>3. None
      BY <1>3, <2>1, LoginView DEF Login!Valid, CodesUsed, Spent
    <2>4. QED
      BY <1>3, <2>2, <2>3 DEF Secret!Init, SecretsInv, ResetInv, AllRequests
  <1>4. CASE service = "reset"
    <2>1. /\ now = 1 /\ signed = [c \in Codes |-> 0] /\ mongo = Reset!NoToken
          /\ cache = Reset!NoToken /\ fate = [c \in Codes |-> "new"]
          /\ request = [r \in ResetRequests |-> Reset!Idle] /\ faults = 0
          /\ Reset!Idle.step = "idle"
      BY <1>4 DEF Init, Reset!Init, Reset!NoRequests, Reset!Idle
    <2>2. Reset!NoToken \in Reset!Stored /\ Reset!NoToken.code = NoCode
      BY DEF Reset!Stored, Reset!NoToken
    <2>3. Reset!TypeOK
      BY <2>1, <2>2, FaultsAssumption, AccountsAssumption
         DEF Reset!TypeOK, Reset!Times, Reset!Fates
    <2>4. ResetTyped /\ ResetCodes
      BY <2>1, <2>2, <2>3, ResetStepsApart DEF ResetTyped, ResetCodes, Unused, Storing
    <2>5. None
      BY <1>4, <2>1, <2>2, ResetView, ResetStepsApart, CodeAssumption
         DEF Reset!Valid, CodesUsed, Spent
    <2>6. QED
      BY <1>4, <2>4, <2>5 DEF Secret!Init, SecretsInv, ResetInv, AllRequests
  <1>5. CASE service = "forgot"
    <2>1. /\ reset = {} /\ fate = [c \in Codes |-> "new"] /\ faults = 0
          /\ request = [r \in Requests |-> Forgot!Idle] /\ Forgot!Idle.step \notin UsingToken
      BY <1>5 DEF Init, Forgot!Init, Forgot!NoRequests, Forgot!Idle, UsingToken
    <2>2. ForgotIInv
      BY <2>1, FaultsAssumption DEF ForgotIInv, Forgot!TypeOK, Forgot!Fates, ForgotCodes
    <2>3. None
      BY <1>5, <2>1, ForgotView DEF CodesUsed, Spent
    <2>4. QED
      BY <1>5, <2>2, <2>3 DEF Secret!Init, SecretsInv, ResetInv, AllRequests
  <1>6. CASE service = "customer"
    <2>1. fate = [c \in Codes |-> "new"]
      BY <1>6 DEF Init
    <2>2. None
      BY <1>6, <2>1 DEF Valid, Holding, Spent, AllRequests
    <2>3. QED
      BY <1>6, <2>2 DEF Secret!Init, SecretsInv, ResetInv, AllRequests
  <1>7. QED
    BY <1>1, <1>2, <1>3, <1>4, <1>5, <1>6 DEF Init, Services

\* Every step of Accounts keeps what is known of each service, and is one of
\* SingleUse or none, with one reset of an administrator's at a time.
LEMMA SecretsStep ==
  ASSUME OtherInvs, SecretsInv, [Next]_vars
  PROVE  SecretsInv' /\ (OneReset /\ ResetInv => ResetInv' /\ Once)
  <1>1. CASE PartnerNext
    <2>1. service = "partner" /\ service' = "partner"
      BY <1>1 DEF PartnerNext
    <2>2. Once
      BY <1>1, <2>1, PartnerStep, PartnerOnce DEF OtherInvs, Kept
    <2>3. QED
      BY <2>1, <2>2 DEF SecretsInv, ResetInv
  <1>2. CASE ManagerNext
    <2>1. AtManagers /\ Manager!Next
      BY <1>2 DEF ManagerNext, AtManagers, OtherInvs, ManagerInv, SecretsInv
    <2>2. service' = "manager" /\ ManagerCodes' /\ Once
      BY <2>1, ManagerNextOnce DEF AtManagers
    <2>3. QED
      BY <2>2 DEF SecretsInv, ResetInv
  <1>3. CASE LoginNext
    <2>1. AtLogin /\ Login!Next
      BY <1>3 DEF LoginNext, AtLogin, OtherInvs, LoginInv, SecretsInv
    <2>2. service' = "login" /\ LoginCodes' /\ Once
      BY <2>1, LoginNextOnce DEF AtLogin
    <2>3. QED
      BY <2>2 DEF SecretsInv, ResetInv
  <1>4. CASE ResetNext
    <2>1. AtReset /\ Reset!Next
      BY <1>4 DEF ResetNext, AtReset, SecretsInv
    <2>2. service = "reset" /\ service' = "reset" /\ ResetKept
      BY <2>1, ResetNextKeeps DEF AtReset
    <2>3. QED
      BY <2>2 DEF SecretsInv, ResetInv, ResetKept
  <1>5. CASE ForgotNext
    <2>1. AtForgot /\ Forgot!Next
      BY <1>5 DEF ForgotNext, AtForgot, SecretsInv
    <2>2. service' = "forgot" /\ ForgotIInv' /\ Once
      BY <2>1, ForgotNextOnce DEF AtForgot
    <2>3. QED
      BY <2>2 DEF SecretsInv, ResetInv
  <1>6. CASE CustomerNext
    <2>1. service = "customer" /\ service' = "customer" /\ UNCHANGED fate
      BY <1>6 DEF CustomerNext
    <2>2. UNCHANGED <<Valid, Spent, Holding>>
      BY <2>1 DEF Valid, Spent, Holding
    <2>3. QED
      BY <2>1, <2>2, NothingStep DEF SecretsInv, ResetInv
  <1>7. CASE UNCHANGED vars
    <2>1. /\ UNCHANGED <<service, partner, active, loginKey, tokens, manager, hashed, resetToken>>
          /\ UNCHANGED <<deviceKnown, access, sessions, entered, left, now, signed, mongo, cache>>
          /\ UNCHANGED <<session, parent, cached, handed, putBack, reset, otp, fate, told>>
          /\ UNCHANGED <<request, faults>>
      BY <1>7 DEF vars, partnerState, managerState, loginState, resetState, customerState
    <2>2. SecretsInv' /\ (ResetInv => ResetInv')
      BY <2>1 DEF SecretsInv, ManagerCodes, LoginCodes, ForgotIInv, Forgot!TypeOK, ForgotCodes,
                  ResetTyped, Reset!TypeOK, ResetInv, ResetCodes, Unused
    <2>3. UNCHANGED <<Valid, Spent, Holding>>
      BY <2>1
         DEF Valid, Spent, Holding, HoldingOf, Partner!Valid, Partner!Holding, Manager!Valid,
             Manager!Holding, Login!Valid, Login!Holding, Reset!Valid, Reset!Alive, Reset!Holding,
             Forgot!Valid, Forgot!Holding
    <2>4. QED
      BY <2>2, <2>3, NothingStep
  <1>8. QED
    BY <1>1, <1>2, <1>3, <1>4, <1>5, <1>6, <1>7 DEF Next

\* It is known at all times.
LEMMA SecretsAlways == Spec => [](OtherInvs /\ SecretsInv)
  <1>1. Spec => []OtherInvs
    BY Invariant, LoginAlways, PTL DEF OtherInvs
  <1>2. Init => SecretsInv
    BY SecretsInit
  <1>3. OtherInvs /\ SecretsInv /\ [Next]_vars => SecretsInv'
    BY SecretsStep
  <1>4. QED
    BY <1>1, <1>2, <1>3, PTL DEF Spec

\* Every reachable state of Accounts is of the type of the service at work.
THEOREM AllTypesCorrect == Spec => []TypeOK
  <1>1. Spec => [](service \in Services)
    <2>1. Init => service \in Services
      BY DEF Init
    <2>2. service \in Services /\ [Next]_vars => (service \in Services)'
      BY DEF Next, vars, PartnerNext, ManagerNext, LoginNext, ResetNext, CustomerNext, ForgotNext,
             Services
    <2>3. QED
      BY <2>1, <2>2, PTL DEF Spec
  <1>2. /\ service \in Services /\ OtherInvs /\ SecretsInv
        /\ service = "customer" => Customer!TypeOK
        => TypeOK
    BY DEF Services, OtherInvs, PartnerInv, IInv, ManagerInv, ManagerIInv, LoginInv, LoginIInv,
           SecretsInv, ForgotIInv, ResetTyped, TypeOK
  <1>3. QED
    BY <1>1, <1>2, SecretsAlways, CustomerTypeCorrect, PTL

\* What every service hands out serves once, if an administrator's resets are
\* taken one at a time: two of them may store a used token again.
THEOREM AllServeOnce == ASSUME OneReset PROVE Spec => SecretsServeOnce
  <1>1. Init => ResetInv /\ Secret!Init
    BY SecretsInit
  <1>2. OtherInvs /\ SecretsInv /\ ResetInv /\ [Next]_vars
        => ResetInv' /\ [Secret!Next]_(Secret!vars)
    BY SecretsStep, OneReset DEF Once
  <1>3. QED
    BY <1>1, <1>2, SecretsAlways, PTL DEF Spec, SecretsServeOnce, Secret!Spec
=============================================================================

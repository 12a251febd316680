-------------------------- MODULE PartnerAccounts --------------------------
(***************************************************************************)
(* The accounts of delivery partners: registration with an e-mail that was *)
(* proved by a one-time password, log-in and log-out, change and reset of  *)
(* the password.  The account is a document in MongoDB; the one-time       *)
(* password and the log-in are keys in Redis; a JWT says which step the    *)
(* caller has passed.                                                      *)
(*                                                                         *)
(* A request is split at its awaits.  A request that is refused without a  *)
(* write is no step.  Documents are saved by Mongoose, which sends the     *)
(* fields that were assigned and no others.  An e-mail stands for its      *)
(* phone number too.  That a partner is removed is left to Tracking.       *)
(***************************************************************************)
EXTENDS OneTimeCodes

CONSTANTS
  Emails,      \* partners, each with an e-mail and a phone number
  Passwords,
  NoPassword   \* "no document"

VARIABLES
  partner,   \* MongoDB: the password of each partner's document
  active,    \* MongoDB: the partners whose document has isActive
  otp,       \* Redis: otp-<email>
  loginKey,  \* Redis: the login-<partnerId> keys
  tokens,    \* the JWTs each partner has and that have not expired
  told       \* the password each partner was last told to have, if that is sure

mongo == <<partner, active>>
redis == <<otp, loginKey>>
vars == <<mongo, redis, tokens, fate, told, request, faults>>

Jwts == {"email", "verified", "login"}
PlainSteps == {"setOtp", "mail", "deleteKey", "findPartner", "saveInactive"}
PasswordSteps == {"create", "saveActive", "setKey", "checkOld", "savePassword"}
Request ==
  [step: PlainSteps, email: Emails]
    \cup [step: {"deleteOtp"}, email: Emails, code: Codes]
    \cup [step: PasswordSteps, email: Emails, password: Passwords]

TypeOK ==
  /\ partner \in [Emails -> Passwords \cup {NoPassword}]
  /\ active \subseteq Emails
  /\ otp \in [Emails -> Codes \cup {NoCode}]
  /\ loginKey \subseteq Emails
  /\ tokens \in [Emails -> SUBSET Jwts]
  /\ fate \in [Codes -> Fates]
  /\ told \in [Emails -> Passwords \cup {NoPassword}]
  /\ request \in [Requests -> Request \cup {Idle}]
  /\ faults \in 0..MaxFaults

Init ==
  /\ partner = [e \in Emails |-> NoPassword]
  /\ active = {}
  /\ otp = [e \in Emails |-> NoCode]
  /\ loginKey = {}
  /\ tokens = [e \in Emails |-> {}]
  /\ fate = [c \in Codes |-> "new"]
  /\ told = [e \in Emails |-> NoPassword]
  /\ NoRequests

\* verifyPartnerRegistration, findByEmail and findById come down to this.
Exists(e) == partner[e] # NoPassword

Sign(e, t) == tokens' = [tokens EXCEPT ![e] = @ \cup {t}]
AuthGuard(e) == "login" \in tokens[e] /\ e \in loginKey
ForgetPasswordGuard(e) == tokens[e] \cap {"email", "verified"} # {}
OtpVerifiedGuard(e) == "verified" \in tokens[e]

getData(e) == otp[e]
setData(e, c) == otp' = [otp EXCEPT ![e] = c]
deleteData(e) == otp' = [otp EXCEPT ![e] = NoCode]

----------------------------------------------------------------------------
(* A one-time password is drawn, stored and mailed.                        *)

handleRegisterEmail(r, e) ==
  /\ ~Exists(e)
  /\ Start(r, [step |-> "setOtp", email |-> e])
  /\ UNCHANGED <<mongo, redis, tokens, fate, told, faults>>

forgetPassword(r, e) ==
  /\ Exists(e)
  /\ Start(r, [step |-> "setOtp", email |-> e])
  /\ UNCHANGED <<mongo, redis, tokens, fate, told, faults>>

resendOtp(r, e) ==
  /\ ForgetPasswordGuard(e)
  /\ Start(r, [step |-> "setOtp", email |-> e])
  /\ UNCHANGED <<mongo, redis, tokens, fate, told, faults>>

generateOtp(r, c) ==
  /\ request[r].step = "setOtp"
  /\ Draw(c)
  /\ setData(request[r].email, c)
  /\ Continue(r, "mail")
  /\ UNCHANGED <<mongo, loginKey, tokens, told, faults>>

\* Whoever asks for a new mail has the token already.
sendEmail(r) ==
  /\ request[r].step = "mail"
  /\ Sign(request[r].email, "email")
  /\ Finish(r)
  /\ UNCHANGED <<mongo, redis, fate, told, faults>>

----------------------------------------------------------------------------
(* verifyOtp: the code is read, compared, and whatever code is stored then *)
(* is deleted.                                                             *)

verifyOtp(r, e) ==
  /\ ForgetPasswordGuard(e)
  /\ getData(e) # NoCode
  /\ Start(r, [step |-> "deleteOtp", email |-> e, code |-> getData(e)])
  /\ UNCHANGED <<mongo, redis, tokens, fate, told, faults>>

\* Fault: the key is left to expire.
DeleteOtp_Kept(r) ==
  /\ request[r].step = "deleteOtp"
  /\ Acknowledge(request[r].code)
  /\ Sign(request[r].email, "verified")
  /\ Finish(r)
  /\ UNCHANGED <<mongo, redis, told, faults>>

DeleteOtp(r) ==
  /\ request[r].step = "deleteOtp"
  /\ deleteData(request[r].email)
  /\ Acknowledge(request[r].code)
  /\ Sign(request[r].email, "verified")
  /\ Finish(r)
  /\ UNCHANGED <<mongo, loginKey, told, faults>>

\* The key is deleted, and the answer of Redis is lost.
DeleteOtpLost(r) ==
  /\ request[r].step = "deleteOtp"
  /\ Fault
  /\ deleteData(request[r].email)
  /\ Finish(r)
  /\ UNCHANGED <<mongo, loginKey, tokens, fate, told>>

----------------------------------------------------------------------------
(* Registration, log-in and log-out.                                       *)

register(r, e, p) ==
  /\ OtpVerifiedGuard(e)
  /\ ~Exists(e)
  /\ Start(r, [step |-> "create", email |-> e, password |-> p])
  /\ UNCHANGED <<mongo, redis, tokens, fate, told, faults>>

\* The unique index refuses a second document.
Create(r) ==
  /\ request[r].step = "create"
  /\ LET e == request[r].email IN
     IF Exists(e) THEN UNCHANGED <<partner, told>>
     ELSE /\ partner' = [partner EXCEPT ![e] = request[r].password]
          /\ told' = [told EXCEPT ![e] = request[r].password]
  /\ Finish(r)
  /\ UNCHANGED <<active, redis, tokens, fate, faults>>

\* The password was right for the document read.  Only a changed flag is saved.
login(r, e) ==
  /\ Exists(e)
  /\ Start(r, [step |-> IF e \in active THEN "setKey" ELSE "saveActive",
               email |-> e, password |-> partner[e]])
  /\ UNCHANGED <<mongo, redis, tokens, fate, told, faults>>

\* Fault: the whole document that was read is written back.
SaveActive_Whole(r) ==
  /\ request[r].step = "saveActive"
  /\ active' = active \cup {request[r].email}
  /\ partner' = [partner EXCEPT ![request[r].email] = request[r].password]
  /\ Continue(r, "setKey")
  /\ UNCHANGED <<redis, tokens, fate, told, faults>>

SaveActive(r) ==
  /\ request[r].step = "saveActive"
  /\ active' = active \cup {request[r].email}
  /\ Continue(r, "setKey")
  /\ UNCHANGED <<partner, redis, tokens, fate, told, faults>>

SetKey(r) ==
  /\ request[r].step = "setKey"
  /\ loginKey' = loginKey \cup {request[r].email}
  /\ Sign(request[r].email, "login")
  /\ Finish(r)
  /\ UNCHANGED <<mongo, otp, fate, told, faults>>

logout(r, e) ==
  /\ AuthGuard(e)
  /\ Start(r, [step |-> "deleteKey", email |-> e])
  /\ UNCHANGED <<mongo, redis, tokens, fate, told, faults>>

DeleteKey(r) ==
  /\ request[r].step = "deleteKey"
  /\ loginKey' = loginKey \ {request[r].email}
  /\ Continue(r, "findPartner")
  /\ UNCHANGED <<mongo, otp, tokens, fate, told, faults>>

FindPartner(r) ==
  /\ request[r].step = "findPartner"
  /\ \/ request[r].email \in active /\ Continue(r, "saveInactive")
     \/ request[r].email \notin active /\ Finish(r)
  /\ UNCHANGED <<mongo, redis, tokens, fate, told, faults>>

SaveInactive(r) ==
  /\ request[r].step = "saveInactive"
  /\ active' = active \ {request[r].email}
  /\ Finish(r)
  /\ UNCHANGED <<partner, redis, tokens, fate, told, faults>>

----------------------------------------------------------------------------
(* A new password: by who knows the old one, or has proved the e-mail.     *)

changePassword(r, e, p) ==
  /\ AuthGuard(e)
  /\ Start(r, [step |-> "checkOld", email |-> e, password |-> p])
  /\ UNCHANGED <<mongo, redis, tokens, fate, told, faults>>

\* The caller names the old password, or a wrong one.
CheckOld(r) ==
  /\ request[r].step = "checkOld"
  /\ Continue(r, "savePassword") \/ Finish(r)
  /\ UNCHANGED <<mongo, redis, tokens, fate, told, faults>>

updatePassword(r, e, p) ==
  /\ OtpVerifiedGuard(e)
  /\ Exists(e)
  /\ Start(r, [step |-> "savePassword", email |-> e, password |-> p])
  /\ UNCHANGED <<mongo, redis, tokens, fate, told, faults>>

SavePassword(r) ==
  /\ request[r].step = "savePassword"
  /\ partner' = [partner EXCEPT ![request[r].email] = request[r].password]
  /\ told' = [told EXCEPT ![request[r].email] = request[r].password]
  /\ Finish(r)
  /\ UNCHANGED <<active, redis, tokens, fate, faults>>

\* MongoDB stores what a request writes, and its answer is lost.
WriteLost(r) ==
  /\ request[r].step \in {"create", "savePassword"}
  /\ request[r].step = "create" => ~Exists(request[r].email)
  /\ Fault
  /\ partner' = [partner EXCEPT ![request[r].email] = request[r].password]
  /\ told' = [told EXCEPT ![request[r].email] = NoPassword]
  /\ Finish(r)
  /\ UNCHANGED <<active, redis, tokens, fate>>

----------------------------------------------------------------------------
(* Keys and tokens run out, calls fail, the process restarts.              *)

OtpExpires(e) ==
  /\ otp[e] # NoCode
  /\ deleteData(e)
  /\ UNCHANGED <<mongo, loginKey, tokens, fate, told, request, faults>>

LoginExpires(e) ==
  /\ e \in loginKey
  /\ loginKey' = loginKey \ {e}
  /\ UNCHANGED <<mongo, otp, tokens, fate, told, request, faults>>

TokenExpires(e, t) ==
  /\ t \in tokens[e]
  /\ tokens' = [tokens EXCEPT ![e] = @ \ {t}]
  /\ UNCHANGED <<mongo, redis, fate, told, request, faults>>

RequestFails(r) ==
  /\ Failure(r)
  /\ UNCHANGED <<mongo, redis, tokens, fate, told>>

Restart ==
  /\ Restarted
  /\ UNCHANGED <<mongo, redis, tokens, fate, told>>

----------------------------------------------------------------------------
Mailing(r) ==
  \/ \E e \in Emails : handleRegisterEmail(r, e) \/ forgetPassword(r, e) \/ resendOtp(r, e)
  \/ (\E c \in Codes : generateOtp(r, c)) \/ sendEmail(r)
Verifying(r) == (\E e \in Emails : verifyOtp(r, e)) \/ DeleteOtp(r) \/ DeleteOtpLost(r)
Entering(r) ==
  \/ \E e \in Emails, p \in Passwords : register(r, e, p)
  \/ \E e \in Emails : login(r, e) \/ logout(r, e)
  \/ Create(r) \/ SaveActive(r) \/ SetKey(r) \/ DeleteKey(r) \/ FindPartner(r) \/ SaveInactive(r)
Changing(r) ==
  \/ \E e \in Emails, p \in Passwords : changePassword(r, e, p) \/ updatePassword(r, e, p)
  \/ CheckOld(r) \/ SavePassword(r) \/ WriteLost(r)
Expiring(e) == OtpExpires(e) \/ LoginExpires(e) \/ \E t \in Jwts : TokenExpires(e, t)

Next ==
  \/ \E r \in Requests :
       Mailing(r) \/ Verifying(r) \/ Entering(r) \/ Changing(r) \/ RequestFails(r)
  \/ \E e \in Emails : Expiring(e)
  \/ Restart

Spec == Init /\ [][Next]_vars

----------------------------------------------------------------------------
(* The codes as one-time secrets. *)

Valid == {otp[e] : e \in Emails} \ {NoCode}
Holding == [r \in Requests |-> IF request[r].step = "deleteOtp" THEN request[r].code ELSE NoCode]

----------------------------------------------------------------------------
(* Properties *)

\* A partner who was told a password has it until told otherwise: a log-in or
\* log-out that read the document earlier, or a late registration of the same
\* e-mail, does not bring an old one back.
PasswordsAsTold == \A e \in Emails : told[e] \in {NoPassword, partner[e]}
=============================================================================

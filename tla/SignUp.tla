------------------------------- MODULE SignUp -------------------------------
(***************************************************************************)
(* Signing up: user-service checks a one-time password in Redis, inserts   *)
(* the user in MongoDB and asks auth-service over gRPC for the first pair  *)
(* of tokens, which means a session in MongoDB and in Redis.  There is no  *)
(* transaction: when a later call fails, the user is deleted again.        *)
(*                                                                         *)
(* A request is split at its awaits.  auth-service goes on with a call     *)
(* whose caller has given up.                                              *)
(***************************************************************************)
EXTENDS Integers

CONSTANTS
  Emails,       \* e-mail addresses, each with its phone number
  NoEmail,      \* "no document"
  Codes,        \* one-time passwords
  NoCode,       \* "no key in Redis"
  Users,        \* document ids, each used for one document at most
  Requests,     \* HTTP requests the service may be handling at a time
  MaxAttempts,  \* bound: wrong codes counted in a row
  MaxFaults     \* bound: failed calls and restarts in a behaviour

ASSUME EmailAssumption == NoEmail \notin Emails
ASSUME CodeAssumption == NoCode \notin Codes
ASSUME BoundsAssumption == MaxAttempts \in Nat /\ MaxFaults \in Nat

VARIABLES
  otp,       \* Redis: otp:<email>
  attempts,  \* Redis: otp:attempts:<email>, 0 when there is no such key
  expiring,  \* e-mails whose attempts key has a time to live
  blocked,   \* Redis: the otp:blocked:<email> keys
  user,      \* MongoDB: the e-mail of each user document
  outcome,   \* how the sign-up each document belongs to ended
  call,      \* auth-service: GenerateToken for each user
  session,   \* auth-service: how far the user's first session is stored
  request,   \* the requests being handled
  faults     \* failed calls and restarts so far

redis == <<otp, attempts, expiring, blocked>>
auth == <<call, session>>
vars == <<redis, user, outcome, auth, request, faults>>

Idle == [step |-> "idle"]
SendSteps == {"checkBlocked", "setOtp", "clearAttempts"}
SignUpSteps == {"checkOtp", "countAttempt", "setExpiry", "block", "findAccount",
                "save", "tokens", "undo"}
Request ==
  [step: SendSteps, email: Emails]
    \cup [step: SignUpSteps, email: Emails, code: Codes, id: Users]
Outcomes == {"none", "pending", "success", "failure", "unknown"}
CallSteps == {"none", "findUser", "createSession", "cacheSession", "returned", "failed"}

TypeOK ==
  /\ otp \in [Emails -> Codes \cup {NoCode}]
  /\ attempts \in [Emails -> 0..MaxAttempts]
  /\ expiring \subseteq Emails
  /\ blocked \subseteq Emails
  /\ user \in [Users -> Emails \cup {NoEmail}]
  /\ outcome \in [Users -> Outcomes]
  /\ call \in [Users -> CallSteps]
  /\ session \in [Users -> {"none", "stored", "cached"}]
  /\ request \in [Requests -> Request \cup {Idle}]
  /\ faults \in 0..MaxFaults

Init ==
  /\ otp = [e \in Emails |-> NoCode]
  /\ attempts = [e \in Emails |-> 0]
  /\ expiring = {}
  /\ blocked = {}
  /\ user = [u \in Users |-> NoEmail]
  /\ outcome = [u \in Users |-> "none"]
  /\ call = [u \in Users |-> "none"]
  /\ session = [u \in Users |-> "none"]
  /\ request = [r \in Requests |-> Idle]
  /\ faults = 0

Fault == faults < MaxFaults /\ faults' = faults + 1
Finish(r) == request' = [request EXCEPT ![r] = Idle]
Continue(r, next) == request' = [request EXCEPT ![r].step = next]
Registered(e) == \E u \in Users : user[u] = e

----------------------------------------------------------------------------
(* Keys of Redis run out: 5 minutes, a day, and a day.                      *)

OtpExpires(e) ==
  /\ otp[e] # NoCode
  /\ otp' = [otp EXCEPT ![e] = NoCode]
  /\ UNCHANGED <<attempts, expiring, blocked, user, outcome, auth, request, faults>>

AttemptsExpire(e) ==
  /\ e \in expiring
  /\ attempts' = [attempts EXCEPT ![e] = 0]
  /\ expiring' = expiring \ {e}
  /\ UNCHANGED <<otp, blocked, user, outcome, auth, request, faults>>

BlockExpires(e) ==
  /\ e \in blocked
  /\ blocked' = blocked \ {e}
  /\ UNCHANGED <<otp, attempts, expiring, user, outcome, auth, request, faults>>

----------------------------------------------------------------------------
(* sendOtpService: no account may have the e-mail, which must not be       *)
(* blocked; a new code replaces the old one, and the count starts again.   *)

sendOtpService(r, e) ==
  /\ request[r] = Idle
  /\ ~Registered(e)
  /\ request' = [request EXCEPT ![r] = [step |-> "checkBlocked", email |-> e]]
  /\ UNCHANGED <<redis, user, outcome, auth, faults>>

CheckBlocked(r) ==
  /\ request[r].step = "checkBlocked"
  /\ \/ request[r].email \in blocked /\ Finish(r)
     \/ request[r].email \notin blocked /\ Continue(r, "setOtp")
  /\ UNCHANGED <<redis, user, outcome, auth, faults>>

SetOtp(r, c) ==
  /\ request[r].step = "setOtp"
  /\ otp' = [otp EXCEPT ![request[r].email] = c]
  /\ Continue(r, "clearAttempts")
  /\ UNCHANGED <<attempts, expiring, blocked, user, outcome, auth, faults>>

\* Fault: the count is taken down by one, from nothing too.
ClearAttempts_Decrement(r) ==
  /\ request[r].step = "clearAttempts"
  /\ attempts' = [attempts EXCEPT ![request[r].email] = @ - 1]
  /\ Finish(r)
  /\ UNCHANGED <<otp, expiring, blocked, user, outcome, auth, faults>>

ClearAttempts(r) ==
  /\ request[r].step = "clearAttempts"
  /\ attempts' = [attempts EXCEPT ![request[r].email] = 0]
  /\ expiring' = expiring \ {request[r].email}
  /\ Finish(r)
  /\ UNCHANGED <<otp, blocked, user, outcome, auth, faults>>

----------------------------------------------------------------------------
(* validateOtp, the first part of a sign-up.  A code that matched is not   *)
(* used up: until it expires it serves other sign-ups as well.             *)

\* An id that MongoDB has not seen and no other request is about to use.
Fresh(u) ==
  /\ outcome[u] = "none"
  /\ \A r \in Requests : request[r].step \in SignUpSteps => request[r].id # u

\* u is the id the document will get if it comes to that.
signUpService(r, e, c, u) ==
  /\ request[r] = Idle
  /\ e \notin blocked
  /\ Fresh(u)
  /\ request' = [request EXCEPT ![r] = [step |-> "checkOtp", email |-> e, code |-> c, id |-> u]]
  /\ UNCHANGED <<redis, user, outcome, auth, faults>>

CheckOtp(r) ==
  /\ request[r].step = "checkOtp"
  /\ LET saved == otp[request[r].email] IN
     \/ saved = NoCode /\ Finish(r)
     \/ saved = request[r].code /\ Continue(r, "findAccount")
     \/ saved \notin {NoCode, request[r].code} /\ Continue(r, "countAttempt")
  /\ UNCHANGED <<redis, user, outcome, auth, faults>>

\* Fault: the time to live is left to the attempt after the first.
AfterAttempt_Second(r, n) ==
  \/ n = 2 /\ Continue(r, "setExpiry")
  \/ n >= 3 /\ Continue(r, "block")
  \/ n = 1 /\ Finish(r)

\* What follows the n-th wrong code.
AfterAttempt(r, n) ==
  \/ n = 1 /\ Continue(r, "setExpiry")
  \/ n >= 3 /\ Continue(r, "block")
  \/ n = 2 /\ Finish(r)

CountAttempt(r) ==
  /\ request[r].step = "countAttempt"
  /\ LET e == request[r].email IN
     /\ attempts[e] < MaxAttempts
     /\ attempts' = [attempts EXCEPT ![e] = @ + 1]
     /\ AfterAttempt(r, attempts[e] + 1)
  /\ UNCHANGED <<otp, expiring, blocked, user, outcome, auth, faults>>

SetExpiry(r) ==
  /\ request[r].step = "setExpiry"
  /\ expiring' = expiring \cup {e \in {request[r].email} : attempts[e] > 0}
  /\ Finish(r)
  /\ UNCHANGED <<otp, attempts, blocked, user, outcome, auth, faults>>

Block(r) ==
  /\ request[r].step = "block"
  /\ blocked' = blocked \cup {request[r].email}
  /\ Finish(r)
  /\ UNCHANGED <<otp, attempts, expiring, user, outcome, auth, faults>>

----------------------------------------------------------------------------
(* The rest of a sign-up: no account may have the e-mail, the user is      *)
(* saved, and auth-service is called; `catch' deletes what was saved.      *)

FindAccount(r) ==
  /\ request[r].step = "findAccount"
  /\ \/ Registered(request[r].email) /\ Finish(r)
     \/ ~Registered(request[r].email) /\ Continue(r, "save")
  /\ UNCHANGED <<redis, user, outcome, auth, faults>>

SaveUser(r) ==
  /\ request[r].step = "save"
  /\ LET u == request[r].id IN
     /\ user' = [user EXCEPT ![u] = request[r].email]
     /\ outcome' = [outcome EXCEPT ![u] = "pending"]
     /\ call' = [call EXCEPT ![u] = "findUser"]
  /\ Continue(r, "tokens")
  /\ UNCHANGED <<redis, session, faults>>

\* The document is inserted, and the answer is lost: save() rejects, and
\* `catch' does not have the id.
SaveLost(r) ==
  /\ request[r].step = "save"
  /\ Fault
  /\ user' = [user EXCEPT ![request[r].id] = request[r].email]
  /\ outcome' = [outcome EXCEPT ![request[r].id] = "unknown"]
  /\ Finish(r)
  /\ UNCHANGED <<redis, auth>>

TokensArrive(r) ==
  /\ request[r].step = "tokens"
  /\ call[request[r].id] = "returned"
  /\ outcome' = [outcome EXCEPT ![request[r].id] = "success"]
  /\ Finish(r)
  /\ UNCHANGED <<redis, user, auth, faults>>

\* The call failed, or the connection did and the call goes on.
TokensFail(r) ==
  /\ request[r].step = "tokens"
  /\ \/ call[request[r].id] = "failed" /\ UNCHANGED faults
     \/ Fault
  /\ Continue(r, "undo")
  /\ UNCHANGED <<redis, user, outcome, auth>>

\* Fault: every document of the e-mail is deleted.
Undo_ByEmail(r) ==
  /\ request[r].step = "undo"
  /\ user' = [u \in Users |-> IF user[u] = request[r].email THEN NoEmail ELSE user[u]]
  /\ outcome' = [outcome EXCEPT ![request[r].id] = "failure"]
  /\ Finish(r)
  /\ UNCHANGED <<redis, auth, faults>>

\* Fault: the id is remembered after the call only, so nothing is deleted.
Undo_NoId(r) ==
  /\ request[r].step = "undo"
  /\ outcome' = [outcome EXCEPT ![request[r].id] = "failure"]
  /\ Finish(r)
  /\ UNCHANGED <<redis, user, auth, faults>>

Undo(r) ==
  /\ request[r].step = "undo"
  /\ user' = [user EXCEPT ![request[r].id] = NoEmail]
  /\ outcome' = [outcome EXCEPT ![request[r].id] = "failure"]
  /\ Finish(r)
  /\ UNCHANGED <<redis, auth, faults>>

UndoFails(r) ==
  /\ request[r].step = "undo"
  /\ Fault
  /\ outcome' = [outcome EXCEPT ![request[r].id] = "unknown"]
  /\ Finish(r)
  /\ UNCHANGED <<redis, user, auth>>

\* A call to Redis or MongoDB rejects before there is anything to undo.
RequestFails(r) ==
  /\ request[r].step \notin {"idle", "tokens", "undo"}
  /\ Fault
  /\ Finish(r)
  /\ UNCHANGED <<redis, user, outcome, auth>>

\* user-service dies with every request in flight.
Restart ==
  /\ Fault
  /\ request' = [r \in Requests |-> Idle]
  /\ outcome' = [u \in Users |-> IF outcome[u] = "pending" THEN "unknown" ELSE outcome[u]]
  /\ UNCHANGED <<redis, user, auth>>

----------------------------------------------------------------------------
(* auth-service: GenerateToken reads the user, and stores a session in     *)
(* MongoDB and then in Redis.                                              *)

FindUser(u) ==
  /\ call[u] = "findUser"
  /\ call' = [call EXCEPT ![u] = IF user[u] = NoEmail THEN "failed" ELSE "createSession"]
  /\ UNCHANGED <<redis, user, outcome, session, request, faults>>

CreateSession(u) ==
  /\ call[u] = "createSession"
  /\ session' = [session EXCEPT ![u] = "stored"]
  /\ call' = [call EXCEPT ![u] = "cacheSession"]
  /\ UNCHANGED <<redis, user, outcome, request, faults>>

CacheSession(u) ==
  /\ call[u] = "cacheSession"
  /\ session' = [session EXCEPT ![u] = "cached"]
  /\ call' = [call EXCEPT ![u] = "returned"]
  /\ UNCHANGED <<redis, user, outcome, request, faults>>

CallFails(u) ==
  /\ call[u] \in {"findUser", "createSession", "cacheSession"}
  /\ Fault
  /\ call' = [call EXCEPT ![u] = "failed"]
  /\ UNCHANGED <<redis, user, outcome, session, request>>

----------------------------------------------------------------------------
SendOtp(r) ==
  \/ \E e \in Emails : sendOtpService(r, e)
  \/ CheckBlocked(r) \/ (\E c \in Codes : SetOtp(r, c)) \/ ClearAttempts(r)
ValidateOtp(r) ==
  \/ \E e \in Emails, c \in Codes, u \in Users : signUpService(r, e, c, u)
  \/ CheckOtp(r) \/ CountAttempt(r) \/ SetExpiry(r) \/ Block(r)
Register(r) ==
  \/ FindAccount(r) \/ SaveUser(r) \/ SaveLost(r)
  \/ TokensArrive(r) \/ TokensFail(r) \/ Undo(r) \/ UndoFails(r)
GenerateToken(u) == FindUser(u) \/ CreateSession(u) \/ CacheSession(u) \/ CallFails(u)

Next ==
  \/ \E r \in Requests : SendOtp(r) \/ ValidateOtp(r) \/ Register(r) \/ RequestFails(r)
  \/ \E u \in Users : GenerateToken(u)
  \/ \E e \in Emails : OtpExpires(e) \/ AttemptsExpire(e) \/ BlockExpires(e)
  \/ Restart

Spec == Init /\ [][Next]_vars

----------------------------------------------------------------------------
(* Properties *)

\* Who is told that the sign-up succeeded has an account for good, with a
\* session in both stores, although other sign-ups of the same e-mail run,
\* fail and are undone at the same time.
SuccessIsDurable ==
  \A u \in Users : outcome[u] = "success" => user[u] # NoEmail /\ session[u] = "cached"

\* Who is told that it failed after the user was saved, and the deletion went
\* through, has no account, although auth-service may still be at work.
FailureIsUndone == \A u \in Users : outcome[u] = "failure" => user[u] = NoEmail

\* As long as no call fails and no process dies, no count of wrong codes
\* stays for ever: whatever attempts and new codes interleave, it has a time
\* to live or a request about to give it one.
CounterExpires ==
  faults = 0 =>
    \A e \in Emails : attempts[e] > 0 =>
      \/ e \in expiring
      \/ \E r \in Requests : request[r].step = "setExpiry" /\ request[r].email = e
=============================================================================

----------------------------- MODULE AdminLogin -----------------------------
(***************************************************************************)
(* How an administrator logs in and out: a password, a one-time password   *)
(* that is mailed, and an access token of which Redis keeps a key. The     *)
(* administrator is a document in MongoDB, which also stores a session for *)
(* each log-in. Only the lists of managers and of users look for the key;  *)
(* what else an administrator does is behind AdminGuard alone, which a     *)
(* token of a log-in that was ended passes until it runs out.              *)
(* Administrators share nothing, so there is one here.                     *)
(***************************************************************************)
EXTENDS OneTimeCodes

CONSTANTS
  Tokens     \* access tokens, a new one for each log-in

VARIABLES
  deviceKnown,  \* MongoDB: deviceId is the one of this deployment
  otp,          \* MongoDB: otp, as long as it has not expired
  access,       \* Redis: the tokens with an access_token:<admin>:<token> key
  sessions,     \* MongoDB: the tokens a session was inserted for
  entered,      \* tokens that were handed to the administrator
  left          \* tokens handed out before a log-out began that is acknowledged

admin == <<deviceKnown, otp>>
tokens == <<access, sessions, entered, left>>
vars == <<admin, tokens, fate, request, faults>>

LoginSteps == {"setDevice", "setDeviceAgain", "mailDevice", "setOtp", "mailOtp"}
VerifySteps == {"unsetOtp", "setKey", "insertSession"}
LogoutSteps == {"deleteSessions", "readKeys", "deleteKeys"}
RefreshSteps == {"findSession"}
ListSteps == {"findKey", "readList"}

\* late: the request came after a log-out of its token was acknowledged.
Request ==
  [step: LoginSteps \cup RefreshSteps]
    \cup [step: ListSteps, token: Tokens, late: BOOLEAN]
    \cup [step: VerifySteps, code: Codes, token: Tokens]
    \cup [step: LogoutSteps, before: SUBSET Tokens, keys: SUBSET Tokens]

TypeOK ==
  /\ deviceKnown \in BOOLEAN
  /\ otp \in Codes \cup {NoCode}
  /\ access \subseteq Tokens
  /\ sessions \subseteq Tokens
  /\ entered \subseteq Tokens
  /\ left \subseteq Tokens
  /\ fate \in [Codes -> Fates]
  /\ request \in [Requests -> Request \cup {Idle}]
  /\ faults \in 0..MaxFaults

Init ==
  /\ deviceKnown \in BOOLEAN
  /\ otp = NoCode
  /\ access = {}
  /\ sessions = {}
  /\ entered = {}
  /\ left = {}
  /\ fate = [c \in Codes |-> "new"]
  /\ NoRequests

----------------------------------------------------------------------------
(* login: the password was right.  A new device is noted, twice, and       *)
(* mailed; then a code is drawn, stored and mailed.                        *)

login(r) ==
  /\ Start(r, [step |-> IF deviceKnown THEN "setOtp" ELSE "setDevice"])
  /\ UNCHANGED <<admin, tokens, fate, faults>>

NoteDevice(r) ==
  /\ \/ request[r].step = "setDevice" /\ Continue(r, "setDeviceAgain")
     \/ request[r].step = "setDeviceAgain" /\ Continue(r, "mailDevice")
  /\ deviceKnown' = TRUE
  /\ UNCHANGED <<otp, tokens, fate, faults>>

SetOtp(r, c) ==
  /\ request[r].step = "setOtp"
  /\ otp' = c
  /\ Draw(c)
  /\ Continue(r, "mailOtp")
  /\ UNCHANGED <<deviceKnown, tokens, faults>>

sendEmail(r) ==
  /\ \/ request[r].step = "mailDevice" /\ Continue(r, "setOtp")
     \/ request[r].step = "mailOtp" /\ Finish(r)
  /\ UNCHANGED <<admin, tokens, fate, faults>>

----------------------------------------------------------------------------
(* verifyOtp: the code is removed from the document, and the token that is *)
(* signed then gets its key and its session before it is handed out.       *)

\* A token that no log-in has had and none is about to have.
Unsigned(t) ==
  /\ t \notin access \cup sessions \cup entered \cup left
  /\ \A q \in Requests : request[q].step \in VerifySteps => request[q].token # t

\* t is the token that will be signed if it comes to that.
verifyOtp(r, t) ==
  /\ otp # NoCode
  /\ Unsigned(t)
  /\ Start(r, [step |-> "unsetOtp", code |-> otp, token |-> t])
  /\ UNCHANGED <<admin, tokens, fate, faults>>

UnsetOtp(r) ==
  /\ request[r].step = "unsetOtp"
  /\ otp' = NoCode
  /\ Continue(r, "setKey")
  /\ UNCHANGED <<deviceKnown, tokens, fate, faults>>

SetKey(r) ==
  /\ request[r].step = "setKey"
  /\ access' = access \cup {request[r].token}
  /\ Continue(r, "insertSession")
  /\ UNCHANGED <<admin, sessions, entered, left, fate, faults>>

InsertSession(r) ==
  /\ request[r].step = "insertSession"
  /\ sessions' = sessions \cup {request[r].token}
  /\ entered' = entered \cup {request[r].token}
  /\ Acknowledge(request[r].code)
  /\ Finish(r)
  /\ UNCHANGED <<admin, access, left, faults>>

----------------------------------------------------------------------------
(* refreshToken: whoever has logged in has a refresh token that is signed  *)
(* as it should be.  Its session is looked for by a userId that is a       *)
(* string, where an ObjectId was stored: none is found, the answer is 401, *)
(* and no access token is ever signed or given a key.                      *)

refreshToken(r) ==
  /\ entered # {}
  /\ Start(r, [step |-> "findSession"])
  /\ UNCHANGED <<admin, tokens, fate, faults>>

FindSession(r) ==
  /\ request[r].step = "findSession"
  /\ Finish(r)
  /\ UNCHANGED <<admin, tokens, fate, faults>>

----------------------------------------------------------------------------
(* logout: deleteMany({ AdminId }) finds no session, as the field is       *)
(* called userId; the keys of Redis are listed and then deleted.  Whose    *)
(* log-in it ends is in the body, so any administrator may ask for it.     *)

logout(r) ==
  /\ Start(r, [step |-> "deleteSessions", before |-> entered, keys |-> {}])
  /\ UNCHANGED <<admin, tokens, fate, faults>>

DeleteSessions(r) ==
  /\ request[r].step = "deleteSessions"
  /\ Continue(r, "readKeys")
  /\ UNCHANGED <<admin, tokens, fate, faults>>

\* Without a key there is nothing to delete.
ReadKeys(r) ==
  /\ request[r].step = "readKeys"
  /\ IF access = {}
     THEN Finish(r) /\ left' = left \cup request[r].before
     ELSE /\ request' = [request EXCEPT ![r].step = "deleteKeys", ![r].keys = access]
          /\ UNCHANGED left
  /\ UNCHANGED <<admin, access, sessions, entered, fate, faults>>

\* Fault: one key is deleted, as if there were no other log-in.
DeleteKeys_One(r) ==
  /\ request[r].step = "deleteKeys"
  /\ \E t \in request[r].keys : access' = access \ {t}
  /\ left' = left \cup request[r].before
  /\ Finish(r)
  /\ UNCHANGED <<admin, sessions, entered, fate, faults>>

DeleteKeys(r) ==
  /\ request[r].step = "deleteKeys"
  /\ access' = access \ request[r].keys
  /\ left' = left \cup request[r].before
  /\ Finish(r)
  /\ UNCHANGED <<admin, sessions, entered, fate, faults>>

----------------------------------------------------------------------------
(* The lists of managers and of users: behind the guard, which looks at    *)
(* the signature and the role, the token's key is looked for in Redis.     *)

AdminGuard(t) == t \in entered

getAll(r, t) ==
  /\ AdminGuard(t)
  /\ Start(r, [step |-> "findKey", token |-> t, late |-> t \in left])
  /\ UNCHANGED <<admin, tokens, fate, faults>>

verifyJwtToken(r) ==
  /\ request[r].step = "findKey"
  /\ IF request[r].token \in access THEN Continue(r, "readList") ELSE Finish(r)
  /\ UNCHANGED <<admin, tokens, fate, faults>>

ReadList(r) ==
  /\ request[r].step = "readList"
  /\ Finish(r)
  /\ UNCHANGED <<admin, tokens, fate, faults>>

----------------------------------------------------------------------------
OtpExpires ==
  /\ otp # NoCode
  /\ otp' = NoCode
  /\ UNCHANGED <<deviceKnown, tokens, fate, request, faults>>

KeyExpires(t) ==
  /\ t \in access
  /\ access' = access \ {t}
  /\ UNCHANGED <<admin, sessions, entered, left, fate, request, faults>>

RequestFails(r) ==
  /\ Failure(r)
  /\ UNCHANGED <<admin, tokens, fate>>

Restart ==
  /\ Restarted
  /\ UNCHANGED <<admin, tokens, fate>>

LoggingIn(r) == login(r) \/ NoteDevice(r) \/ (\E c \in Codes : SetOtp(r, c)) \/ sendEmail(r)
Verifying(r) ==
  (\E t \in Tokens : verifyOtp(r, t)) \/ UnsetOtp(r) \/ SetKey(r) \/ InsertSession(r)
Refreshing(r) == refreshToken(r) \/ FindSession(r)
LoggingOut(r) == logout(r) \/ DeleteSessions(r) \/ ReadKeys(r) \/ DeleteKeys(r)
Listing(r) == (\E t \in Tokens : getAll(r, t)) \/ verifyJwtToken(r) \/ ReadList(r)

Next ==
  \/ \E r \in Requests :
       \/ LoggingIn(r) \/ Verifying(r) \/ Refreshing(r)
       \/ LoggingOut(r) \/ Listing(r) \/ RequestFails(r)
  \/ \E t \in Tokens : KeyExpires(t)
  \/ OtpExpires
  \/ Restart

Spec == Init /\ [][Next]_vars

----------------------------------------------------------------------------
(* The codes as one-time secrets. *)

Valid == {otp} \ {NoCode}
Holding == [r \in Requests |-> IF request[r].step \in VerifySteps THEN request[r].code ELSE NoCode]

----------------------------------------------------------------------------
(* Properties *)

\* No request that comes after an acknowledged log-out is shown managers or
\* users for a token that was handed out before the log-out began, although the
\* keys are listed and deleted in two calls, log-ins go on in between, and calls
\* fail.  It says nothing of the operations that AdminGuard alone protects.
ListsRefuseLoggedOut ==
  \A r \in Requests : request[r].step = "readList" => ~request[r].late
=============================================================================

----------------------------- MODULE AdminReset -----------------------------
(***************************************************************************)
(* How an administrator who forgot the password sets a new one, with a     *)
(* token that is kept twice, in MongoDB and in Redis, for an hour each,    *)
(* and that is a JWT which runs out by itself an hour after it was signed. *)
(* A token that either store still has is mailed again.  The password is   *)
(* left out: nobody reads it here.                                         *)
(*                                                                         *)
(* Time is counted in parts of an hour, from 1 on.                         *)
(***************************************************************************)
EXTENDS OneTimeCodes

CONSTANTS
  Life,      \* an hour
  MaxTime    \* bound: the last point in time

VARIABLES
  now,      \* the time
  signed,   \* when each token was signed, 0 if it was not
  mongo,    \* the document's resetToken and resetTokenExpires
  cache     \* Redis: the key reset:<admin>, and when it runs out

vars == <<now, signed, mongo, cache, fate, request, faults>>

NoToken == [code |-> NoCode, until |-> 0]
Times == 0..MaxTime
Stored == [code: Codes, until: 1..(MaxTime + Life)] \cup {NoToken}
ForgotSteps == {"readCache", "saveAgain", "saveNew", "setCache", "mail"}
ResetSteps == {"findAdmin", "savePassword", "deleteCache"}
Request == [step: ForgotSteps, token: Stored] \cup [step: ResetSteps, code: Codes]

TypeOK ==
  /\ now \in Times \ {0}
  /\ signed \in [Codes -> Times]
  /\ mongo \in Stored
  /\ cache \in Stored
  /\ fate \in [Codes -> Fates]
  /\ request \in [Requests -> Request \cup {Idle}]
  /\ faults \in 0..MaxFaults

Init ==
  /\ now = 1
  /\ signed = [c \in Codes |-> 0]
  /\ mongo = NoToken
  /\ cache = NoToken
  /\ fate = [c \in Codes |-> "new"]
  /\ NoRequests

Alive(stored) == stored.until > now

\* Fault: the hour is given in milliseconds.
ForAnHour_Milliseconds(c) == [code |-> c, until |-> now + 1000 * Life]

ForAnHour(c) == [code |-> c, until |-> now + Life]

----------------------------------------------------------------------------
(* forgotPassword *)

\* The document is read first, and its token is looked at later.
forgotPassword(r) ==
  /\ Start(r, [step |-> "readCache", token |-> mongo])
  /\ UNCHANGED <<now, signed, mongo, cache, fate, faults>>

FoundInCache(r) ==
  /\ request[r].step = "readCache"
  /\ Alive(cache)
  /\ request' = [request EXCEPT ![r].step = "saveAgain", ![r].token = cache]
  /\ UNCHANGED <<now, signed, mongo, cache, fate, faults>>

FoundInDocument(r) ==
  /\ request[r].step = "readCache"
  /\ ~Alive(cache)
  /\ Alive(request[r].token)
  /\ Continue(r, "setCache")
  /\ UNCHANGED <<now, signed, mongo, cache, fate, faults>>

SignToken(r, c) ==
  /\ request[r].step = "readCache"
  /\ ~Alive(cache) /\ ~Alive(request[r].token)
  /\ Draw(c)
  /\ signed' = [signed EXCEPT ![c] = now]
  /\ request' = [request EXCEPT ![r].step = "saveNew", ![r].token = ForAnHour(c)]
  /\ UNCHANGED <<now, mongo, cache, faults>>

\* The hour in the document starts again, not the one in Redis.
SaveToken(r) ==
  /\ \/ request[r].step = "saveAgain" /\ Continue(r, "mail")
     \/ request[r].step = "saveNew" /\ Continue(r, "setCache")
  /\ mongo' = ForAnHour(request[r].token.code)
  /\ UNCHANGED <<now, signed, cache, fate, faults>>

SetCache(r) ==
  /\ request[r].step = "setCache"
  /\ cache' = ForAnHour(request[r].token.code)
  /\ Continue(r, "mail")
  /\ UNCHANGED <<now, signed, mongo, fate, faults>>

sendEmail(r) ==
  /\ request[r].step = "mail"
  /\ Finish(r)
  /\ UNCHANGED <<now, signed, mongo, cache, fate, faults>>

----------------------------------------------------------------------------
(* resetPassword: the JWT, Redis and the document must all agree.          *)

\* jwtService.verify
Unexpired(c) == fate[c] # "new" /\ now < signed[c] + Life

resetPassword(r, c) ==
  /\ Unexpired(c)
  /\ cache.code = c /\ Alive(cache)
  /\ Start(r, [step |-> "findAdmin", code |-> c])
  /\ UNCHANGED <<now, signed, mongo, cache, fate, faults>>

FindAdmin(r) ==
  /\ request[r].step = "findAdmin"
  /\ IF mongo.code = request[r].code /\ Alive(mongo) THEN Continue(r, "savePassword") ELSE Finish(r)
  /\ UNCHANGED <<now, signed, mongo, cache, fate, faults>>

SavePassword(r) ==
  /\ request[r].step = "savePassword"
  /\ mongo' = NoToken
  /\ Continue(r, "deleteCache")
  /\ UNCHANGED <<now, signed, cache, fate, faults>>

DeleteCache(r) ==
  /\ request[r].step = "deleteCache"
  /\ cache' = NoToken
  /\ Acknowledge(request[r].code)
  /\ Finish(r)
  /\ UNCHANGED <<now, signed, mongo, faults>>

----------------------------------------------------------------------------
Tick ==
  /\ now < MaxTime
  /\ now' = now + 1
  /\ UNCHANGED <<signed, mongo, cache, fate, request, faults>>

RequestFails(r) ==
  /\ Failure(r)
  /\ UNCHANGED <<now, signed, mongo, cache, fate>>

Forgotten(r) ==
  \/ forgotPassword(r) \/ FoundInCache(r) \/ FoundInDocument(r) \/ (\E c \in Codes : SignToken(r, c))
  \/ SaveToken(r) \/ SetCache(r) \/ sendEmail(r)
Resetting(r) ==
  (\E c \in Codes : resetPassword(r, c)) \/ FindAdmin(r) \/ SavePassword(r) \/ DeleteCache(r)

Next ==
  \/ \E r \in Requests : Forgotten(r) \/ Resetting(r) \/ RequestFails(r)
  \/ Tick

Spec == Init /\ [][Next]_vars

----------------------------------------------------------------------------
(* The tokens as one-time secrets: the key in Redis is looked at first.    *)

Valid == {c \in Codes : cache.code = c /\ Alive(cache)}
Holding == [r \in Requests |-> IF request[r].step \in ResetSteps THEN request[r].code ELSE NoCode]
=============================================================================

------------------------------ MODULE Sessions ------------------------------
(***************************************************************************)
(* The sessions of a customer: auth-service opens one for each log-in, in  *)
(* MongoDB and then in Redis, exchanges it for another one at a refresh,   *)
(* and closes it at a log-out.  Customers share nothing, so there is one.  *)
(*                                                                         *)
(* What a refresh looks at is whether Redis has the session: the mark in   *)
(* MongoDB is not read, and a session that only MongoDB has is put back    *)
(* into Redis and refused.  Logging out of all sessions fails before it    *)
(* does anything, as nothing sets the user of the request.                 *)
(***************************************************************************)
EXTENDS Handlers

CONSTANTS
  Sessions,   \* session ids, each drawn once
  NoSession   \* "none"

VARIABLES
  session,   \* MongoDB: whether each session is stored, and marked as used
  parent,    \* the session that was exchanged for it
  cached,    \* Redis: the session:<id> keys
  handed,    \* sessions whose refresh token was handed out
  putBack    \* sessions that a refused refresh has put into Redis

store == <<session, parent, cached, handed, putBack>>
vars == <<store, request, faults>>

Request ==
  [step: {"create"}, kind: {"login", "refresh"}, id: Sessions \cup {NoSession}]
    \cup [step: {"getSession", "putBack"}, kind: {"refresh"}, id: Sessions]
    \cup [step: {"markUsed", "deleteKey"}, kind: {"refresh", "logout"}, id: Sessions]
    \cup [step: {"cache", "cacheUser"}, kind: {"login", "refresh"}, id: Sessions]

TypeOK ==
  /\ session \in [Sessions -> {"none", "open", "used"}]
  /\ parent \in [Sessions -> Sessions \cup {NoSession}]
  /\ cached \subseteq Sessions
  /\ handed \subseteq Sessions
  /\ putBack \subseteq Sessions
  /\ request \in [Requests -> Request \cup {Idle}]
  /\ faults \in 0..MaxFaults

Init ==
  /\ session = [s \in Sessions |-> "none"]
  /\ parent = [s \in Sessions |-> NoSession]
  /\ cached = {}
  /\ handed = {}
  /\ putBack = {}
  /\ NoRequests

----------------------------------------------------------------------------
(* The requests about sessions. *)

\* validateUser let the customer in.
login(r) ==
  /\ Start(r, [step |-> "create", kind |-> "login", id |-> NoSession])
  /\ UNCHANGED <<store, faults>>

refreshToken(r, s) ==
  /\ s \in handed
  /\ Start(r, [step |-> "getSession", kind |-> "refresh", id |-> s])
  /\ UNCHANGED <<store, faults>>

logout(r, s) ==
  /\ s \in handed
  /\ Start(r, [step |-> "markUsed", kind |-> "logout", id |-> s])
  /\ UNCHANGED <<store, faults>>

getSession(r) ==
  /\ request[r].step = "getSession"
  /\ Continue(r, IF request[r].id \in cached THEN "markUsed" ELSE "putBack")
  /\ UNCHANGED <<store, faults>>

\* The answer is 403: what MongoDB returns is not a string.
PutBack(r) ==
  /\ request[r].step = "putBack"
  /\ cached' = cached \cup {request[r].id}
  /\ putBack' = putBack \cup {request[r].id}
  /\ Finish(r)
  /\ UNCHANGED <<session, parent, handed, faults>>

----------------------------------------------------------------------------
(* markSessionUsed *)

\* Fault: a session that is about to be exchanged is not marked.
MarkUsed_LogoutOnly(r) ==
  /\ request[r].step = "markUsed"
  /\ session' = IF request[r].kind = "logout" THEN [session EXCEPT ![request[r].id] = "used"] ELSE session
  /\ Continue(r, "deleteKey")
  /\ UNCHANGED <<parent, cached, handed, putBack, faults>>

MarkUsed(r) ==
  /\ request[r].step = "markUsed"
  /\ session' = [session EXCEPT ![request[r].id] = "used"]
  /\ Continue(r, "deleteKey")
  /\ UNCHANGED <<parent, cached, handed, putBack, faults>>

AfterUse(r) == IF request[r].kind = "refresh" THEN Continue(r, "create") ELSE Finish(r)

\* Fault: the key of a session that is exchanged is left to expire.
DeleteKey_LogoutOnly(r) ==
  /\ request[r].step = "deleteKey"
  /\ cached' = IF request[r].kind = "logout" THEN cached \ {request[r].id} ELSE cached
  /\ AfterUse(r)
  /\ UNCHANGED <<session, parent, handed, putBack, faults>>

DeleteKey(r) ==
  /\ request[r].step = "deleteKey"
  /\ cached' = cached \ {request[r].id}
  /\ AfterUse(r)
  /\ UNCHANGED <<session, parent, handed, putBack, faults>>

----------------------------------------------------------------------------
(* createSession, for a log-in or a refresh, and what follows it.          *)

CreateSession(r, s) ==
  /\ request[r].step = "create"
  /\ session[s] = "none"
  /\ session' = [session EXCEPT ![s] = "open"]
  /\ parent' = [parent EXCEPT ![s] = request[r].id]
  /\ request' = [request EXCEPT ![r].step = "cache", ![r].id = s]
  /\ UNCHANGED <<cached, handed, putBack, faults>>

HandOut(r) == handed' = handed \cup {request[r].id} /\ Finish(r)

CacheSession(r) ==
  /\ request[r].step = "cache"
  /\ cached' = cached \cup {request[r].id}
  /\ IF request[r].kind = "login" THEN HandOut(r) ELSE Continue(r, "cacheUser") /\ UNCHANGED handed
  /\ UNCHANGED <<session, parent, putBack, faults>>

\* The key user:<id> that it sets is read by nobody.
redisUserCache(r) ==
  /\ request[r].step = "cacheUser"
  /\ HandOut(r)
  /\ UNCHANGED <<session, parent, cached, putBack, faults>>

KeyExpires(s) ==
  /\ s \in cached
  /\ cached' = cached \ {s}
  /\ UNCHANGED <<session, parent, handed, putBack, request, faults>>

----------------------------------------------------------------------------
RequestFails(r) ==
  /\ Failure(r)
  /\ UNCHANGED store

Sessioning(r) ==
  \/ login(r) \/ \E s \in Sessions : refreshToken(r, s) \/ logout(r, s) \/ CreateSession(r, s)
  \/ getSession(r) \/ PutBack(r) \/ MarkUsed(r) \/ DeleteKey(r) \/ CacheSession(r) \/ redisUserCache(r)

Next ==
  \/ \E r \in Requests : Sessioning(r) \/ RequestFails(r)
  \/ \E s \in Sessions : KeyExpires(s)

Spec == Init /\ [][Next]_vars

----------------------------------------------------------------------------
(* Properties *)

\* A session that was exchanged for another one is marked, however often and
\* by however many refreshes at a time it was exchanged.
ExchangedIsMarked ==
  \A s \in Sessions : parent[s] # NoSession => session[parent[s]] = "used"

\* As long as no call fails, a session that is marked as used is in Redis only
\* because a refused refresh has put it there, or for a moment.
UsedIsNotCached ==
  faults = 0 =>
    \A s \in cached : session[s] = "used" =>
      \/ s \in putBack
      \/ \E r \in Requests : request[r].step = "deleteKey" /\ request[r].id = s
=============================================================================

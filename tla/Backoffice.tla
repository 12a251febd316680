----------------------------- MODULE Backoffice -----------------------------
(***************************************************************************)
(* What an administrator decides: which managers are valid, which          *)
(* restaurants are blocked or deleted, which users are active; and what    *)
(* depends on it: a restaurant is created for a manager who is valid.      *)
(* A user may have the own profile marked as deleted.                      *)
(* Each decision is a flag of a document.  It is read first, except by     *)
(* those who remove their profile, and a request that would change nothing *)
(* is refused.  What an administrator says of a user is written by an      *)
(* update that nobody waits for.                                           *)
(*                                                                         *)
(* That a manager has no restaurant yet is looked up by a field that no    *)
(* restaurant has, so it is always found to be so.                         *)
(***************************************************************************)
EXTENDS Handlers

CONSTANTS
  Managers,     \* managers that signed up
  Restaurants,  \* ids of restaurants, each drawn once
  Users,
  NoManager     \* "no such restaurant"

VARIABLES
  flagged,      \* the documents in which a flag is true
  owner,        \* the manager of each restaurant
  unawaited,    \* updates of users that nobody waits for
  seen          \* requests during which what they say was so for a moment

store == <<flagged, owner, unawaited>>
vars == <<store, seen, request, faults>>

Change ==
  [flag: {"isActiveManager"}, of: Managers, value: BOOLEAN]
    \cup [flag: {"isBlocked", "isDeleted"}, of: Restaurants, value: {TRUE}]
    \cup [flag: {"is_active"}, of: Users, value: BOOLEAN]
    \cup [flag: {"is_deleted"}, of: Users, value: {TRUE}]
Deciding == [step: {"find", "update", "reply"}, change: Change]
Creating == [step: {"findManager", "findRestaurant", "save"}, manager: Managers]

FlagOf(c) == [flag |-> c.flag, of |-> c.of]
Flags == {FlagOf(c) : c \in Change}

TypeOK ==
  /\ flagged \subseteq Flags
  /\ owner \in [Restaurants -> Managers \cup {NoManager}]
  /\ unawaited \subseteq Change
  /\ seen \subseteq Requests
  /\ request \in [Requests -> Deciding \cup Creating \cup {Idle}]
  /\ faults \in 0..MaxFaults

Init ==
  /\ flagged = [flag: {"is_active"}, of: Users]
  /\ owner = [x \in Restaurants |-> NoManager]
  /\ unawaited = {}
  /\ seen = {}
  /\ NoRequests

IsValid(m) == [flag |-> "isActiveManager", of |-> m] \in flagged
Holds(c) == (FlagOf(c) \in flagged) = c.value
Set(c) == flagged' = IF c.value THEN flagged \cup {FlagOf(c)} ELSE flagged \ {FlagOf(c)}

\* What the request says is so: the flag is set, or the manager is valid.
True(r) ==
  \/ request[r] \in Deciding /\ Holds(request[r].change)
  \/ request[r] \in Creating /\ IsValid(request[r].manager)
Watch ==
  seen' = {r \in Requests : True(r)' \/ (r \in seen /\ request[r] # Idle /\ request'[r] # Idle)}

----------------------------------------------------------------------------
(* Decisions *)

Decide(r, c) ==
  /\ Start(r, [step |-> "find", change |-> c])
  /\ UNCHANGED <<store, faults>>
  /\ Watch

ValidateManager(r, m) == Decide(r, [flag |-> "isActiveManager", of |-> m, value |-> TRUE])
InValidateManager(r, m) == Decide(r, [flag |-> "isActiveManager", of |-> m, value |-> FALSE])
blockRestaurant(r, x) == Decide(r, [flag |-> "isBlocked", of |-> x, value |-> TRUE])
softDeleteRestaurant(r, x) == Decide(r, [flag |-> "isDeleted", of |-> x, value |-> TRUE])
blockUser(r, u) == Decide(r, [flag |-> "is_active", of |-> u, value |-> FALSE])
unblockUser(r, u) == Decide(r, [flag |-> "is_active", of |-> u, value |-> TRUE])

\* profile.service: the user is marked without a look at the document.
remove(r, u) ==
  /\ Start(r, [step |-> "update", change |-> [flag |-> "is_deleted", of |-> u, value |-> TRUE]])
  /\ UNCHANGED <<store, faults>>
  /\ Watch

Found(r, c) ==
  /\ request[r].step = "find"
  /\ request[r].change = c
  /\ c.of \in Restaurants => owner[c.of] # NoManager

\* 404, or 400: the flag is as it should be.
Refused(r) ==
  /\ request[r].step = "find"
  /\ LET c == request[r].change IN Found(r, c) => Holds(c)
  /\ Finish(r)
  /\ UNCHANGED <<store, faults>>
  /\ Watch

\* Fault: the request is answered as if the update were done.
FindDocument_Unawaited(r) ==
  \E c \in Change :
    /\ Found(r, c) /\ ~Holds(c)
    /\ unawaited' = unawaited \cup {c}
    /\ Continue(r, "reply")
    /\ UNCHANGED <<flagged, owner, faults>>
    /\ Watch

\* A user's update is sent off, and the request is answered.
FindDocument(r) ==
  \E c \in Change :
    /\ Found(r, c) /\ ~Holds(c)
    /\ IF c.of \in Users
       THEN unawaited' = unawaited \cup {c} /\ Finish(r)
       ELSE UNCHANGED unawaited /\ Continue(r, "update")
    /\ UNCHANGED <<flagged, owner, faults>>
    /\ Watch

Update(r) ==
  /\ request[r].step = "update"
  /\ Set(request[r].change)
  /\ Continue(r, "reply")
  /\ UNCHANGED <<owner, unawaited, faults>>
  /\ Watch

Reply(r) ==
  /\ request[r].step = "reply"
  /\ Finish(r)
  /\ UNCHANGED <<store, faults>>
  /\ Watch

UserUpdated(c) ==
  /\ c \in unawaited
  /\ Set(c)
  /\ unawaited' = unawaited \ {c}
  /\ UNCHANGED <<owner, request, faults>>
  /\ Watch

----------------------------------------------------------------------------
(* createRestaurant *)

createRestaurant(r, m) ==
  /\ Start(r, [step |-> "findManager", manager |-> m])
  /\ UNCHANGED <<store, faults>>
  /\ Watch

\* Fault: that the manager exists is enough.
FindManager_Any(r) ==
  /\ request[r].step = "findManager"
  /\ Continue(r, "findRestaurant")
  /\ UNCHANGED <<store, faults>>
  /\ Watch

FindManager(r) ==
  /\ request[r].step = "findManager"
  /\ IF IsValid(request[r].manager) THEN Continue(r, "findRestaurant") ELSE Finish(r)
  /\ UNCHANGED <<store, faults>>
  /\ Watch

FindRestaurant(r) ==
  /\ request[r].step = "findRestaurant"
  /\ Continue(r, "save")
  /\ UNCHANGED <<store, faults>>
  /\ Watch

SaveRestaurant(r, x) ==
  /\ request[r].step = "save"
  /\ owner[x] = NoManager
  /\ owner' = [owner EXCEPT ![x] = request[r].manager]
  /\ Finish(r)
  /\ UNCHANGED <<flagged, unawaited, faults>>
  /\ Watch

----------------------------------------------------------------------------
(* Failures *)

RequestFails(r) ==
  /\ Failure(r)
  /\ UNCHANGED store
  /\ Watch

\* MongoDB stores the flag, and its answer is lost.
UpdateUnanswered(r) ==
  /\ request[r].step = "update"
  /\ Set(request[r].change)
  /\ Failure(r)
  /\ UNCHANGED <<owner, unawaited>>
  /\ Watch

\* Nobody catches what the update of a user throws: the process dies.
UserUpdateFails(c) ==
  /\ c \in unawaited
  /\ unawaited' = unawaited \ {c}
  /\ Restarted
  /\ UNCHANGED <<flagged, owner>>
  /\ Watch

Administer(r) ==
  \/ \E m \in Managers : ValidateManager(r, m) \/ InValidateManager(r, m)
  \/ \E x \in Restaurants : blockRestaurant(r, x) \/ softDeleteRestaurant(r, x)
  \/ \E u \in Users : blockUser(r, u) \/ unblockUser(r, u) \/ remove(r, u)
  \/ Refused(r) \/ FindDocument(r) \/ Update(r) \/ Reply(r) \/ UpdateUnanswered(r)

OpenRestaurant(r) ==
  \/ \E m \in Managers : createRestaurant(r, m)
  \/ FindManager(r) \/ FindRestaurant(r)
  \/ \E x \in Restaurants : SaveRestaurant(r, x)

Next ==
  \/ \E r \in Requests : Administer(r) \/ OpenRestaurant(r) \/ RequestFails(r)
  \/ \E c \in unawaited : UserUpdated(c) \/ UserUpdateFails(c)

Spec == Init /\ [][Next]_vars

----------------------------------------------------------------------------
(* Properties *)

\* An administrator who is told that a manager is valid or not, or that a
\* restaurant is blocked or deleted, and a user who is told that the profile is
\* removed, is told what was so at a time during the request.
Decided == \A r \in Requests : request[r].step = "reply" /\ request'[r] = Idle => r \in seen
DecidedBeforeReply == [][Decided]_vars

\* A restaurant is created only for a manager who was valid at a time during
\* the request, whatever is decided about the manager in the meantime.
OwnerWasValid ==
  \A x \in Restaurants : owner'[x] # owner[x] =>
    \E r \in seen : request[r].step = "save" /\ request[r].manager = owner'[x]
OwnersWereValid == [][OwnerWasValid]_vars
=============================================================================

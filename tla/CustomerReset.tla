---------------------------- MODULE CustomerReset ----------------------------
(***************************************************************************)
(* How a customer who forgot the password sets a new one: user-service     *)
(* mails a token that is a key in Redis, as many tokens as are asked for,  *)
(* each for an hour or until it is used.  Customers share nothing, so      *)
(* there is one here.  The password itself is left out: nobody reads it.   *)
(***************************************************************************)
EXTENDS OneTimeCodes

VARIABLE
  reset     \* Redis: the reset:<token> keys

vars == <<reset, fate, request, faults>>

Request == [step: {"setToken"}] \cup [step: {"savePassword", "removeToken"}, code: Codes]

TypeOK ==
  /\ reset \subseteq Codes
  /\ fate \in [Codes -> Fates]
  /\ request \in [Requests -> Request \cup {Idle}]
  /\ faults \in 0..MaxFaults

Init ==
  /\ reset = {}
  /\ fate = [c \in Codes |-> "new"]
  /\ NoRequests

----------------------------------------------------------------------------
forgotPassword(r) ==
  /\ Start(r, [step |-> "setToken"])
  /\ UNCHANGED <<reset, fate, faults>>

generate(r, c) ==
  /\ request[r].step = "setToken"
  /\ Draw(c)
  /\ reset' = reset \cup {c}
  /\ Finish(r)
  /\ UNCHANGED faults

resetPassword(r, c) ==
  /\ c \in reset
  /\ Start(r, [step |-> "savePassword", code |-> c])
  /\ UNCHANGED <<reset, fate, faults>>

updatePassword(r) ==
  /\ request[r].step = "savePassword"
  /\ Continue(r, "removeToken")
  /\ UNCHANGED <<reset, fate, faults>>

remove(r) ==
  /\ request[r].step = "removeToken"
  /\ reset' = reset \ {request[r].code}
  /\ Acknowledge(request[r].code)
  /\ Finish(r)
  /\ UNCHANGED faults

ResetExpires(c) ==
  /\ c \in reset
  /\ reset' = reset \ {c}
  /\ UNCHANGED <<fate, request, faults>>

RequestFails(r) ==
  /\ Failure(r)
  /\ UNCHANGED <<reset, fate>>

Next ==
  \/ \E r \in Requests : forgotPassword(r) \/ updatePassword(r) \/ remove(r) \/ RequestFails(r)
  \/ \E r \in Requests, c \in Codes : generate(r, c) \/ resetPassword(r, c)
  \/ \E c \in Codes : ResetExpires(c)

Spec == Init /\ [][Next]_vars

----------------------------------------------------------------------------
(* The tokens as one-time secrets. *)

Valid == reset
Holding ==
  [r \in Requests |->
     IF request[r].step \in {"savePassword", "removeToken"} THEN request[r].code ELSE NoCode]
=============================================================================

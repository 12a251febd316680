-------------------------- MODULE ManagerAccounts --------------------------
(***************************************************************************)
(* The accounts of restaurant managers, each one document in MongoDB:      *)
(* sign-up, change of the fields, and the reset of a forgotten password    *)
(* with a token that is mailed and valid for an hour.  Log-in and log-out  *)
(* write nothing; events to the notification service are not awaited.      *)
(***************************************************************************)
EXTENDS OneTimeCodes

CONSTANTS
  Managers,    \* managers, each with an e-mail
  Passwords,
  NoPassword   \* "no document"

VARIABLES
  manager,     \* the password in each manager's document
  hashed,      \* managers whose password is stored as its hash: the others cannot log in
  resetToken,  \* the token in each document, as long as it has not expired
  told         \* the password each manager was last told to have, if that is sure

document == <<manager, hashed, resetToken>>
vars == <<document, fate, told, request, faults>>

Request ==
  [step: {"saveNew"}, manager: Managers, password: Passwords]
    \cup [step: {"saveToken"}, manager: Managers]
    \cup [step: {"saveReset"}, manager: Managers, password: Passwords, code: Codes]

TypeOK ==
  /\ manager \in [Managers -> Passwords \cup {NoPassword}]
  /\ hashed \subseteq Managers
  /\ resetToken \in [Managers -> Codes \cup {NoCode}]
  /\ fate \in [Codes -> Fates]
  /\ told \in [Managers -> Passwords \cup {NoPassword}]
  /\ request \in [Requests -> Request \cup {Idle}]
  /\ faults \in 0..MaxFaults

Init ==
  /\ manager = [m \in Managers |-> NoPassword]
  /\ hashed = {}
  /\ resetToken = [m \in Managers |-> NoCode]
  /\ fate = [c \in Codes |-> "new"]
  /\ told = [m \in Managers |-> NoPassword]
  /\ NoRequests

Exists(m) == manager[m] # NoPassword

SetPassword(m, p) ==
  /\ manager' = [manager EXCEPT ![m] = p]
  /\ hashed' = hashed \cup {m}

----------------------------------------------------------------------------
Signup(r, m, p) ==
  /\ ~Exists(m)
  /\ Start(r, [step |-> "saveNew", manager |-> m, password |-> p])
  /\ UNCHANGED <<document, fate, told, faults>>

\* The unique index on the e-mail refuses the second of two.
SaveNew(r) ==
  /\ request[r].step = "saveNew"
  /\ LET m == request[r].manager IN
     IF Exists(m) THEN UNCHANGED <<manager, hashed, told>>
     ELSE /\ SetPassword(m, request[r].password)
          /\ told' = [told EXCEPT ![m] = request[r].password]
  /\ Finish(r)
  /\ UNCHANGED <<resetToken, fate, faults>>

\* One call of findByIdAndUpdate, with the body as it came: a password is not
\* hashed.
updateManager(m, p) ==
  /\ Exists(m)
  /\ manager' = [manager EXCEPT ![m] = p]
  /\ hashed' = hashed \ {m}
  /\ told' = [told EXCEPT ![m] = p]
  /\ UNCHANGED <<resetToken, fate, request, faults>>

----------------------------------------------------------------------------
(* A reset: the token is saved in the document and mailed; who brings it   *)
(* in time sets the password, and the document's token is removed, even if *)
(* it is a newer one by then.                                              *)

initiatePasswordReset(r, m) ==
  /\ Exists(m)
  /\ Start(r, [step |-> "saveToken", manager |-> m])
  /\ UNCHANGED <<document, fate, told, faults>>

SaveToken(r, c) ==
  /\ request[r].step = "saveToken"
  /\ resetToken' = [resetToken EXCEPT ![request[r].manager] = c]
  /\ Draw(c)
  /\ Finish(r)
  /\ UNCHANGED <<manager, hashed, told, faults>>

resetPassword(r, m, p) ==
  /\ resetToken[m] # NoCode
  /\ Start(r, [step |-> "saveReset", manager |-> m, password |-> p, code |-> resetToken[m]])
  /\ UNCHANGED <<document, fate, told, faults>>

SaveReset(r) ==
  /\ request[r].step = "saveReset"
  /\ LET m == request[r].manager IN
     /\ SetPassword(m, request[r].password)
     /\ resetToken' = [resetToken EXCEPT ![m] = NoCode]
     /\ told' = [told EXCEPT ![m] = request[r].password]
  /\ Acknowledge(request[r].code)
  /\ Finish(r)
  /\ UNCHANGED faults

ResetExpires(m) ==
  /\ resetToken[m] # NoCode
  /\ resetToken' = [resetToken EXCEPT ![m] = NoCode]
  /\ UNCHANGED <<manager, hashed, fate, told, request, faults>>

----------------------------------------------------------------------------
\* MongoDB stores what a request writes, and its answer is lost.
WriteLost(r) ==
  /\ request[r].step \in {"saveNew", "saveReset"}
  /\ Fault
  /\ LET m == request[r].manager IN
     /\ request[r].step = "saveNew" => ~Exists(m)
     /\ SetPassword(m, request[r].password)
     /\ resetToken' = [resetToken EXCEPT ![m] = NoCode]
     /\ told' = [told EXCEPT ![m] = NoPassword]
  /\ Finish(r)
  /\ UNCHANGED fate

RequestFails(r) ==
  /\ Failure(r)
  /\ UNCHANGED <<document, fate, told>>

Restart ==
  /\ Restarted
  /\ UNCHANGED <<document, fate, told>>

Next ==
  \/ \E r \in Requests, m \in Managers :
       \/ \E p \in Passwords : Signup(r, m, p) \/ resetPassword(r, m, p)
       \/ initiatePasswordReset(r, m)
  \/ \E r \in Requests :
       \/ SaveNew(r) \/ SaveReset(r) \/ WriteLost(r) \/ RequestFails(r)
       \/ \E c \in Codes : SaveToken(r, c)
  \/ \E m \in Managers : ResetExpires(m) \/ \E p \in Passwords : updateManager(m, p)
  \/ Restart

Spec == Init /\ [][Next]_vars

----------------------------------------------------------------------------
(* The reset tokens as one-time secrets. *)

Valid == {resetToken[m] : m \in Managers} \ {NoCode}
Holding == [r \in Requests |-> IF request[r].step = "saveReset" THEN request[r].code ELSE NoCode]

----------------------------------------------------------------------------
(* Properties *)

\* The password a manager was last told is the one stored, whatever a reset or
\* a sign-up that started earlier writes afterwards.
PasswordsAsTold == \A m \in Managers : told[m] \in {NoPassword, manager[m]}
=============================================================================

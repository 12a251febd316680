----------------------------- MODULE SingleUse -----------------------------
(***************************************************************************)
(* What a one-time secret promises - the code mailed to a delivery partner *)
(* or an administrator, the token that resets the password of a manager or *)
(* of a customer: once a request that used it has been told so, it is      *)
(* never accepted again.  Requests that use it at the same time, before    *)
(* one of them is told, may all be accepted.                               *)
(***************************************************************************)
CONSTANTS
  Secrets,   \* the secrets ever handed out, all different
  NoSecret,  \* "none"
  Requests   \* the requests that may use one

VARIABLES
  valid,    \* secrets that would be accepted now
  spent,    \* secrets whose use was acknowledged
  holding   \* the secret each request was accepted with, and acts upon

vars == <<valid, spent, holding>>

Init ==
  /\ valid = {}
  /\ spent = {}
  /\ holding = [r \in Requests |-> NoSecret]

\* Secrets are handed out, replaced and forgotten.
Change ==
  /\ valid' \subseteq Secrets \ spent
  /\ UNCHANGED <<spent, holding>>

Accept(r) ==
  /\ holding[r] = NoSecret
  /\ \E s \in valid : holding' = [holding EXCEPT ![r] = s]
  /\ UNCHANGED <<valid, spent>>

Acknowledge(r) ==
  /\ holding[r] # NoSecret
  /\ spent' = spent \cup {holding[r]}
  /\ holding' = [holding EXCEPT ![r] = NoSecret]
  /\ valid' \subseteq valid \ spent'

\* Requests fail, before or after what they do to the secret.
GiveUp ==
  /\ \E R \in SUBSET Requests :
       holding' = [r \in Requests |-> IF r \in R THEN NoSecret ELSE holding[r]]
  /\ valid' \subseteq valid
  /\ UNCHANGED spent

Next ==
  \/ Change
  \/ \E r \in Requests : Accept(r) \/ Acknowledge(r)
  \/ GiveUp

Spec == Init /\ [][Next]_vars

----------------------------------------------------------------------------
(* Properties *)

\* No secret whose use was acknowledged can be used.
SpentIsInvalid == spent \cap valid = {}

\* A request that starts to act upon a secret acts upon one that nobody was
\* told to have used.
NeverAgain ==
  [][\A r \in Requests : holding'[r] \notin {holding[r], NoSecret} => holding'[r] \notin spent]_vars
=============================================================================

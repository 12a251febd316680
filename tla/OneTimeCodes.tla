---------------------------- MODULE OneTimeCodes ----------------------------
(***************************************************************************)
(* The secrets that services draw at random and mail: one-time passwords   *)
(* and reset tokens.  That two draws differ is assumed: the code relies on *)
(* it too.                                                                 *)
(***************************************************************************)
EXTENDS Handlers

CONSTANTS
  Codes,  \* the secrets, each drawn once
  NoCode  \* "none"

ASSUME CodeAssumption == NoCode \notin Codes

VARIABLE fate  \* of each code: not drawn yet, drawn, or its use acknowledged

Fates == {"new", "drawn", "spent"}
Draw(c) == fate[c] = "new" /\ fate' = [fate EXCEPT ![c] = "drawn"]
Acknowledge(c) == fate' = [fate EXCEPT ![c] = "spent"]
Spent == {c \in Codes : fate[c] = "spent"}
=============================================================================

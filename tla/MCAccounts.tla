----------------------------- MODULE MCAccounts -----------------------------
(* Accounts on small instances. *)
EXTENDS Accounts, TLC

Symmetry ==
  Permutations(Passwords) \cup Permutations(Codes) \cup Permutations(Tokens)
    \cup Permutations(Sessions) \cup Permutations(Requests)
=============================================================================

------------------------------ MODULE MCSignUp ------------------------------
(* SignUp on small instances. *)
EXTENDS SignUp, TLC

Symmetry == Permutations(Codes) \cup Permutations(Users) \cup Permutations(Requests)
=============================================================================

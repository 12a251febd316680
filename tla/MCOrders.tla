----------------------------- MODULE MCOrders ------------------------------
(* Orders on small instances. *)
EXTENDS Orders, TLC

Symmetry == Permutations(Requests) \cup Permutations(PaymentIds)
=============================================================================

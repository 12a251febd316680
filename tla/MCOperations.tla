---------------------------- MODULE MCOperations ----------------------------
(* Operations on small instances; liveness is checked, so without symmetry. *)
EXTENDS Operations
=============================================================================

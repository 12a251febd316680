---------------------------- MODULE MCCheckout -----------------------------
(* Checkout on small instances. *)
EXTENDS Checkout, TLC

\* One event of a charge and, with a declined attempt before it, the one that
\* can take "completed" back.
CheckoutEvents == {"checkout.session.completed", "charge.updated"}
CompletedEvents == {"checkout.session.completed"}

Symmetry == Permutations(Sessions) \cup Permutations(Requests)
=============================================================================

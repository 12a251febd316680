----------------------------- MODULE PaidOrders -----------------------------
(***************************************************************************)
(* What order-service and payment-service promise together: an order is    *)
(* booked as paid only after its customer was charged.  A booking may be   *)
(* lost again (a later placement replaces it), the charge is not.          *)
(***************************************************************************)
CONSTANT Orders

VARIABLES
  paid,     \* orders whose customer was charged
  booked    \* orders whose document says the payment is completed

vars == <<paid, booked>>

Init == paid = {} /\ booked = {}

Pay(o) == paid' = paid \cup {o} /\ UNCHANGED booked
Book(o) == o \in paid /\ booked' = booked \cup {o} /\ UNCHANGED paid
Unbook(o) == booked' = booked \ {o} /\ UNCHANGED paid

Next == \E o \in Orders : Pay(o) \/ Book(o) \/ Unbook(o)

Spec == Init /\ [][Next]_vars
=============================================================================

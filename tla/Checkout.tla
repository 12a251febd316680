------------------------------ MODULE Checkout ------------------------------
(***************************************************************************)
(* order-service and payment-service together.  payment-service reads the  *)
(* `orders' collection before it opens a checkout session; order-service   *)
(* asks payment-service over gRPC what became of the payment.  Neither     *)
(* tells the other when something changes.                                 *)
(***************************************************************************)
EXTENDS Payment, Integers

CONSTANTS Requests, CancelWindow, MaxTime

VARIABLES orders, timestamp, now, dispatched, request, reply, orderFaults

paymentVars == <<stripe, checkout, records, webhook, delivery, acked, refund, refunds, faults>>
orderVars == <<orders, timestamp, now, dispatched, request, reply, orderFaults>>
checkoutVars == <<billable, paymentVars, orderVars>>

\* What order-service sees of payment-service is the answer of getPayStatus ...
O == INSTANCE Orders WITH payStatus <- [o \in Orders |-> getPayStatus(o)],
                          PaymentIds <- Sessions, NILL <- NoSession, faults <- orderFaults
\* ... and payment-service sees the documents of the `orders' collection.
Documents == {o \in Orders : orders[o] # NoOrder}

ASSUME DocumentAssumption == NoOrder \notin O!OrderInfo
ASSUME ClockAssumption == CancelWindow \in Nat /\ MaxTime \in Nat

CheckoutInit == Init /\ O!Init

PaymentStep == UNCHANGED orderVars /\ Service
OrderStep ==
  /\ UNCHANGED paymentVars
  /\ O!Service \/ O!Tick
  /\ billable' = Documents'

CheckoutNext == PaymentStep \/ OrderStep

CheckoutSpec == CheckoutInit /\ [][CheckoutNext]_checkoutVars

----------------------------------------------------------------------------
(* Properties *)

\* Each service keeps to its own specification in the company of the other:
\* what one assumes of its environment is what the other one does.
PaymentSpec == Spec
OrdersSpec == O!Spec

PaymentCompleted(o) == orders[o] # NoOrder /\ orders[o].paymentStatus = "completed"

\* A document that says "completed" names the payment, and that payment is the
\* order's own and was charged at Stripe, however webhooks, placements, their
\* stale answers, cancellations and restarts interleave.
CompletedOrderWasPaid ==
  \A o \in Orders : PaymentCompleted(o) =>
    LET s == orders[o].paymentId IN
    s \in Sessions /\ stripe[s].order = o /\ stripe[s].state = "complete"

\* Cancelling an order that was paid keeps the record of the payment, which is
\* what a refund starts from.
PaidRecordKept ==
  [][\A o \in Orders :
       /\ PaymentCompleted(o) /\ orders[o].status # "cancelled"
       /\ orders'[o] # NoOrder /\ orders'[o].status = "cancelled"
       => /\ orders'[o].paymentStatus = "completed"
          /\ orders'[o].paymentId = orders[o].paymentId]_checkoutVars

\* Once the time to cancel is over and no cancellation is in flight, nothing
\* cancels the order any more.
Closed(o) ==
  /\ orders[o] # NoOrder
  /\ orders[o].status # "cancelled"
  /\ now - timestamp[o] > CancelWindow
  /\ \A r \in Requests : request[r].step = "save" => request[r].order # o
CancelWindowCloses == [][\A o \in Orders : Closed(o) => Closed(o)']_checkoutVars

\* The two services implement the promise of PaidOrders.
Promise == INSTANCE PaidOrders WITH
  paid <- {o \in Orders : \E s \in Sessions : stripe[s].order = o /\ stripe[s].state = "complete"},
  booked <- {o \in Orders : PaymentCompleted(o)}
PromiseKept == Promise!Spec
=============================================================================

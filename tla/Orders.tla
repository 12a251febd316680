------------------------------- MODULE Orders -------------------------------
(***************************************************************************)
(* order-service: the documents of the `orders' collection and the HTTP    *)
(* requests that create, place and cancel them.                            *)
(*                                                                         *)
(* placeOrder and cancelOrder run once per request; every await on MongoDB *)
(* or on the payment service's gRPC call ends a step, and between two      *)
(* steps any other request runs.  Nothing locks an order, and no handler   *)
(* looks at the status it is about to replace.                             *)
(***************************************************************************)
EXTENDS Integers

CONSTANTS
  Orders,        \* order ids
  NoOrder,       \* "no document"
  PaymentIds,    \* ids of payment-service's payments
  NILL,          \* the paymentId of an order without a payment
  Requests,      \* HTTP requests the service may be handling at a time
  CancelWindow,  \* how long an order may be cancelled (60 s)
  MaxTime,       \* bound: the clock stops here
  MaxFaults      \* bound: failed calls and restarts in a behaviour

PaymentStatus == {"pending", "completed", "failed"}
OrderStatus == {"confirmed", "preparing", "cancelled", "failed"}
PaymentMethod == {"cash_on_delivery", "upi"}

\* What updateOrder sets, and what an order is made of besides its bill.
OrderInfo == [paymentId: PaymentIds \cup {NILL}, paymentStatus: PaymentStatus,
              paymentMethod: PaymentMethod, status: OrderStatus]
\* What getPayStatus may answer; "NotFound" stands for the gRPC error, and
\* "Failed" is the spelling only this service knows.
Answer == [paymentStatus: {"pending", "completed", "failed", "Failed", "NotFound"},
           paymentID: PaymentIds \cup {NILL}]

ASSUME NoOrderAssumption == NoOrder \notin OrderInfo
ASSUME NillAssumption == NILL \notin PaymentIds
ASSUME TimeAssumption == CancelWindow \in Nat /\ MaxTime \in Nat /\ MaxFaults \in Nat

VARIABLES
  payStatus,   \* what payment-service would answer for each order
  orders,      \* the documents
  timestamp,   \* when each was created
  now,         \* the clock
  dispatched,  \* orders whose newOrder event was handed to Kafka
  request,     \* the requests being handled
  reply,       \* the last reply of each request slot
  faults       \* failed calls and restarts so far

vars == <<payStatus, orders, timestamp, now, dispatched, request, reply, faults>>

Idle == [step |-> "idle"]
Request ==
  [step: {"askPayment"}, order: Orders]
    \cup [step: {"answered"}, order: Orders, answer: Answer]
    \cup [step: {"update", "fallback"}, order: Orders, write: OrderInfo]
    \cup [step: {"save"}, order: Orders, seen: OrderStatus]
Replies == {"none", "200", "201", "201 empty", "404", "500"}

TypeOK ==
  /\ payStatus \in [Orders -> Answer]
  /\ orders \in [Orders -> OrderInfo \cup {NoOrder}]
  /\ timestamp \in [Orders -> 0..MaxTime]
  /\ now \in 0..MaxTime
  /\ dispatched \subseteq Orders
  /\ request \in [Requests -> Request \cup {Idle}]
  /\ reply \in [Requests -> Replies]
  /\ faults \in 0..MaxFaults

Exists(o) == orders[o] # NoOrder

Init ==
  /\ payStatus = [o \in Orders |-> [paymentStatus |-> "NotFound", paymentID |-> NILL]]
  /\ orders = [o \in Orders |-> NoOrder]
  /\ timestamp = [o \in Orders |-> 0]
  /\ now = 0
  /\ dispatched = {}
  /\ request = [r \in Requests |-> Idle]
  /\ reply = [r \in Requests |-> "none"]
  /\ faults = 0

Fault == faults < MaxFaults /\ faults' = faults + 1

----------------------------------------------------------------------------
(* The environment: time passes, and payment-service's answer changes.     *)

Tick ==
  /\ now < MaxTime
  /\ now' = now + 1
  /\ UNCHANGED <<payStatus, orders, timestamp, dispatched, request, reply, faults>>

PaymentMoves(o, a) ==
  /\ payStatus' = [payStatus EXCEPT ![o] = a]
  /\ UNCHANGED <<orders, timestamp, now, dispatched, request, reply, faults>>

----------------------------------------------------------------------------
(* createOrder: the cart, the restaurant and the address were found; the   *)
(* document is inserted with the time of the insertion.                    *)

\* Fault: the status is left to the schema's default.
createOrder_Default(o) ==
  /\ ~Exists(o)
  /\ orders' = [orders EXCEPT ![o] =
       [paymentId |-> NILL, paymentMethod |-> "cash_on_delivery",
        paymentStatus |-> "pending", status |-> "pending"]]
  /\ timestamp' = [timestamp EXCEPT ![o] = now]
  /\ UNCHANGED <<payStatus, now, dispatched, request, reply, faults>>

createOrder(o) ==
  /\ ~Exists(o)
  /\ orders' = [orders EXCEPT ![o] =
       [paymentId |-> NILL, paymentMethod |-> "cash_on_delivery",
        paymentStatus |-> "pending", status |-> "confirmed"]]
  /\ timestamp' = [timestamp EXCEPT ![o] = now]
  /\ UNCHANGED <<payStatus, now, dispatched, request, reply, faults>>

----------------------------------------------------------------------------
(* updateOrder: one $set of four fields, whatever their values were.       *)

updateOrder(o, write) == orders' = [orders EXCEPT ![o] = IF Exists(o) THEN write ELSE @]

Finish(r, code) == /\ request' = [request EXCEPT ![r] = Idle]
                   /\ reply' = [reply EXCEPT ![r] = code]
Continue(r, next) == /\ request' = [request EXCEPT ![r] = next]
                     /\ reply' = [reply EXCEPT ![r] = "none"]

----------------------------------------------------------------------------
(* placeOrder.  The events are emitted before the document is updated, and *)
(* before anything has shown that there is one.                            *)

PreparingInfo ==
  [paymentId |-> NILL, paymentStatus |-> "pending",
   paymentMethod |-> "cash_on_delivery", status |-> "preparing"]
PaidInfo(paymentID) ==
  [paymentId |-> paymentID, paymentStatus |-> "completed",
   paymentMethod |-> "upi", status |-> "confirmed"]
RejectedInfo(paymentID) ==
  [paymentId |-> paymentID, paymentStatus |-> "failed",
   paymentMethod |-> "upi", status |-> "cancelled"]
\* Fault: the payment status is not touched.
FailedInfo_Pending(method) ==
  [paymentId |-> NILL, paymentStatus |-> "pending",
   paymentMethod |-> method, status |-> "failed"]
FailedInfo(method) ==
  [paymentId |-> NILL, paymentStatus |-> "failed",
   paymentMethod |-> method, status |-> "failed"]

\* Fault: the events are left for after the update.
Dispatch_Later(r, o, write) ==
  /\ Continue(r, [step |-> "update", order |-> o, write |-> write])
  /\ UNCHANGED dispatched

\* handleCart, handleDelivery and the confirmation mail, emitted in one go.
Dispatch(r, o, write) ==
  /\ dispatched' = dispatched \cup {o}
  /\ Continue(r, [step |-> "update", order |-> o, write |-> write])

placeCashOnDelivery(r, o) ==
  /\ request[r] = Idle
  /\ Dispatch(r, o, PreparingInfo)
  /\ UNCHANGED <<payStatus, orders, timestamp, now, faults>>

placeOnline(r, o) ==
  /\ request[r] = Idle
  /\ Continue(r, [step |-> "askPayment", order |-> o])
  /\ UNCHANGED <<payStatus, orders, timestamp, now, dispatched, faults>>

\* The payment service reads the status; the answer travels back.
getPayStatus(r) ==
  /\ request[r].step = "askPayment"
  /\ LET o == request[r].order IN
       Continue(r, [step |-> "answered", order |-> o, answer |-> payStatus[o]])
  /\ UNCHANGED <<payStatus, orders, timestamp, now, dispatched, faults>>

PaymentRefused(r) ==
  /\ request[r].step = "answered"
  /\ request[r].answer.paymentStatus = "Failed"
  /\ Continue(r, [step |-> "update", order |-> request[r].order,
                  write |-> RejectedInfo(request[r].answer.paymentID)])
  /\ UNCHANGED <<payStatus, orders, timestamp, now, dispatched, faults>>

\* Fault: every status that is not a refusal counts as completed.
PaymentCompleted_NotRefused(r) ==
  /\ request[r].step = "answered"
  /\ request[r].answer.paymentStatus \in {"pending", "completed"}
  /\ Dispatch(r, request[r].order, PaidInfo(request[r].answer.paymentID))
  /\ UNCHANGED <<payStatus, orders, timestamp, now, faults>>

PaymentCompleted(r) ==
  /\ request[r].step = "answered"
  /\ request[r].answer.paymentStatus = "completed"
  /\ Dispatch(r, request[r].order, PaidInfo(request[r].answer.paymentID))
  /\ UNCHANGED <<payStatus, orders, timestamp, now, faults>>

\* Any other status: the handler ends without a result.
PaymentOpen(r) ==
  /\ request[r].step = "answered"
  /\ request[r].answer.paymentStatus \in {"pending", "failed"}
  /\ Finish(r, "201 empty")
  /\ UNCHANGED <<payStatus, orders, timestamp, now, dispatched, faults>>

\* The gRPC call failed or found no payment: the catch block runs.
PaymentUnknown(r) ==
  /\ \/ /\ request[r].step = "answered"
        /\ request[r].answer.paymentStatus = "NotFound"
        /\ UNCHANGED faults
     \/ request[r].step = "askPayment" /\ Fault
  /\ Continue(r, [step |-> "fallback", order |-> request[r].order, write |-> FailedInfo("upi")])
  /\ UNCHANGED <<payStatus, orders, timestamp, now, dispatched>>

UpdatePlaced(r) ==
  /\ request[r].step = "update"
  /\ LET o == request[r].order IN
       /\ updateOrder(o, request[r].write)
       /\ IF Exists(o) THEN Finish(r, "201")
          ELSE Continue(r, [step |-> "fallback", order |-> o,
                            write |-> FailedInfo(request[r].write.paymentMethod)])
  /\ UNCHANGED <<payStatus, timestamp, now, dispatched, faults>>

\* The update rejects: the catch block runs.
UpdateFails(r) ==
  /\ request[r].step = "update"
  /\ Fault
  /\ Continue(r, [step |-> "fallback", order |-> request[r].order,
                  write |-> FailedInfo(request[r].write.paymentMethod)])
  /\ UNCHANGED <<payStatus, orders, timestamp, now, dispatched>>

\* The catch block marks the order failed and throws; an order that does not
\* exist makes updateOrder throw its own 404 out of the block.
Fallback(r) ==
  /\ request[r].step = "fallback"
  /\ updateOrder(request[r].order, request[r].write)
  /\ Finish(r, IF Exists(request[r].order) THEN "500" ELSE "404")
  /\ UNCHANGED <<payStatus, timestamp, now, dispatched, faults>>

FallbackFails(r) ==
  /\ request[r].step = "fallback"
  /\ Fault
  /\ Finish(r, "500")
  /\ UNCHANGED <<payStatus, orders, timestamp, now, dispatched>>

----------------------------------------------------------------------------
(* cancelOrder: find the document, compare the clocks, save.  The catch    *)
(* turns every error of it, 404 and 408 included, into a 500.              *)

\* Fault: the age of the order is not compared with the window.
cancelOrder_NoWindow(r, o) ==
  /\ request[r] = Idle
  /\ IF Exists(o)
     THEN Continue(r, [step |-> "save", order |-> o, seen |-> orders[o].status])
     ELSE Finish(r, "500")
  /\ UNCHANGED <<payStatus, orders, timestamp, now, dispatched, faults>>

cancelOrder(r, o) ==
  /\ request[r] = Idle
  /\ IF Exists(o) /\ now - timestamp[o] <= CancelWindow
     THEN Continue(r, [step |-> "save", order |-> o, seen |-> orders[o].status])
     ELSE Finish(r, "500")
  /\ UNCHANGED <<payStatus, orders, timestamp, now, dispatched, faults>>

\* Faults: cancelling resets the payment; cancelling deletes the document.
SaveCancelled_Reset(r) ==
  /\ request[r].step = "save"
  /\ updateOrder(request[r].order, RejectedInfo(NILL))
  /\ Finish(r, "200")
  /\ UNCHANGED <<payStatus, timestamp, now, dispatched, faults>>
SaveCancelled_Delete(r) ==
  /\ request[r].step = "save"
  /\ orders' = [orders EXCEPT ![request[r].order] = NoOrder]
  /\ Finish(r, "200")
  /\ UNCHANGED <<payStatus, timestamp, now, dispatched, faults>>

\* save() sends the paths that were modified since the document was read:
\* the status, or nothing when the order was read as cancelled already.
SaveCancelled(r) ==
  /\ request[r].step = "save"
  /\ LET o == request[r].order IN
     IF request[r].seen = "cancelled" THEN UNCHANGED orders
     ELSE orders' = [orders EXCEPT ![o] = [orders[o] EXCEPT !.status = "cancelled"]]
  /\ Finish(r, "200")
  /\ UNCHANGED <<payStatus, timestamp, now, dispatched, faults>>

SaveFails(r) ==
  /\ request[r].step = "save"
  /\ Fault
  /\ Finish(r, "500")
  /\ UNCHANGED <<payStatus, orders, timestamp, now, dispatched>>

\* The process dies with every request in flight.
Restart ==
  /\ Fault
  /\ request' = [r \in Requests |-> Idle]
  /\ reply' = [r \in Requests |-> "none"]
  /\ UNCHANGED <<payStatus, orders, timestamp, now, dispatched>>

----------------------------------------------------------------------------
placeOrder(r) ==
  \/ \E o \in Orders : placeCashOnDelivery(r, o) \/ placeOnline(r, o)
  \/ getPayStatus(r)
  \/ PaymentRefused(r) \/ PaymentCompleted(r) \/ PaymentOpen(r) \/ PaymentUnknown(r)
  \/ UpdatePlaced(r) \/ UpdateFails(r) \/ Fallback(r) \/ FallbackFails(r)
Cancel(r) == (\E o \in Orders : cancelOrder(r, o)) \/ SaveCancelled(r) \/ SaveFails(r)

Service ==
  \/ \E o \in Orders : createOrder(o)
  \/ \E r \in Requests : placeOrder(r) \/ Cancel(r)
  \/ Restart

Next ==
  \/ Service
  \/ Tick
  \/ \E o \in Orders, a \in Answer : PaymentMoves(o, a)

Spec == Init /\ [][Next]_vars

----------------------------------------------------------------------------
(* Properties *)

\* Placements, their catch blocks and cancellations of one order interleave
\* freely, and yet its four fields always tell one story: a cancellation that
\* lands between two placements replaces the status and nothing else.
Coherent ==
  \A o \in Orders : Exists(o) =>
    LET i == orders[o] IN
    /\ i.status = "preparing" => i.paymentStatus = "pending"
    /\ i.status = "failed" => i.paymentStatus = "failed"
    /\ i.paymentStatus = "pending" => i.paymentMethod = "cash_on_delivery" /\ i.paymentId = NILL
    /\ i.paymentStatus = "completed" => i.paymentMethod = "upi" /\ i.status \in {"confirmed", "cancelled"}
    /\ i.paymentStatus = "failed" => i.status \in {"failed", "cancelled"}

\* An order that says it is being prepared or paid for was handed to the
\* delivery service first, wherever a placement fails or the process dies.
DispatchedFirst ==
  \A o \in Orders : Exists(o) =>
    /\ orders[o].status = "preparing" => o \in dispatched
    /\ orders[o].paymentStatus = "completed" => o \in dispatched

\* What the API documents of a cancellation that replies 200: "Order
\* cancelled successfully", so that the order is cancelled at that moment.
CancelReplyTruthful ==
  [][\A r \in Requests :
       request[r] # Idle /\ request[r].step = "save" /\ reply'[r] = "200"
         => orders'[request[r].order].status = "cancelled"]_vars
=============================================================================

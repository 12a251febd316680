--------------------------- MODULE CheckoutProofs ---------------------------
(***************************************************************************)
(* order-service and payment-service together, for any number of orders,   *)
(* sessions and requests.                                                  *)
(*                                                                         *)
(* The composition is a behaviour of Payment, whose invariants are those   *)
(* of PaymentProofs.  On top of them, what order-service believes of a     *)
(* payment is followed along its way: an answer that says "completed" is   *)
(* of a charged session of the order and none is the refusal that would    *)
(* cancel it (AnswerPaid), the same goes for what a request is about to    *)
(* write (WritePaid), and for what a document says.                        *)
(***************************************************************************)
EXTENDS Checkout, PaymentProofs

PaymentInv == IInv /\ SavedOnce /\ RefundInv

\* The oldest payment of an order has been saved.
FirstSaved == \A o \in Orders : first[o] # NoSession => payment[first[o]] # "absent"

PaidBy(o, s) == s \in Sessions /\ stripe[s].order = o /\ stripe[s].state = "complete"

\* What a request of order-service holds: an answer, a write, or the order it
\* is about to cancel.
AnswerPaid(q) ==
  q.step = "answered" =>
    /\ q.answer.paymentStatus # "Failed"
    /\ q.answer.paymentStatus = "completed" => PaidBy(q.order, q.answer.paymentID)
WritePaid(q) ==
  q.step \in {"update", "fallback"} =>
    /\ q.write.status # "cancelled"
    /\ q.write.paymentStatus = "completed" => PaidBy(q.order, q.write.paymentId)
CancelsExisting(q) == q.step = "save" => q.order \in Documents
Sound(q) == AnswerPaid(q) /\ WritePaid(q) /\ CancelsExisting(q)

RequestsSound == \A r \in Requests : Sound(request[r])

OrderTypes ==
  /\ orders \in [Orders -> O!OrderInfo \cup {NoOrder}]
  /\ timestamp \in [Orders -> 0..MaxTime]
  /\ now \in 0..MaxTime
  /\ dispatched \subseteq Orders
  /\ request \in [Requests -> O!Request \cup {O!Idle}]
  /\ reply \in [Requests -> O!Replies]
  /\ orderFaults \in 0..MaxFaults

OrderInv == OrderTypes /\ RequestsSound /\ CompletedOrderWasPaid

BothInv == PaymentInv /\ FirstSaved /\ billable = Documents /\ OrderInv

----------------------------------------------------------------------------
(* What payment-service answers. *)

\* The oldest payment of an order is of a session of the order, it was saved,
\* and "completed" means that Stripe charged it.
LEMMA AnswerTypes ==
  ASSUME PaymentInv, FirstSaved, NEW o \in Orders
  PROVE  LET a == getPayStatus(o) IN
         /\ a \in O!Answer
         /\ a.paymentStatus # "Failed"
         /\ a.paymentStatus = "completed" => PaidBy(o, a.paymentID)
  <1>1. first[o] \in Sessions \cup {NoSession} /\ (first[o] \in Sessions => payment[first[o]] \in Status)
    BY DEF PaymentInv, IInv, TypeOK
  <1>2. CASE first[o] = NoSession
    BY <1>2 DEF getPayStatus, extractPaymentDetails, O!Answer
  <1>3. CASE first[o] # NoSession
    <2>1. first[o] \in Sessions /\ payment[first[o]] \in Status \ {"absent"}
      BY <1>1, <1>3 DEF FirstSaved
    <2>2. stripe[first[o]].order = o
      BY <1>3 DEF PaymentInv, RefundInv, FirstOfOrder
    <2>3. payment[first[o]] = "completed" => stripe[first[o]].state = "complete"
      BY <2>1 DEF PaymentInv, IInv, StatusJustified
    <2>4. getPayStatus(o) = [paymentStatus |-> payment[first[o]], paymentID |-> first[o]]
      BY <1>3 DEF getPayStatus, extractPaymentDetails
    <2>5. QED
      BY <2>1, <2>2, <2>3, <2>4 DEF Status, O!Answer, PaidBy
  <1>4. QED
    BY <1>2, <1>3

\* So what order-service sees of it is of its type.
LEMMA OrdersTyped == PaymentInv /\ FirstSaved /\ OrderTypes => O!TypeOK
  BY AnswerTypes DEF OrderTypes, O!TypeOK

----------------------------------------------------------------------------
(* What a step of order-service makes of a request. *)

\* The record of a request at one of its awaits.
LEMMA RequestTypes ==
  ASSUME OrderTypes, NEW r \in Requests
  PROVE  /\ request[r].step \in {"askPayment", "answered", "update", "fallback", "save"} =>
              request[r].order \in Orders
         /\ request[r].step = "answered" => request[r].answer \in O!Answer
         /\ request[r].step \in {"update", "fallback"} => request[r].write \in O!OrderInfo
  BY DEF OrderTypes, O!Request, O!Idle

\* The writes of placeOrder: only a paid answer is booked as completed, and
\* only a refusal cancels.
LEMMA InfoTypes ==
  /\ O!PreparingInfo \in O!OrderInfo
  /\ O!PreparingInfo.paymentStatus # "completed" /\ O!PreparingInfo.status # "cancelled"
  /\ \A p \in Sessions \cup {NoSession} :
       /\ O!PaidInfo(p) \in O!OrderInfo
       /\ O!PaidInfo(p).paymentId = p /\ O!PaidInfo(p).status # "cancelled"
  /\ \A m \in O!PaymentMethod :
       /\ O!FailedInfo(m) \in O!OrderInfo
       /\ O!FailedInfo(m).paymentStatus # "completed" /\ O!FailedInfo(m).status # "cancelled"
  BY DEF O!PreparingInfo, O!PaidInfo, O!FailedInfo, O!OrderInfo,
         O!PaymentStatus, O!OrderStatus, O!PaymentMethod

\* A request that goes on or ends holds what is sound.
Moves(r, next) ==
  /\ next \in O!Request \cup {O!Idle}
  /\ Sound(next)
  /\ next.step = "save" => now - timestamp[next.order] <= CancelWindow
  /\ request' = [request EXCEPT ![r] = next]
  /\ \E code \in O!Replies : reply' = [reply EXCEPT ![r] = code]

\* One that ends holds nothing.
LEMMA Finished ==
  ASSUME OrderInv, NEW r \in Requests, NEW code \in O!Replies, O!Finish(r, code)
  PROVE  \E next : Moves(r, next)
  BY DEF O!Finish, Moves, Sound, AnswerPaid, WritePaid, CancelsExisting, O!Idle

\* One that goes on to a sound record.
LEMMA Continued ==
  ASSUME OrderInv, NEW r \in Requests, NEW next \in O!Request, O!Continue(r, next), Sound(next),
         next.step = "save" => now - timestamp[next.order] <= CancelWindow
  PROVE  \E n : Moves(r, n)
  BY DEF O!Continue, Moves, O!Replies

\* A document replaced by what a placement writes, and a cancelled one.
Replaced(o, i) ==
  /\ o \in Documents /\ i \in O!OrderInfo
  /\ i.status # "cancelled"
  /\ i.paymentStatus = "completed" => PaidBy(o, i.paymentId)
  /\ orders' = [orders EXCEPT ![o] = i]
Cancelled(r, o) ==
  /\ o \in Documents
  /\ request[r].step = "save" /\ request[r].order = o
  /\ orders' = [orders EXCEPT ![o] = [orders[o] EXCEPT !.status = "cancelled"]]

\* A step of a request.
RequestStep(r) ==
  /\ \E next : Moves(r, next)
  /\ UNCHANGED <<timestamp, now>>
  /\ dispatched' \subseteq Orders /\ orderFaults' \in 0..MaxFaults
  /\ \/ UNCHANGED orders
     \/ \E o \in Orders, i \in O!OrderInfo : Replaced(o, i)
     \/ \E o \in Orders : Cancelled(r, o)

\* An update of a sound write replaces a document, or finds none.
LEMMA Updated ==
  ASSUME OrderInv, NEW r \in Requests, request[r].step \in {"update", "fallback"},
         O!updateOrder(request[r].order, request[r].write)
  PROVE  IF request[r].order \in Documents
         THEN \E o \in Orders, i \in O!OrderInfo : Replaced(o, i)
         ELSE UNCHANGED orders
  <1> DEFINE o == request[r].order
             i == request[r].write
  <1>1. o \in Orders /\ i \in O!OrderInfo /\ WritePaid(request[r])
    BY RequestTypes DEF OrderInv, RequestsSound, Sound
  <1>2. CASE o \in Documents
    <2>1. orders' = [orders EXCEPT ![o] = i]
      BY <1>2 DEF O!updateOrder, O!Exists, Documents
    <2>2. Replaced(o, i)
      BY <1>1, <1>2, <2>1 DEF Replaced, WritePaid
    <2>3. QED
      BY <1>1, <1>2, <2>2
  <1>3. CASE o \notin Documents
    BY <1>1, <1>3 DEF O!updateOrder, O!Exists, Documents, OrderInv, OrderTypes
  <1>4. QED
    BY <1>2, <1>3

\* A failed call is counted within the bound.
LEMMA FaultTypes == ASSUME OrderInv, O!Fault PROVE orderFaults' \in 0..MaxFaults
  BY MaxFaultsAssumption DEF OrderInv, OrderTypes, O!Fault

\* The steps of a placement up to its decision.
LEMMA Placing ==
  ASSUME PaymentInv, FirstSaved, OrderInv, NEW r \in Requests,
         \/ \E o \in Orders : O!placeCashOnDelivery(r, o) \/ O!placeOnline(r, o)
         \/ O!getPayStatus(r)
  PROVE  RequestStep(r)
  <1>1. dispatched \subseteq Orders /\ orderFaults \in 0..MaxFaults
    BY DEF OrderInv, OrderTypes
  <1>2. ASSUME NEW o \in Orders, O!placeCashOnDelivery(r, o)  PROVE RequestStep(r)
    <2> DEFINE next == [step |-> "update", order |-> o, write |-> O!PreparingInfo]
    <2>1. next \in O!Request /\ Sound(next) /\ next.step # "save"
      BY InfoTypes DEF O!Request, Sound, AnswerPaid, WritePaid, CancelsExisting
    <2>2. O!Continue(r, next)
      BY <1>2 DEF O!placeCashOnDelivery, O!Dispatch
    <2> HIDE DEF next
    <2>3. \E n : Moves(r, n)
      BY <2>1, <2>2, Continued
    <2>4. QED
      BY <1>1, <1>2, <2>3 DEF O!placeCashOnDelivery, O!Dispatch, RequestStep
  <1>3. ASSUME NEW o \in Orders, O!placeOnline(r, o)  PROVE RequestStep(r)
    <2> DEFINE next == [step |-> "askPayment", order |-> o]
    <2>1. next \in O!Request /\ Sound(next) /\ next.step # "save"
      BY DEF O!Request, Sound, AnswerPaid, WritePaid, CancelsExisting
    <2>2. O!Continue(r, next)
      BY <1>3 DEF O!placeOnline
    <2> HIDE DEF next
    <2>3. \E n : Moves(r, n)
      BY <2>1, <2>2, Continued
    <2>4. QED
      BY <1>1, <1>3, <2>3 DEF O!placeOnline, RequestStep
  <1>4. CASE O!getPayStatus(r)
    <2>1. PICK o \in Orders : o = request[r].order
      BY <1>4, RequestTypes DEF OrderInv, O!getPayStatus
    <2>2. PICK a \in O!Answer :
            /\ a = getPayStatus(o)
            /\ a.paymentStatus # "Failed"
            /\ a.paymentStatus = "completed" => PaidBy(o, a.paymentID)
      BY AnswerTypes
    <2> DEFINE next == [step |-> "answered", order |-> o, answer |-> a]
    <2>3. next \in O!Request /\ Sound(next) /\ next.step # "save"
      BY <2>2 DEF O!Request, Sound, AnswerPaid, WritePaid, CancelsExisting
    <2>4. O!Continue(r, next)
      BY <1>4, <2>1, <2>2 DEF O!getPayStatus
    <2> HIDE DEF next
    <2>5. \E n : Moves(r, n)
      BY <2>3, <2>4, Continued
    <2>6. QED
      BY <1>1, <1>4, <2>5 DEF O!getPayStatus, RequestStep
  <1>5. QED
    BY <1>2, <1>3, <1>4

\* The four decisions on the answer: a refusal never comes, and only a paid
\* answer is booked.
LEMMA Deciding ==
  ASSUME OrderInv, NEW r \in Requests,
         \/ O!PaymentRefused(r) \/ O!PaymentCompleted(r)
         \/ O!PaymentOpen(r) \/ O!PaymentUnknown(r)
  PROVE  RequestStep(r)
  <1>1. dispatched \subseteq Orders /\ orderFaults \in 0..MaxFaults /\ AnswerPaid(request[r])
    BY DEF OrderInv, OrderTypes, RequestsSound, Sound
  <1>2. ~O!PaymentRefused(r)
    BY <1>1 DEF O!PaymentRefused, AnswerPaid
  <1>3. CASE O!PaymentCompleted(r)
    <2>1. PICK o \in Orders, p \in Sessions :
            o = request[r].order /\ p = request[r].answer.paymentID /\ PaidBy(o, p)
      BY <1>1, <1>3, RequestTypes DEF OrderInv, O!PaymentCompleted, AnswerPaid, PaidBy
    <2> DEFINE next == [step |-> "update", order |-> o, write |-> O!PaidInfo(p)]
    <2>2. next \in O!Request /\ Sound(next) /\ next.step # "save"
      BY <2>1, InfoTypes DEF O!Request, Sound, AnswerPaid, WritePaid, CancelsExisting
    <2>3. O!Continue(r, next) /\ dispatched' = dispatched \cup {o}
      BY <1>3, <2>1 DEF O!PaymentCompleted, O!Dispatch
    <2> HIDE DEF next
    <2>4. \E n : Moves(r, n)
      BY <2>2, <2>3, Continued
    <2>5. QED
      BY <1>1, <1>3, <2>3, <2>4 DEF O!PaymentCompleted, RequestStep
  <1>4. CASE O!PaymentOpen(r)
    <2>1. \E n : Moves(r, n)
      BY <1>4, Finished DEF O!PaymentOpen, O!Replies
    <2>2. QED
      BY <1>1, <1>4, <2>1 DEF O!PaymentOpen, RequestStep
  <1>5. CASE O!PaymentUnknown(r)
    <2>1. PICK o \in Orders : o = request[r].order
      BY <1>5, RequestTypes DEF OrderInv, O!PaymentUnknown
    <2> DEFINE next == [step |-> "fallback", order |-> o, write |-> O!FailedInfo("upi")]
    <2>2. next \in O!Request /\ Sound(next) /\ next.step # "save"
      BY InfoTypes DEF O!Request, O!PaymentMethod, Sound, AnswerPaid, WritePaid, CancelsExisting
    <2>3. O!Continue(r, next)
      BY <1>5, <2>1 DEF O!PaymentUnknown
    <2> HIDE DEF next
    <2>4. \E n : Moves(r, n)
      BY <2>2, <2>3, Continued
    <2>5. orderFaults' \in 0..MaxFaults
      BY <1>1, <1>5, FaultTypes DEF O!PaymentUnknown
    <2>6. QED
      BY <1>1, <1>5, <2>4, <2>5 DEF O!PaymentUnknown, RequestStep
  <1>6. QED
    BY <1>2, <1>3, <1>4, <1>5

\* A placement's update, its catch block, and what either may fail with.
LEMMA Writing ==
  ASSUME OrderInv, NEW r \in Requests,
         \/ O!UpdatePlaced(r) \/ O!UpdateFails(r) \/ O!Fallback(r) \/ O!FallbackFails(r)
  PROVE  RequestStep(r)
  <1>1. dispatched \subseteq Orders /\ orderFaults \in 0..MaxFaults
    BY DEF OrderInv, OrderTypes
  <1>2. ASSUME request[r].step = "update", NEW o \in Orders, o = request[r].order,
               O!Continue(r, [step |-> "fallback", order |-> o,
                              write |-> O!FailedInfo(request[r].write.paymentMethod)])
        PROVE  \E n : Moves(r, n)
    <2>1. PICK m \in O!PaymentMethod : m = request[r].write.paymentMethod
      BY <1>2, RequestTypes DEF OrderInv, O!OrderInfo
    <2> DEFINE next == [step |-> "fallback", order |-> o, write |-> O!FailedInfo(m)]
    <2>2. next \in O!Request /\ Sound(next) /\ next.step # "save"
      BY InfoTypes DEF O!Request, Sound, AnswerPaid, WritePaid, CancelsExisting
    <2>3. O!Continue(r, next)
      BY <1>2, <2>1
    <2> HIDE DEF next
    <2>4. QED
      BY <2>2, <2>3, Continued
  <1>3. CASE O!UpdatePlaced(r)
    <2>1. request[r].order \in Orders /\ request[r].step = "update"
      BY <1>3, RequestTypes DEF OrderInv, O!UpdatePlaced
    <2>2. \E n : Moves(r, n)
      BY <1>2, <1>3, <2>1, Finished DEF O!UpdatePlaced, O!Replies
    <2>3. \/ UNCHANGED orders
          \/ \E o \in Orders, i \in O!OrderInfo : Replaced(o, i)
      BY <1>3, Updated DEF O!UpdatePlaced
    <2>4. QED
      BY <1>1, <1>3, <2>2, <2>3 DEF O!UpdatePlaced, RequestStep
  <1>4. CASE O!UpdateFails(r)
    <2>1. request[r].order \in Orders /\ request[r].step = "update"
      BY <1>4, RequestTypes DEF OrderInv, O!UpdateFails
    <2>2. \E n : Moves(r, n)
      BY <1>2, <1>4, <2>1 DEF O!UpdateFails
    <2>3. orderFaults' \in 0..MaxFaults
      BY <1>4, FaultTypes DEF O!UpdateFails
    <2>4. QED
      BY <1>1, <1>4, <2>2, <2>3 DEF O!UpdateFails, RequestStep
  <1>5. CASE O!Fallback(r)
    <2>1. \E n : Moves(r, n)
      BY <1>5, Finished DEF O!Fallback, O!Replies
    <2>2. \/ UNCHANGED orders
          \/ \E o \in Orders, i \in O!OrderInfo : Replaced(o, i)
      BY <1>5, Updated DEF O!Fallback
    <2>3. QED
      BY <1>1, <1>5, <2>1, <2>2 DEF O!Fallback, RequestStep
  <1>6. CASE O!FallbackFails(r)
    <2>1. \E n : Moves(r, n)
      BY <1>6, Finished DEF O!FallbackFails, O!Replies
    <2>2. orderFaults' \in 0..MaxFaults
      BY <1>6, FaultTypes DEF O!FallbackFails
    <2>3. QED
      BY <1>1, <1>6, <2>1, <2>2 DEF O!FallbackFails, RequestStep
  <1>7. QED
    BY <1>3, <1>4, <1>5, <1>6

\* A cancellation reads a document inside the window, and saves its status.
LEMMA Cancelling ==
  ASSUME OrderInv, NEW r \in Requests,
         (\E o \in Orders : O!cancelOrder(r, o)) \/ O!SaveCancelled(r) \/ O!SaveFails(r)
  PROVE  RequestStep(r)
  <1>1. dispatched \subseteq Orders /\ orderFaults \in 0..MaxFaults
    BY DEF OrderInv, OrderTypes
  <1>2. ASSUME NEW o \in Orders, O!cancelOrder(r, o)  PROVE RequestStep(r)
    <2>1. CASE O!Exists(o) /\ now - timestamp[o] <= CancelWindow
      <3> DEFINE next == [step |-> "save", order |-> o, seen |-> orders[o].status]
      <3>1. orders[o] \in O!OrderInfo /\ o \in Documents
        BY <2>1 DEF OrderInv, OrderTypes, O!Exists, Documents
      <3>2. next \in O!Request /\ Sound(next) /\ next.order = o
        BY <3>1 DEF O!Request, O!OrderInfo, Sound, AnswerPaid, WritePaid, CancelsExisting
      <3>3. O!Continue(r, next)
        BY <1>2, <2>1 DEF O!cancelOrder
      <3> HIDE DEF next
      <3>4. \E n : Moves(r, n)
        BY <2>1, <3>2, <3>3, Continued
      <3>5. QED
        BY <1>1, <1>2, <3>4 DEF O!cancelOrder, RequestStep
    <2>2. CASE ~(O!Exists(o) /\ now - timestamp[o] <= CancelWindow)
      <3>1. \E n : Moves(r, n)
        BY <1>2, <2>2, Finished DEF O!cancelOrder, O!Replies
      <3>2. QED
        BY <1>1, <1>2, <3>1 DEF O!cancelOrder, RequestStep
    <2>3. QED
      BY <2>1, <2>2
  <1>3. CASE O!SaveCancelled(r)
    <2>1. \E n : Moves(r, n)
      BY <1>3, Finished DEF O!SaveCancelled, O!Replies
    <2>2. request[r].order \in Documents
      BY <1>3 DEF O!SaveCancelled, OrderInv, RequestsSound, Sound, CancelsExisting
    <2>3. UNCHANGED orders \/ \E o \in Orders : Cancelled(r, o)
      BY <1>3, <2>2 DEF O!SaveCancelled, Cancelled, Documents
    <2>4. QED
      BY <1>1, <1>3, <2>1, <2>3 DEF O!SaveCancelled, RequestStep
  <1>4. CASE O!SaveFails(r)
    <2>1. \E n : Moves(r, n)
      BY <1>4, Finished DEF O!SaveFails, O!Replies
    <2>2. orderFaults' \in 0..MaxFaults
      BY <1>4, FaultTypes DEF O!SaveFails
    <2>3. QED
      BY <1>1, <1>4, <2>1, <2>2 DEF O!SaveFails, RequestStep
  <1>5. QED
    BY <1>2, <1>3, <1>4

\* An order is created; the clock ticks; the process dies.
Created(o) ==
  /\ o \notin Documents
  /\ \E i \in O!OrderInfo :
       i.paymentStatus # "completed" /\ i.status # "cancelled" /\ orders' = [orders EXCEPT ![o] = i]
  /\ timestamp' = [timestamp EXCEPT ![o] = now]
  /\ UNCHANGED <<now, request, reply, dispatched, orderFaults>>
Passes ==
  /\ now' \in {now, now + 1} /\ now' \in 0..MaxTime
  /\ UNCHANGED <<orders, timestamp, dispatched>>
  /\ orderFaults' \in 0..MaxFaults
  /\ \/ UNCHANGED <<request, reply>>
     \/ request' = [r \in Requests |-> O!Idle] /\ reply' = [r \in Requests |-> "none"]

\* So every step of order-service is one of these.
LEMMA OrderSteps ==
  ASSUME PaymentInv, FirstSaved, OrderInv, OrderStep
  PROVE  (\E r \in Requests : RequestStep(r)) \/ (\E o \in Orders : Created(o)) \/ Passes
  <1>1. ASSUME NEW o \in Orders, O!createOrder(o)  PROVE Created(o)
    <2> DEFINE i == [paymentId |-> NoSession, paymentMethod |-> "cash_on_delivery",
                     paymentStatus |-> "pending", status |-> "confirmed"]
    <2>1. i \in O!OrderInfo /\ i.paymentStatus # "completed" /\ i.status # "cancelled"
      BY DEF O!OrderInfo, O!PaymentStatus, O!OrderStatus, O!PaymentMethod
    <2>2. orders' = [orders EXCEPT ![o] = i]
      BY <1>1 DEF O!createOrder
    <2> HIDE DEF i
    <2>3. QED
      BY <1>1, <2>1, <2>2 DEF O!createOrder, O!Exists, Documents, Created
  <1>2. CASE O!Tick
    BY <1>2, ClockAssumption DEF O!Tick, Passes, OrderInv, OrderTypes
  <1>3. CASE O!Restart
    BY <1>3, FaultTypes DEF O!Restart, Passes, OrderInv, OrderTypes
  <1>4. QED
    BY <1>1, <1>2, <1>3, Placing, Deciding, Writing, Cancelling
    DEF OrderStep, O!Service, O!placeOrder, O!Cancel

----------------------------------------------------------------------------
(* What such a step keeps. *)

\* A document is written.
LEMMA DocumentWritten ==
  ASSUME OrderTypes, NEW o \in Orders, NEW i \in O!OrderInfo, orders' = [orders EXCEPT ![o] = i]
  PROVE  /\ orders' \in [Orders -> O!OrderInfo \cup {NoOrder}]
         /\ \A x \in Orders : orders'[x] = IF x = o THEN i ELSE orders[x]
         /\ i # NoOrder
         /\ Documents' = Documents \cup {o}
  BY DocumentAssumption DEF OrderTypes, Documents

\* A cancelled document keeps the record of its payment.
LEMMA CancelledInfo ==
  ASSUME NEW i \in O!OrderInfo
  PROVE  LET c == [i EXCEPT !.status = "cancelled"] IN
         /\ c \in O!OrderInfo
         /\ c.status = "cancelled"
         /\ c.paymentStatus = i.paymentStatus /\ c.paymentId = i.paymentId
  BY DEF O!OrderInfo, O!OrderStatus

\* A document that said "completed" named a payment, and the one written does.
LEMMA BookedKept ==
  ASSUME OrderInv, UNCHANGED stripe, NEW o \in Orders, NEW i \in O!OrderInfo,
         orders' = [orders EXCEPT ![o] = i],
         i.paymentStatus = "completed" => PaidBy(o, i.paymentId)
  PROVE  CompletedOrderWasPaid'
  <1>1. \A x \in Orders : orders'[x] = IF x = o THEN i ELSE orders[x]
    BY DocumentWritten DEF OrderInv
  <1>2. QED
    BY <1>1 DEF OrderInv, CompletedOrderWasPaid, PaymentCompleted, PaidBy

\* What a step makes of the documents: it keeps those there are, adds at most
\* one, and what they say is still of their types and paid for.
LEMMA DocumentsKept ==
  ASSUME OrderInv, UNCHANGED stripe,
         \/ UNCHANGED orders
         \/ \E o \in Orders : Created(o)
         \/ \E o \in Orders, i \in O!OrderInfo : Replaced(o, i)
         \/ \E r \in Requests, o \in Orders : Cancelled(r, o)
  PROVE  /\ orders' \in [Orders -> O!OrderInfo \cup {NoOrder}]
         /\ CompletedOrderWasPaid'
         /\ \/ Documents' = Documents
            \/ \E o \in Orders \ Documents : Documents' = Documents \cup {o}
  <1>1. CASE UNCHANGED orders
    BY <1>1 DEF OrderInv, OrderTypes, CompletedOrderWasPaid, PaymentCompleted, Documents
  <1>2. ASSUME NEW o \in Orders, NEW i \in O!OrderInfo, orders' = [orders EXCEPT ![o] = i],
               i.paymentStatus = "completed" => PaidBy(o, i.paymentId)
        PROVE  /\ orders' \in [Orders -> O!OrderInfo \cup {NoOrder}]
               /\ CompletedOrderWasPaid'
               /\ Documents' = Documents \cup {o}
    BY <1>2, DocumentWritten, BookedKept DEF OrderInv
  <1>3. CASE \E o \in Orders : Created(o)
    BY <1>2, <1>3 DEF Created
  <1>4. CASE \E o \in Orders, i \in O!OrderInfo : Replaced(o, i)
    <2>1. PICK o \in Orders, i \in O!OrderInfo : Replaced(o, i)
      BY <1>4
    <2>2. /\ o \in Documents /\ orders' = [orders EXCEPT ![o] = i]
          /\ i.paymentStatus = "completed" => PaidBy(o, i.paymentId)
      BY <2>1 DEF Replaced
    <2>3. Documents \cup {o} = Documents
      BY <2>2
    <2>4. QED
      BY <1>2, <2>2, <2>3
  <1>5. ASSUME NEW r \in Requests, NEW o \in Orders, Cancelled(r, o)
        PROVE  /\ orders' \in [Orders -> O!OrderInfo \cup {NoOrder}]
               /\ CompletedOrderWasPaid'
               /\ Documents' = Documents
    <2>1. orders[o] \in O!OrderInfo /\ o \in Documents
      BY <1>5 DEF Cancelled, Documents, OrderInv, OrderTypes
    <2> DEFINE i == [orders[o] EXCEPT !.status = "cancelled"]
    <2>2. i \in O!OrderInfo /\ i.paymentStatus = orders[o].paymentStatus /\ i.paymentId = orders[o].paymentId
      BY <2>1, CancelledInfo
    <2>3. orders[o].paymentStatus = "completed" => PaidBy(o, orders[o].paymentId)
      BY <2>1 DEF Documents, OrderInv, CompletedOrderWasPaid, PaymentCompleted, PaidBy
    <2>4. orders' = [orders EXCEPT ![o] = i]
      BY <1>5 DEF Cancelled
    <2> HIDE DEF i
    <2>5. Documents \cup {o} = Documents
      BY <2>1
    <2>6. QED
      BY <1>2, <2>1, <2>2, <2>3, <2>4, <2>5
  <1>6. QED
    BY <1>1, <1>3, <1>4, <1>5

\* A sound record stays sound when documents stay and payments are kept.
LEMMA SoundKept ==
  ASSUME NEW q, Sound(q), Documents \subseteq Documents',
         \A o, s : PaidBy(o, s) => PaidBy(o, s)'
  PROVE  Sound(q)'
  BY DEF Sound, AnswerPaid, WritePaid, CancelsExisting

\* So requests stay sound when what a step puts there is.
LEMMA RequestsKept ==
  ASSUME OrderInv, Documents \subseteq Documents', \A o, s : PaidBy(o, s) => PaidBy(o, s)',
         \A r \in Requests : Sound(request'[r])
  PROVE  RequestsSound'
  <1> SUFFICES ASSUME NEW r \in Requests  PROVE Sound(request[r])'
    BY DEF RequestsSound
  <1>1. PICK q : q = request'[r]
    OBVIOUS
  <1>2. Sound(q)
    BY <1>1
  <1>3. Sound(q)'
    BY <1>2, SoundKept
  <1>4. QED
    BY <1>1, <1>3 DEF Sound, AnswerPaid, WritePaid, CancelsExisting

\* Every step of order-service keeps its part of the invariant.
LEMMA OrderKeeps ==
  ASSUME PaymentInv, FirstSaved, OrderInv, OrderStep
  PROVE  /\ OrderInv'
         /\ \/ Documents' = Documents
            \/ \E o \in Orders \ Documents : Documents' = Documents \cup {o}
  <1>1. UNCHANGED stripe /\ \A o, s : PaidBy(o, s) => PaidBy(o, s)'
    BY DEF OrderStep, paymentVars, PaidBy
  <1>2. /\ orders' \in [Orders -> O!OrderInfo \cup {NoOrder}]
        /\ CompletedOrderWasPaid'
        /\ \/ Documents' = Documents
           \/ \E o \in Orders \ Documents : Documents' = Documents \cup {o}
    BY <1>1, OrderSteps, DocumentsKept DEF RequestStep, Passes
  <1>3. Documents \subseteq Documents'
    BY <1>2
  <1>4. Sound(O!Idle) /\ \A r \in Requests : Sound(request[r])
    BY DEF OrderInv, RequestsSound, Sound, AnswerPaid, WritePaid, CancelsExisting, O!Idle
  <1>5. timestamp \in [Orders -> 0..MaxTime] /\ now \in 0..MaxTime /\ dispatched \subseteq Orders
    BY DEF OrderInv, OrderTypes
  <1>6. ASSUME request' \in [Requests -> O!Request \cup {O!Idle}],
               \A r \in Requests : Sound(request'[r])
        PROVE  RequestsSound'
    BY <1>1, <1>3, <1>6, RequestsKept
  <1>7. CASE \E r \in Requests : RequestStep(r)
    <2>1. PICK r \in Requests : RequestStep(r)
      BY <1>7
    <2>2. PICK next \in O!Request \cup {O!Idle}, code \in O!Replies :
            /\ Sound(next)
            /\ request' = [request EXCEPT ![r] = next] /\ reply' = [reply EXCEPT ![r] = code]
      BY <2>1 DEF RequestStep, Moves
    <2>3. /\ request' \in [Requests -> O!Request \cup {O!Idle}]
          /\ reply' \in [Requests -> O!Replies]
          /\ \A x \in Requests : request'[x] = IF x = r THEN next ELSE request[x]
      BY <2>2 DEF OrderInv, OrderTypes
    <2>4. \A x \in Requests : Sound(request'[x])
      BY <1>4, <2>2, <2>3
    <2>5. RequestsSound'
      BY <1>6, <2>3, <2>4
    <2>6. QED
      BY <1>2, <1>5, <2>1, <2>3, <2>5 DEF RequestStep, OrderInv, OrderTypes
  <1>8. ASSUME UNCHANGED <<request, reply>>  PROVE RequestsSound'
    BY <1>4, <1>6, <1>8 DEF OrderInv, OrderTypes
  <1>9. CASE \E o \in Orders : Created(o)
    <2>1. timestamp' \in [Orders -> 0..MaxTime]
      BY <1>5, <1>9 DEF Created
    <2>2. QED
      BY <1>2, <1>8, <1>9, <2>1 DEF Created, OrderInv, OrderTypes
  <1>10. CASE Passes
    <2>1. CASE UNCHANGED <<request, reply>>
      BY <1>2, <1>8, <1>10, <2>1 DEF Passes, OrderInv, OrderTypes
    <2>2. CASE request' = [r \in Requests |-> O!Idle] /\ reply' = [r \in Requests |-> "none"]
      <3>1. RequestsSound'
        BY <1>4, <1>6, <2>2
      <3>2. QED
        BY <1>2, <1>10, <2>2, <3>1 DEF Passes, OrderInv, OrderTypes, O!Replies
    <2>3. QED
      BY <1>10, <2>1, <2>2 DEF Passes
  <1>11. QED
    BY <1>2, <1>7, <1>9, <1>10, OrderSteps

\* What Stripe has charged for an order stays charged for it.
LEMMA PaidKept ==
  ASSUME PaymentInv, [Next]_vars, NEW o, NEW s, PaidBy(o, s)
  PROVE  PaidBy(o, s)'
  BY RecordGrows DEF PaymentInv, IInv, StructureOK, PaidBy, Grows

\* The oldest payment is chosen by the step that saves it.
LEMMA FirstSteps ==
  ASSUME [Next]_vars
  PROVE  \/ UNCHANGED <<first, payment>>
         \/ \E s \in Sessions : SavePayment(s)
         \/ \E d \in Deliveries : UpdatePayment(d) /\ UNCHANGED first
  <1>1. ASSUME NEW s \in Sessions, Customer(s)  PROVE UNCHANGED <<first, payment>>
    BY <1>1 DEF Customer, CardDeclined, CardCharged, SessionExpires, FailedChargeEdited,
       StripeMoves, records
  <1>2. ASSUME NEW s \in Sessions, Checkout(s)
        PROVE  UNCHANGED <<first, payment>> \/ SavePayment(s)
    BY <1>2 DEF Checkout, createCheckoutSession, requestPayment, SaveHistory, CheckoutFails, records
  <1>3. ASSUME NEW d \in Deliveries, Webhook(d)
        PROVE  UNCHANGED <<first, payment>> \/ (UpdatePayment(d) /\ UNCHANGED first)
    BY <1>3 DEF Webhook, HandlerStep, Deliver, LookupDone, LookupEmpty, UpdatePayment,
       saveOrUpdateWebhookEvent, UpdateHistory, HandlerFails, records
  <1>4. ASSUME NEW r \in Refunders, Refund(r)  PROVE UNCHANGED <<first, payment>>
    BY <1>4 DEF Refund, createRefund, StripeRefunds, SaveRefund, RefundFails, records
  <1>5. ASSUME UNCHANGED vars \/ Restart \/ \E o \in Orders : OrderAppears(o)
        PROVE  UNCHANGED <<first, payment>>
    BY <1>5 DEF vars, Restart, OrderAppears, records
  <1>6. QED
    BY <1>1, <1>2, <1>3, <1>4, <1>5 DEF Next, Service

\* So the oldest payment of an order is always a saved one.
LEMMA FirstSavedStep == PaymentInv /\ FirstSaved /\ [Next]_vars => FirstSaved'
  <1> SUFFICES ASSUME PaymentInv, FirstSaved, [Next]_vars, NEW o \in Orders, first'[o] # NoSession
               PROVE  payment'[first'[o]] # "absent"
    BY DEF FirstSaved
  <1>1. TypeOK
    BY DEF PaymentInv, IInv
  <1>2. CASE UNCHANGED <<first, payment>>
    BY <1>2 DEF FirstSaved
  <1>3. ASSUME NEW s \in Sessions, SavePayment(s)  PROVE payment'[first'[o]] # "absent"
    <2>1. first'[o] \in {first[o], s}
      BY <1>1, <1>3 DEF SavePayment, TypeOK
    <2>2. \A x \in Sessions : payment'[x] = IF x = s THEN "pending" ELSE payment[x]
      BY <1>1, <1>3 DEF SavePayment, TypeOK
    <2>3. first'[o] \in Sessions
      BY <1>1, <2>1 DEF TypeOK
    <2>4. QED
      BY <2>1, <2>2, <2>3 DEF FirstSaved
  <1>4. ASSUME NEW d \in Deliveries, UpdatePayment(d), UNCHANGED first
        PROVE  payment'[first'[o]] # "absent"
    <2>1. first[o] \in Sessions /\ payment[first[o]] # "absent"
      BY <1>1, <1>4 DEF TypeOK, FirstSaved
    <2>2. \A e : WrittenStatus(e) # "absent"
      BY DEF WrittenStatus
    <2>3. QED
      BY <1>4, <2>1, <2>2 DEF UpdatePayment, updatePaymentStatus
  <1>5. QED
    BY <1>2, <1>3, <1>4, FirstSteps

\* payment-service's steps leave order-service's part alone.
LEMMA PaymentKeeps ==
  ASSUME PaymentInv, OrderInv, [Next]_vars, UNCHANGED orderVars
  PROVE  OrderInv' /\ Documents' = Documents
  <1>1. \A o, s : PaidBy(o, s) => PaidBy(o, s)'
    BY PaidKept
  <1>2. Documents' = Documents /\ OrderTypes'
    BY DEF orderVars, Documents, OrderInv, OrderTypes
  <1>3. RequestsSound'
    BY <1>1, <1>2, RequestsKept DEF orderVars, OrderInv, RequestsSound
  <1>4. CompletedOrderWasPaid'
    <2> SUFFICES ASSUME NEW o \in Orders, PaymentCompleted(o)'
                 PROVE  PaidBy(o, orders[o].paymentId)'
      BY DEF CompletedOrderWasPaid, PaidBy
    <2>1. PICK s : s = orders[o].paymentId
      OBVIOUS
    <2>2. PaidBy(o, s)
      BY <2>1 DEF orderVars, OrderInv, CompletedOrderWasPaid, PaymentCompleted, PaidBy
    <2>3. PaidBy(o, s)'
      BY <1>1, <2>2
    <2>4. QED
      BY <2>1, <2>3 DEF orderVars, PaidBy
  <1>5. QED
    BY <1>2, <1>3, <1>4 DEF OrderInv

----------------------------------------------------------------------------
(* The composition. *)

\* Both services start within the invariant.
LEMMA InitBoth == CheckoutInit => BothInv
  <1> SUFFICES ASSUME CheckoutInit  PROVE BothInv
    OBVIOUS
  <1>1. PaymentInv
    BY InitIInv DEF CheckoutInit, PaymentInv, Init, SavedOnce, RefundInv, Opened, FirstOfOrder,
       RefundsInFlight, RefundsBacked, Idle
  <1>2. FirstSaved /\ billable = Documents
    BY DEF CheckoutInit, Init, O!Init, FirstSaved, Documents
  <1>3. OrderTypes
    BY MaxFaultsAssumption, ClockAssumption DEF CheckoutInit, O!Init, OrderTypes, O!Replies
  <1>4. RequestsSound /\ CompletedOrderWasPaid
    BY DEF CheckoutInit, O!Init, RequestsSound, Sound, AnswerPaid, WritePaid, CancelsExisting,
       O!Idle, CompletedOrderWasPaid, PaymentCompleted
  <1>5. QED
    BY <1>1, <1>2, <1>3, <1>4 DEF BothInv, OrderInv

\* A step of the composition is one of payment-service's specification: of
\* its own, of its environment, or none.
LEMMA StepsOfPayment == BothInv /\ [CheckoutNext]_checkoutVars => [Next]_vars
  <1> SUFFICES ASSUME BothInv, [CheckoutNext]_checkoutVars  PROVE [Next]_vars
    OBVIOUS
  <1>1. CASE PaymentStep
    BY <1>1 DEF PaymentStep, Next
  <1>2. CASE OrderStep
    <2>1. UNCHANGED paymentVars /\ billable' = Documents' /\ billable = Documents
      BY <1>2 DEF OrderStep, BothInv
    <2>2. CASE Documents' = Documents
      BY <2>1, <2>2 DEF vars, paymentVars, records
    <2>3. ASSUME NEW o \in Orders \ Documents, Documents' = Documents \cup {o}  PROVE [Next]_vars
      BY <2>1, <2>3 DEF Next, OrderAppears, paymentVars, records
    <2>4. QED
      BY <1>2, <2>2, <2>3, OrderKeeps DEF BothInv
  <1>3. CASE UNCHANGED checkoutVars
    BY <1>3 DEF checkoutVars, paymentVars, vars, records
  <1>4. QED
    BY <1>1, <1>2, <1>3 DEF CheckoutNext

\* Every step keeps the invariant.
LEMMA StepBoth == BothInv /\ [CheckoutNext]_checkoutVars => BothInv'
  <1> SUFFICES ASSUME BothInv, [CheckoutNext]_checkoutVars  PROVE BothInv'
    OBVIOUS
  <1>1. [Next]_vars
    BY StepsOfPayment
  <1>2. PaymentInv' /\ FirstSaved'
    BY <1>1, StepIInv, SavedOnceStep, RefundStep, FirstSavedStep DEF BothInv, PaymentInv
  <1>3. CASE OrderStep
    BY <1>2, <1>3, OrderKeeps DEF BothInv, OrderStep
  <1>4. CASE PaymentStep \/ UNCHANGED checkoutVars
    <2>1. UNCHANGED orderVars /\ UNCHANGED billable
      <3>1. CASE UNCHANGED checkoutVars
        BY <3>1 DEF checkoutVars
      <3>2. CASE PaymentStep
        BY <3>2 DEF PaymentStep, Service, Customer, CardDeclined, CardCharged, SessionExpires,
           FailedChargeEdited, StripeMoves, Checkout, createCheckoutSession, requestPayment,
           SavePayment, SaveHistory, CheckoutFails, Webhook, HandlerStep, Deliver, LookupDone,
           LookupEmpty, saveOrUpdateWebhookEvent, UpdatePayment, UpdateHistory, HandlerFails,
           Refund, createRefund, StripeRefunds, SaveRefund, RefundFails, Restart
      <3>3. QED
        BY <1>4, <3>1, <3>2
    <2>2. OrderInv' /\ Documents' = Documents
      BY <1>1, <2>1, PaymentKeeps DEF BothInv
    <2>3. QED
      BY <1>2, <2>1, <2>2 DEF BothInv
  <1>5. QED
    BY <1>3, <1>4 DEF CheckoutNext

LEMMA BothAlways == CheckoutSpec => []BothInv
  BY InitBoth, StepBoth, PTL DEF CheckoutSpec

\* An order is booked as paid only on a charged session of its own, however
\* many requests, webhook deliveries, failed calls and restarts of the two
\* services interleave.
THEOREM CompletedWerePaid == CheckoutSpec => []CompletedOrderWasPaid
  <1>1. BothInv => CompletedOrderWasPaid
    BY DEF BothInv, OrderInv
  <1>2. QED
    BY BothAlways, <1>1, PTL

\* payment-service in the company of order-service is the payment-service of
\* Payment, so what is proved of that one holds here.
THEOREM ImplementsPayment == CheckoutSpec => PaymentSpec
  <1>1. CheckoutInit => Init
    BY DEF CheckoutInit
  <1>2. QED
    BY <1>1, BothAlways, StepsOfPayment, PTL DEF CheckoutSpec, PaymentSpec, Spec

----------------------------------------------------------------------------
(* order-service's environment is the one Orders assumes. *)

\* What is written of one session changes the answer for its order alone.
LEMMA OneAnswer ==
  ASSUME PaymentInv, NEW s \in Sessions, \A z \in Sessions \ {s} : payment'[z] = payment[z],
         NEW x \in Orders, x # stripe[s].order, first'[x] = first[x]
  PROVE  getPayStatus(x)' = getPayStatus(x)
  <1>1. first[x] \in Sessions \cup {NoSession}
    BY DEF PaymentInv, IInv, TypeOK
  <1>2. first[x] # s
    BY IdsDisjoint DEF PaymentInv, RefundInv, FirstOfOrder
  <1>3. QED
    BY <1>1, <1>2 DEF getPayStatus, extractPaymentDetails

\* So each step of payment-service moves one answer at most.
LEMMA AnswersMove ==
  ASSUME PaymentInv, [Next]_vars
  PROVE  \/ \A x \in Orders : getPayStatus(x)' = getPayStatus(x)
         \/ \E o \in Orders : \A x \in Orders \ {o} : getPayStatus(x)' = getPayStatus(x)
  <1> DEFINE Goal == \/ \A x \in Orders : getPayStatus(x)' = getPayStatus(x)
                     \/ \E o \in Orders : \A x \in Orders \ {o} : getPayStatus(x)' = getPayStatus(x)
  <1>1. TypeOK
    BY DEF PaymentInv, IInv
  <1>2. CASE UNCHANGED <<first, payment>>
    BY <1>2 DEF getPayStatus, extractPaymentDetails
  <1>3. ASSUME NEW s \in Sessions, \A z \in Sessions \ {s} : payment'[z] = payment[z],
               \A x \in Orders : x # stripe[s].order => first'[x] = first[x]
        PROVE  Goal
    <2>1. \A x \in Orders : x # stripe[s].order => getPayStatus(x)' = getPayStatus(x)
      BY <1>3, OneAnswer
    <2> HIDE DEF Goal
    <2>2. CASE stripe[s].order \in Orders
      BY <2>1, <2>2 DEF Goal
    <2>3. CASE stripe[s].order \notin Orders
      BY <2>1, <2>3 DEF Goal
    <2>4. QED
      BY <2>2, <2>3
  <1>4. ASSUME NEW s \in Sessions, SavePayment(s)  PROVE Goal
    BY <1>1, <1>3, <1>4 DEF SavePayment, TypeOK
  <1>5. ASSUME NEW d \in Deliveries, UpdatePayment(d), UNCHANGED first  PROVE Goal
    <2>1. PICK k : k = WrittenKey(delivery[d].event)
      OBVIOUS
    <2>2. \A z \in Sessions : z # k => payment'[z] = payment[z]
      BY <1>5, <2>1 DEF UpdatePayment, updatePaymentStatus
    <2>3. CASE k \in Sessions
      BY <1>3, <1>5, <2>2, <2>3
    <2>4. CASE k \notin Sessions
      <3>1. UNCHANGED <<first, payment>>
        BY <1>1, <1>5, <2>1, <2>4 DEF UpdatePayment, updatePaymentStatus, TypeOK
      <3>2. QED
        BY <1>2, <3>1
    <2>5. QED
      BY <2>3, <2>4
  <1> HIDE DEF Goal
  <1>6. QED
    BY <1>2, <1>4, <1>5, FirstSteps DEF Goal

\* What order-service may be answered is of its type in the next state too.
LEMMA NextAnswers == (PaymentInv /\ FirstSaved => \A o \in Orders : getPayStatus(o) \in O!Answer)'
  <1>1. PaymentInv /\ FirstSaved => \A o \in Orders : getPayStatus(o) \in O!Answer
    BY AnswerTypes
  <1>2. QED
    BY <1>1, PTL

\* A step of the composition is one of order-service's specification: of its
\* own, of its environment, or none.
LEMMA StepsOfOrders == BothInv /\ [CheckoutNext]_checkoutVars => [O!Next]_(O!vars)
  <1> SUFFICES ASSUME BothInv, [CheckoutNext]_checkoutVars  PROVE [O!Next]_(O!vars)
    OBVIOUS
  <1>1. CASE OrderStep
    BY <1>1 DEF OrderStep, O!Next
  <1>2. CASE UNCHANGED orderVars
    <2>1. [Next]_vars /\ BothInv'
      BY StepsOfPayment, StepBoth
    <2>2. UNCHANGED <<orders, timestamp, now, dispatched, request, reply, orderFaults>>
      BY <1>2 DEF orderVars
    <2>3. CASE \A x \in Orders : getPayStatus(x)' = getPayStatus(x)
      BY <2>2, <2>3 DEF O!vars
    <2>4. ASSUME NEW o \in Orders, \A x \in Orders \ {o} : getPayStatus(x)' = getPayStatus(x)
          PROVE  O!Next
      <3>1. PICK a \in O!Answer : a = getPayStatus(o)'
        BY <2>1, NextAnswers DEF BothInv
      <3>2. [x \in Orders |-> getPayStatus(x)]' = [[x \in Orders |-> getPayStatus(x)] EXCEPT ![o] = a]
        BY <2>4, <3>1
      <3>3. O!PaymentMoves(o, a)
        BY <2>2, <3>2 DEF O!PaymentMoves
      <3>4. QED
        BY <3>3 DEF O!Next
    <2>5. QED
      BY <2>1, <2>3, <2>4, AnswersMove DEF BothInv
  <1>3. QED
    BY <1>1, <1>2 DEF CheckoutNext, PaymentStep, checkoutVars

\* order-service in the company of payment-service is the order-service of
\* Orders: the answers it gets move one order at a time and are of their type.
THEOREM ImplementsOrders == CheckoutSpec => OrdersSpec
  <1>1. CheckoutInit => O!Init
    BY DEF CheckoutInit
  <1>2. QED
    BY <1>1, BothAlways, StepsOfOrders, PTL DEF CheckoutSpec, OrdersSpec, O!Spec

----------------------------------------------------------------------------
(* What a step may not do to a paid order, or to one that is closed. *)

\* The record of a payment survives the cancellation of its order.
LEMMA RecordKept ==
  ASSUME BothInv, [CheckoutNext]_checkoutVars, NEW o \in Orders,
         PaymentCompleted(o), orders[o].status # "cancelled",
         orders'[o] # NoOrder, orders'[o].status = "cancelled"
  PROVE  orders'[o].paymentStatus = "completed" /\ orders'[o].paymentId = orders[o].paymentId
  <1>1. o \in Documents /\ OrderTypes
    BY DEF PaymentCompleted, Documents, BothInv, OrderInv
  <1>2. orders' # orders
    OBVIOUS
  <1>3. OrderStep
    BY <1>2 DEF CheckoutNext, PaymentStep, checkoutVars, orderVars
  <1>4. ASSUME NEW x \in Orders, NEW i \in O!OrderInfo, i.status # "cancelled",
               orders' = [orders EXCEPT ![x] = i]
        PROVE  FALSE
    BY <1>1, <1>4, DocumentWritten
  <1>5. PICK r \in Requests, x \in Orders : Cancelled(r, x)
    BY <1>2, <1>3, <1>4, OrderSteps DEF BothInv, RequestStep, Replaced, Created, Passes
  <1>6. orders[x] \in O!OrderInfo
    BY <1>1, <1>5 DEF Cancelled, Documents, OrderTypes
  <1>7. orders'[o] = IF x = o THEN [orders[o] EXCEPT !.status = "cancelled"] ELSE orders[o]
    BY <1>1, <1>5 DEF Cancelled, OrderTypes
  <1>8. QED
    BY <1>6, <1>7, CancelledInfo DEF PaymentCompleted

\* An order past its window that nobody is cancelling stays so.
LEMMA ClosedKept ==
  ASSUME BothInv, [CheckoutNext]_checkoutVars, NEW o \in Orders, Closed(o)
  PROVE  Closed(o)'
  <1>1. o \in Documents /\ OrderTypes
    BY DEF Closed, Documents, BothInv, OrderInv
  <1>2. CASE UNCHANGED orderVars
    BY <1>2 DEF orderVars, Closed
  <1>3. ASSUME NEW x \in Orders, NEW i \in O!OrderInfo, i.status # "cancelled",
               orders' = [orders EXCEPT ![x] = i]
        PROVE  orders'[o] # NoOrder /\ orders'[o].status # "cancelled"
    BY <1>1, <1>3, DocumentWritten DEF Closed
  <1>4. ASSUME NEW r \in Requests, RequestStep(r)  PROVE Closed(o)'
    <2>1. ASSUME NEW x \in Orders, Cancelled(r, x)
          PROVE  orders'[o] # NoOrder /\ orders'[o].status # "cancelled"
      BY <1>1, <2>1 DEF Cancelled, Closed, OrderTypes
    <2>2. orders'[o] # NoOrder /\ orders'[o].status # "cancelled"
      <3>1. CASE UNCHANGED orders
        BY <3>1 DEF Closed
      <3>2. QED
        BY <1>3, <1>4, <2>1, <3>1 DEF RequestStep, Replaced
    <2>3. PICK next : /\ next.step = "save" => now - timestamp[next.order] <= CancelWindow
                      /\ request' = [request EXCEPT ![r] = next]
      BY <1>4 DEF RequestStep, Moves
    <2>4. UNCHANGED <<timestamp, now>>
      BY <1>4 DEF RequestStep
    <2>5. now \in Int /\ timestamp[o] \in Int /\ CancelWindow \in Int
      BY <1>1, ClockAssumption DEF OrderTypes
    <2>6. \A x \in Requests : request'[x] = IF x = r THEN next ELSE request[x]
      BY <1>1, <2>3 DEF OrderTypes
    <2>7. next.step = "save" => next.order # o
      BY <2>3, <2>5 DEF Closed
    <2>8. QED
      BY <2>2, <2>4, <2>6, <2>7 DEF Closed
  <1>5. ASSUME NEW x \in Orders, Created(x)  PROVE Closed(o)'
    BY <1>1, <1>3, <1>5 DEF Created, Closed, OrderTypes
  <1>6. CASE Passes
    <2>1. now \in Int /\ timestamp[o] \in Int /\ CancelWindow \in Int
      BY <1>1, ClockAssumption DEF OrderTypes
    <2>2. \A r \in Requests : request'[r] \in {request[r], O!Idle}
      BY <1>6 DEF Passes
    <2>3. QED
      BY <1>6, <2>1, <2>2 DEF Passes, Closed, O!Idle
  <1>7. QED
    BY <1>2, <1>4, <1>5, <1>6, OrderSteps DEF BothInv, CheckoutNext, PaymentStep, checkoutVars

\* A cancellation leaves the payment of a paid order on record.
THEOREM PaidRecordIsKept == CheckoutSpec => PaidRecordKept
  <1>1. BothInv /\ [CheckoutNext]_checkoutVars =>
          [\A o \in Orders :
             /\ PaymentCompleted(o) /\ orders[o].status # "cancelled"
             /\ orders'[o] # NoOrder /\ orders'[o].status = "cancelled"
             => /\ orders'[o].paymentStatus = "completed"
                /\ orders'[o].paymentId = orders[o].paymentId]_checkoutVars
    BY RecordKept
  <1>2. QED
    BY <1>1, BothAlways, PTL DEF CheckoutSpec, PaidRecordKept

\* The window closes for good, for every length of it.
THEOREM WindowCloses == CheckoutSpec => CancelWindowCloses
  <1>1. BothInv /\ [CheckoutNext]_checkoutVars =>
          [\A o \in Orders : Closed(o) => Closed(o)']_checkoutVars
    BY ClosedKept
  <1>2. QED
    BY <1>1, BothAlways, PTL DEF CheckoutSpec, CancelWindowCloses

----------------------------------------------------------------------------
(* The promise of the two services together: no booking without a charge.  *)

Charged == {o \in Orders : \E s \in Sessions : PaidBy(o, s)}
Booked == {o \in Orders : PaymentCompleted(o)}

\* A step of payment-service pays at most one order, and unpays none.
LEMMA ChargedSteps ==
  ASSUME PaymentInv, [Next]_vars
  PROVE  Charged' = Charged \/ \E o \in Orders : Charged' = Charged \cup {o}
  <1>1. \A o, s : PaidBy(o, s) => PaidBy(o, s)'
    BY PaidKept
  <1>2. Charged \subseteq Charged'
    BY <1>1 DEF Charged
  <1>3. CASE UNCHANGED stripe
    BY <1>3 DEF Charged, PaidBy
  <1>4. ASSUME NEW s \in Sessions, NEW new, stripe' = [stripe EXCEPT ![s] = new]
        PROVE  Charged' = Charged \/ \E o \in Orders : Charged' = Charged \cup {o}
    <2>1. \A z \in Sessions : z # s => stripe'[z] = stripe[z]
      BY <1>4 DEF PaymentInv, IInv, TypeOK
    <2>2. \A o, z : z # s /\ PaidBy(o, z)' => PaidBy(o, z)
      BY <2>1 DEF PaidBy
    <2>3. PICK p : p = stripe'[s].order
      OBVIOUS
    <2>4. \A o : PaidBy(o, s)' => o = p
      BY <2>3 DEF PaidBy
    <2>5. Charged' \subseteq Charged \cup {p}
      BY <2>2, <2>4 DEF Charged
    <2>6. Charged' \subseteq Orders
      BY DEF Charged
    <2>7. QED
      BY <1>2, <2>5, <2>6
  <1>5. QED
    BY <1>3, <1>4, StripeChanges DEF PaymentInv, IInv, StructureOK

\* A step of order-service books a charged order, or takes a booking back.
LEMMA BookedSteps ==
  ASSUME BothInv, OrderStep
  PROVE  \/ Booked' = Booked
         \/ \E o \in Charged : Booked' = Booked \cup {o}
         \/ \E o \in Orders : Booked' = Booked \ {o}
  <1>1. OrderTypes
    BY DEF BothInv, OrderInv
  <1>2. CASE UNCHANGED orders
    BY <1>2 DEF Booked, PaymentCompleted
  <1>3. ASSUME NEW o \in Orders, NEW i \in O!OrderInfo, orders' = [orders EXCEPT ![o] = i],
               i.paymentStatus = "completed" => PaidBy(o, i.paymentId)
        PROVE  \/ \E x \in Charged : Booked' = Booked \cup {x}
               \/ \E x \in Orders : Booked' = Booked \ {x}
    <2>1. /\ \A x \in Orders : orders'[x] = IF x = o THEN i ELSE orders[x]
          /\ i # NoOrder
      BY <1>1, <1>3, DocumentWritten
    <2>2. CASE i.paymentStatus = "completed"
      <3>1. o \in Charged
        BY <1>3, <2>2 DEF PaidBy, Charged
      <3>2. Booked' = Booked \cup {o}
        BY <2>1, <2>2 DEF Booked, PaymentCompleted
      <3>3. QED
        BY <3>1, <3>2
    <2>3. CASE i.paymentStatus # "completed"
      <3>1. Booked' = Booked \ {o}
        BY <2>1, <2>3 DEF Booked, PaymentCompleted
      <3>2. QED
        BY <3>1
    <2>4. QED
      BY <2>2, <2>3
  <1>4. ASSUME NEW r \in Requests, NEW o \in Orders, Cancelled(r, o)  PROVE Booked' = Booked
    <2>1. orders[o] \in O!OrderInfo /\ orders[o] # NoOrder
      BY <1>1, <1>4 DEF Cancelled, Documents, OrderTypes
    <2> DEFINE i == [orders[o] EXCEPT !.status = "cancelled"]
    <2>2. i \in O!OrderInfo /\ i.paymentStatus = orders[o].paymentStatus
      BY <2>1, CancelledInfo
    <2>3. orders' = [orders EXCEPT ![o] = i]
      BY <1>4 DEF Cancelled
    <2> HIDE DEF i
    <2>4. /\ \A x \in Orders : orders'[x] = IF x = o THEN i ELSE orders[x]
          /\ i # NoOrder
      BY <1>1, <2>2, <2>3, DocumentWritten
    <2>5. \A x \in Orders : PaymentCompleted(x)' <=> PaymentCompleted(x)
      BY <2>1, <2>2, <2>4 DEF PaymentCompleted
    <2>6. QED
      BY <2>5 DEF Booked
  <1>5. QED
    BY <1>2, <1>3, <1>4, OrderSteps DEF BothInv, RequestStep, Replaced, Created, Passes

\* So a step of the composition is one of the promise's.
LEMMA StepsOfPromise == BothInv /\ [CheckoutNext]_checkoutVars => [Promise!Next]_(Promise!vars)
  <1> SUFFICES ASSUME BothInv, [CheckoutNext]_checkoutVars  PROVE [Promise!Next]_(Promise!vars)
    OBVIOUS
  <1>1. [Next]_vars
    BY StepsOfPayment
  <1>2. /\ Charged = {o \in Orders : \E s \in Sessions : stripe[s].order = o /\ stripe[s].state = "complete"}
        /\ Booked = {o \in Orders : PaymentCompleted(o)}
    BY DEF Charged, PaidBy, Booked
  <1>3. /\ Charged' = {o \in Orders : \E s \in Sessions : stripe[s].order = o /\ stripe[s].state = "complete"}'
        /\ Booked' = {o \in Orders : PaymentCompleted(o)}'
    BY DEF Charged, PaidBy, Booked
  <1>4. CASE OrderStep
    <2>1. Charged' = Charged
      BY <1>4 DEF OrderStep, paymentVars, Charged, PaidBy
    <2>2. CASE Booked' = Booked
      BY <1>2, <1>3, <2>1, <2>2 DEF Promise!vars
    <2>3. ASSUME NEW o \in Charged, Booked' = Booked \cup {o}  PROVE Promise!Next
      <3>1. o \in Orders
        BY DEF Charged
      <3>2. Promise!Book(o)
        BY <1>2, <1>3, <2>1, <2>3 DEF Promise!Book
      <3>3. QED
        BY <3>1, <3>2 DEF Promise!Next
    <2>4. ASSUME NEW o \in Orders, Booked' = Booked \ {o}  PROVE Promise!Next
      BY <1>2, <1>3, <2>1, <2>4 DEF Promise!Unbook, Promise!Next
    <2>5. QED
      BY <1>4, <2>2, <2>3, <2>4, BookedSteps
  <1>5. CASE UNCHANGED orderVars
    <2>1. Booked' = Booked
      BY <1>5 DEF orderVars, Booked, PaymentCompleted
    <2>2. CASE Charged' = Charged
      BY <1>2, <1>3, <2>1, <2>2 DEF Promise!vars
    <2>3. ASSUME NEW o \in Orders, Charged' = Charged \cup {o}  PROVE Promise!Next
      BY <1>2, <1>3, <2>1, <2>3 DEF Promise!Pay, Promise!Next
    <2>4. QED
      BY <1>1, <2>2, <2>3, ChargedSteps DEF BothInv
  <1>6. QED
    BY <1>4, <1>5 DEF CheckoutNext, PaymentStep, checkoutVars

\* The composition implements PaidOrders: it books an order as paid only after
\* its customer was charged.
THEOREM KeepsPromise == CheckoutSpec => PromiseKept
  <1>1. CheckoutInit => Promise!Init
    BY DEF CheckoutInit, Init, O!Init, Promise!Init, PaymentCompleted
  <1>2. QED
    BY <1>1, BothAlways, StepsOfPromise, PTL DEF CheckoutSpec, PromiseKept, Promise!Spec
=============================================================================

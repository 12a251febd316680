---------------------------- MODULE OrdersProofs ----------------------------
(***************************************************************************)
(* Orders, for any number of orders and of requests in flight.             *)
(*                                                                         *)
(* What a document may become is already written in the requests that wait *)
(* for MongoDB, so the inductive invariant says of each of them that what  *)
(* it is about to write tells one story by itself (Story), that what it    *)
(* claims to be dispatched was dispatched (Backed), and that a document a  *)
(* cancellation has read is there.                                         *)
(***************************************************************************)
EXTENDS Orders, TLAPS

\* The four fields of a document agree with each other.
Story(i) ==
  /\ i.status = "preparing" => i.paymentStatus = "pending"
  /\ i.status = "failed" => i.paymentStatus = "failed"
  /\ i.paymentStatus = "pending" => i.paymentMethod = "cash_on_delivery" /\ i.paymentId = NILL
  /\ i.paymentStatus = "completed" => i.paymentMethod = "upi" /\ i.status \in {"confirmed", "cancelled"}
  /\ i.paymentStatus = "failed" => i.status \in {"failed", "cancelled"}

Backed(o, i) ==
  /\ i.status = "preparing" => o \in dispatched
  /\ i.paymentStatus = "completed" => o \in dispatched

Writes == {"update", "fallback"}
WritesSound ==
  \A r \in Requests : request[r].step \in Writes =>
    Story(request[r].write) /\ Backed(request[r].order, request[r].write)
CancelsExisting ==
  \A r \in Requests : request[r].step = "save" => Exists(request[r].order)

IInv == TypeOK /\ WritesSound /\ CancelsExisting /\ Coherent /\ DispatchedFirst

----------------------------------------------------------------------------
(* What the requests write. *)

\* Each of the four writes of placeOrder tells one story.
LEMMA InfosSound ==
  /\ PreparingInfo \in OrderInfo /\ Story(PreparingInfo)
  /\ \A p \in PaymentIds \cup {NILL} :
       /\ PaidInfo(p) \in OrderInfo /\ Story(PaidInfo(p))
       /\ RejectedInfo(p) \in OrderInfo /\ Story(RejectedInfo(p))
       /\ RejectedInfo(p).status = "cancelled" /\ RejectedInfo(p).paymentStatus = "failed"
  /\ \A m \in PaymentMethod :
       /\ FailedInfo(m) \in OrderInfo /\ Story(FailedInfo(m))
       /\ FailedInfo(m).status = "failed" /\ FailedInfo(m).paymentStatus = "failed"
  BY DEF PreparingInfo, PaidInfo, RejectedInfo, FailedInfo, OrderInfo, Story,
         PaymentStatus, OrderStatus, PaymentMethod

\* Cancelling changes the status alone, and the story stays one.
LEMMA CancelSound ==
  ASSUME NEW i \in OrderInfo
  PROVE  LET c == [i EXCEPT !.status = "cancelled"] IN
         /\ c \in OrderInfo
         /\ c.status = "cancelled" /\ c.paymentStatus = i.paymentStatus
         /\ Story(i) => Story(c)
  BY DEF OrderInfo, Story, PaymentStatus, OrderStatus, PaymentMethod

\* A request that waits for an update, and one that waits for a cancellation.
LEMMA RequestTypes ==
  ASSUME TypeOK, NEW r \in Requests
  PROVE  /\ request[r].step \in {"askPayment", "answered", "update", "fallback", "save"} =>
              request[r].order \in Orders
         /\ request[r].step = "answered" => request[r].answer \in Answer
         /\ request[r].step \in Writes => request[r].write \in OrderInfo
  BY DEF TypeOK, Request, Idle, Writes

----------------------------------------------------------------------------
(* One lemma for the documents and one for the requests: what a step makes *)
(* of the one it touches decides whether the invariant is kept.            *)

\* A sound and backed write to one order keeps what is said of the orders.
LEMMA DocumentStep ==
  ASSUME IInv, NEW o \in Orders, NEW i \in OrderInfo, Story(i), Backed(o, i),
         orders' = [orders EXCEPT ![o] = i], UNCHANGED dispatched
  PROVE  /\ orders' \in [Orders -> OrderInfo \cup {NoOrder}]
         /\ Coherent' /\ DispatchedFirst'
         /\ \A x \in Orders : Exists(x) => Exists(x)'
  <1>1. /\ orders \in [Orders -> OrderInfo \cup {NoOrder}]
        /\ orders' \in [Orders -> OrderInfo \cup {NoOrder}]
        /\ \A x \in Orders : orders'[x] = IF x = o THEN i ELSE orders[x]
        /\ i # NoOrder
    BY NoOrderAssumption DEF IInv, TypeOK
  <1>2. Coherent'
    BY <1>1 DEF IInv, Coherent, Exists, Story
  <1>3. DispatchedFirst'
    BY <1>1 DEF IInv, DispatchedFirst, Exists, Backed
  <1>4. QED
    BY <1>1, <1>2, <1>3 DEF Exists

\* Steps that write no order.
LEMMA DocumentsKept ==
  ASSUME IInv, UNCHANGED orders, dispatched \subseteq dispatched'
  PROVE  Coherent' /\ DispatchedFirst' /\ \A x \in Orders : Exists(x) => Exists(x)'
  BY DEF IInv, Coherent, DispatchedFirst, Exists

\* A request that goes on to a sound write keeps what is said of the requests.
LEMMA RequestStep ==
  ASSUME IInv, NEW r \in Requests, NEW next \in Request \cup {Idle},
         request' = [request EXCEPT ![r] = next],
         dispatched \subseteq dispatched',
         \A x \in Orders : Exists(x) => Exists(x)',
         next.step \in Writes => Story(next.write) /\ Backed(next.order, next.write)',
         next.step = "save" => Exists(next.order)'
  PROVE  /\ request' \in [Requests -> Request \cup {Idle}]
         /\ WritesSound' /\ CancelsExisting'
  <1>1. /\ request' \in [Requests -> Request \cup {Idle}]
        /\ \A x \in Requests : request'[x] = IF x = r THEN next ELSE request[x]
    BY DEF IInv, TypeOK
  <1>2. WritesSound'
    BY <1>1 DEF IInv, WritesSound, Backed
  <1>3. CancelsExisting'
    BY <1>1, RequestTypes DEF IInv, CancelsExisting
  <1>4. QED
    BY <1>1, <1>2, <1>3

\* Steps that leave the requests alone and delete no order.
LEMMA RequestsKept ==
  ASSUME IInv, UNCHANGED <<request, dispatched>>,
         \A x \in Orders : Exists(x) => Exists(x)'
  PROVE  WritesSound' /\ CancelsExisting'
  <1>1. WritesSound'
    BY DEF IInv, WritesSound, Backed
  <1>2. CancelsExisting'
    BY RequestTypes DEF IInv, CancelsExisting
  <1>3. QED
    BY <1>1, <1>2

----------------------------------------------------------------------------
(* The steps. *)

\* A reply is one of the codes.
LEMMA ReplyTypes ==
  ASSUME TypeOK, NEW r \in Requests, NEW code \in Replies,
         reply' = [reply EXCEPT ![r] = code]
  PROVE  reply' \in [Requests -> Replies]
  BY DEF TypeOK

\* The count of faults stays within its bound.
LEMMA FaultTypes == ASSUME TypeOK, Fault PROVE faults' \in 0..MaxFaults
  BY TimeAssumption DEF TypeOK, Fault

\* Going on to a next await, with the documents as they are.
LEMMA ContinueStep ==
  ASSUME IInv, NEW r \in Requests, NEW next \in Request, Continue(r, next),
         UNCHANGED <<payStatus, orders, timestamp, now>>,
         dispatched \subseteq dispatched', dispatched' \subseteq Orders,
         faults' \in 0..MaxFaults,
         next.step \in Writes => Story(next.write) /\ Backed(next.order, next.write)',
         next.step = "save" => Exists(next.order)
  PROVE  IInv'
  <1>1. Coherent' /\ DispatchedFirst' /\ \A x \in Orders : Exists(x) => Exists(x)'
    BY DocumentsKept
  <1>2. next.step = "save" => Exists(next.order)'
    BY DEF Exists
  <1>3. request' \in [Requests -> Request \cup {Idle}] /\ WritesSound' /\ CancelsExisting'
    BY <1>1, <1>2, RequestStep DEF Continue
  <1>4. reply' \in [Requests -> Replies]
    BY ReplyTypes DEF IInv, Continue, Replies
  <1>5. QED
    BY <1>1, <1>3, <1>4 DEF IInv, TypeOK

\* Replying, with the documents as they are.
LEMMA FinishStep ==
  ASSUME IInv, NEW r \in Requests, NEW code \in Replies, Finish(r, code),
         UNCHANGED <<payStatus, orders, timestamp, now, dispatched>>,
         faults' \in 0..MaxFaults
  PROVE  IInv'
  <1>1. Coherent' /\ DispatchedFirst' /\ \A x \in Orders : Exists(x) => Exists(x)'
    BY DocumentsKept
  <1>2. request' \in [Requests -> Request \cup {Idle}] /\ WritesSound' /\ CancelsExisting'
    BY <1>1, RequestStep DEF Finish, Idle, Writes
  <1>3. reply' \in [Requests -> Replies]
    BY ReplyTypes DEF IInv, Finish
  <1>4. QED
    BY <1>1, <1>2, <1>3 DEF IInv, TypeOK

\* Replying after a document was written.
LEMMA WriteStep ==
  ASSUME IInv, NEW r \in Requests, NEW code \in Replies, Finish(r, code),
         NEW o \in Orders, NEW i \in OrderInfo, Story(i), Backed(o, i),
         orders' = [orders EXCEPT ![o] = i],
         UNCHANGED <<payStatus, timestamp, now, dispatched, faults>>
  PROVE  IInv'
  <1>1. /\ orders' \in [Orders -> OrderInfo \cup {NoOrder}]
        /\ Coherent' /\ DispatchedFirst' /\ \A x \in Orders : Exists(x) => Exists(x)'
    BY DocumentStep
  <1>2. request' \in [Requests -> Request \cup {Idle}] /\ WritesSound' /\ CancelsExisting'
    BY <1>1, RequestStep DEF Finish, Idle, Writes
  <1>3. reply' \in [Requests -> Replies]
    BY ReplyTypes DEF IInv, Finish
  <1>4. QED
    BY <1>1, <1>2, <1>3 DEF IInv, TypeOK

\* The invariant holds when the service starts.
LEMMA InitIInv == Init => IInv
  BY TimeAssumption
  DEF Init, IInv, TypeOK, Answer, Replies, Idle, WritesSound, Writes, CancelsExisting,
      Coherent, DispatchedFirst, Exists

\* A placement dispatches its order in the step that decides what to write.
LEMMA DispatchStep ==
  ASSUME IInv, NEW r \in Requests, NEW o \in Orders, NEW write \in OrderInfo, Story(write),
         Dispatch(r, o, write), UNCHANGED <<payStatus, orders, timestamp, now, faults>>
  PROVE  IInv'
  <1> DEFINE next == [step |-> "update", order |-> o, write |-> write]
  <1>1. next \in Request /\ next.step = "update" /\ next.write = write /\ next.order = o
    BY DEF Request
  <1>2. /\ Continue(r, next) /\ o \in dispatched'
        /\ dispatched \subseteq dispatched' /\ dispatched' \subseteq Orders
        /\ faults' \in 0..MaxFaults
    BY DEF Dispatch, IInv, TypeOK
  <1>3. Backed(next.order, next.write)'
    BY <1>1, <1>2 DEF Backed
  <1> HIDE DEF next
  <1>4. QED
    BY <1>1, <1>2, <1>3, ContinueStep

\* The two updates of a placement, on a document that is there.
LEMMA UpdateStep ==
  ASSUME IInv, NEW r \in Requests, NEW code \in Replies, request[r].step \in Writes,
         Exists(request[r].order), updateOrder(request[r].order, request[r].write),
         Finish(r, code), UNCHANGED <<payStatus, timestamp, now, dispatched, faults>>
  PROVE  IInv'
  <1>1. request[r].order \in Orders /\ request[r].write \in OrderInfo
    BY RequestTypes DEF IInv, Writes
  <1>2. Story(request[r].write) /\ Backed(request[r].order, request[r].write)
    BY DEF IInv, WritesSound
  <1>3. orders' = [orders EXCEPT ![request[r].order] = request[r].write]
    BY DEF updateOrder
  <1>4. QED
    BY <1>1, <1>2, <1>3, WriteStep

\* Every step keeps the inductive invariant.
LEMMA StepIInv == IInv /\ [Next]_vars => IInv'
  <1> SUFFICES ASSUME IInv, [Next]_vars  PROVE IInv'
    OBVIOUS
  <1>1. TypeOK /\ faults \in 0..MaxFaults /\ dispatched \subseteq Orders
    BY DEF IInv, TypeOK
  <1>2. CASE UNCHANGED vars
    BY <1>2 DEF vars, IInv, TypeOK, WritesSound, Backed, CancelsExisting, Coherent,
       DispatchedFirst, Exists
  <1>3. CASE Tick
    <2>1. now' \in 0..MaxTime
      BY <1>3, TimeAssumption DEF Tick, IInv, TypeOK
    <2>2. Coherent' /\ DispatchedFirst' /\ WritesSound' /\ CancelsExisting'
      BY <1>3, DocumentsKept, RequestsKept DEF Tick
    <2>3. QED
      BY <1>1, <1>3, <2>1, <2>2 DEF Tick, IInv, TypeOK
  <1>4. ASSUME NEW o \in Orders, NEW a \in Answer, PaymentMoves(o, a)  PROVE IInv'
    <2>1. Coherent' /\ DispatchedFirst' /\ WritesSound' /\ CancelsExisting'
      BY <1>4, DocumentsKept, RequestsKept DEF PaymentMoves
    <2>2. QED
      BY <1>1, <1>4, <2>1 DEF PaymentMoves, IInv, TypeOK
  <1>5. ASSUME NEW o \in Orders, createOrder(o)  PROVE IInv'
    <2> DEFINE i == [paymentId |-> NILL, paymentMethod |-> "cash_on_delivery",
                     paymentStatus |-> "pending", status |-> "confirmed"]
    <2>1. i \in OrderInfo /\ Story(i) /\ Backed(o, i)
      BY DEF OrderInfo, Story, Backed, PaymentStatus, OrderStatus, PaymentMethod
    <2>2. orders' = [orders EXCEPT ![o] = i] /\ UNCHANGED <<request, dispatched>>
      BY <1>5 DEF createOrder
    <2> HIDE DEF i
    <2>3. /\ orders' \in [Orders -> OrderInfo \cup {NoOrder}]
          /\ Coherent' /\ DispatchedFirst' /\ \A x \in Orders : Exists(x) => Exists(x)'
      BY <2>1, <2>2, DocumentStep
    <2>4. WritesSound' /\ CancelsExisting'
      BY <2>2, <2>3, RequestsKept
    <2>5. timestamp' \in [Orders -> 0..MaxTime]
      BY <1>1, <1>5 DEF createOrder, TypeOK
    <2>6. QED
      BY <1>1, <1>5, <2>3, <2>4, <2>5 DEF createOrder, IInv, TypeOK
  <1>6. ASSUME NEW r \in Requests, NEW o \in Orders, placeCashOnDelivery(r, o)  PROVE IInv'
    BY <1>6, InfosSound, DispatchStep DEF placeCashOnDelivery
  <1>7. ASSUME NEW r \in Requests, NEW o \in Orders, placeOnline(r, o)  PROVE IInv'
    <2> DEFINE next == [step |-> "askPayment", order |-> o]
    <2>1. next \in Request /\ next.step = "askPayment"
      BY DEF Request
    <2>2. Continue(r, next)
      BY <1>7 DEF placeOnline
    <2> HIDE DEF next
    <2>3. QED
      BY <1>1, <1>7, <2>1, <2>2, ContinueStep DEF placeOnline, Writes
  <1>8. ASSUME NEW r \in Requests, getPayStatus(r)  PROVE IInv'
    <2> DEFINE next == [step |-> "answered", order |-> request[r].order,
                        answer |-> payStatus[request[r].order]]
    <2>1. request[r].order \in Orders
      BY <1>1, <1>8, RequestTypes DEF getPayStatus
    <2>2. next \in Request /\ next.step = "answered"
      BY <1>1, <2>1 DEF TypeOK, Request
    <2>3. Continue(r, next)
      BY <1>8 DEF getPayStatus
    <2> HIDE DEF next
    <2>4. QED
      BY <1>1, <1>8, <2>2, <2>3, ContinueStep DEF getPayStatus, Writes
  <1>9. ASSUME NEW r \in Requests, PaymentRefused(r)  PROVE IInv'
    <2>1. PICK o \in Orders, p \in PaymentIds \cup {NILL} :
            o = request[r].order /\ p = request[r].answer.paymentID
      BY <1>1, <1>9, RequestTypes DEF PaymentRefused, Answer
    <2> DEFINE write == RejectedInfo(p)
               next == [step |-> "update", order |-> o, write |-> write]
    <2>2. /\ write \in OrderInfo /\ Story(write)
          /\ write.status = "cancelled" /\ write.paymentStatus = "failed"
      BY InfosSound
    <2>3. Continue(r, next)
      BY <1>9, <2>1 DEF PaymentRefused
    <2> HIDE DEF write
    <2>4. next \in Request /\ next.step = "update" /\ next.write = write /\ next.order = o
      BY <2>2 DEF Request
    <2>5. Backed(o, write)'
      BY <2>2 DEF Backed
    <2> HIDE DEF next
    <2>6. QED
      BY <1>1, <1>9, <2>2, <2>3, <2>4, <2>5, ContinueStep DEF PaymentRefused
  <1>10. ASSUME NEW r \in Requests, PaymentCompleted(r)  PROVE IInv'
    <2>1. request[r].order \in Orders /\ request[r].answer.paymentID \in PaymentIds \cup {NILL}
      BY <1>1, <1>10, RequestTypes DEF PaymentCompleted, Answer
    <2>2. QED
      BY <1>10, <2>1, InfosSound, DispatchStep DEF PaymentCompleted
  <1>11. ASSUME NEW r \in Requests, PaymentOpen(r)  PROVE IInv'
    BY <1>1, <1>11, FinishStep DEF PaymentOpen, Replies
  <1>12. ASSUME NEW r \in Requests, NEW o \in Orders, NEW m \in PaymentMethod,
                Continue(r, [step |-> "fallback", order |-> o, write |-> FailedInfo(m)]),
                UNCHANGED <<payStatus, orders, timestamp, now, dispatched>>,
                faults' \in 0..MaxFaults
         PROVE  IInv'
    <2> DEFINE write == FailedInfo(m)
               next == [step |-> "fallback", order |-> o, write |-> write]
    <2>1. /\ write \in OrderInfo /\ Story(write)
          /\ write.status = "failed" /\ write.paymentStatus = "failed"
      BY InfosSound
    <2>2. Continue(r, next)
      BY <1>12
    <2> HIDE DEF write
    <2>3. next \in Request /\ next.step = "fallback" /\ next.write = write /\ next.order = o
      BY <2>1 DEF Request
    <2>4. Backed(o, write)'
      BY <2>1 DEF Backed
    <2> HIDE DEF next
    <2>5. QED
      BY <1>1, <1>12, <2>1, <2>2, <2>3, <2>4, ContinueStep
  <1>13. ASSUME NEW r \in Requests, PaymentUnknown(r)  PROVE IInv'
    <2>1. request[r].order \in Orders
      BY <1>1, <1>13, RequestTypes DEF PaymentUnknown
    <2>2. "upi" \in PaymentMethod
      BY DEF PaymentMethod
    <2>3. faults' \in 0..MaxFaults
      BY <1>1, <1>13, FaultTypes DEF PaymentUnknown
    <2>4. QED
      BY <1>12, <1>13, <2>1, <2>2, <2>3 DEF PaymentUnknown
  <1>14. ASSUME NEW r \in Requests, request[r].step = "update"
         PROVE  request[r].order \in Orders /\ request[r].write.paymentMethod \in PaymentMethod
    BY <1>1, <1>14, RequestTypes DEF Writes, OrderInfo
  <1>15. ASSUME NEW r \in Requests, UpdatePlaced(r)  PROVE IInv'
    <2>1. CASE Exists(request[r].order)
      BY <1>15, <2>1, UpdateStep DEF UpdatePlaced, Writes, Replies
    <2>2. CASE ~Exists(request[r].order)
      <3>1. orders' = orders
        BY <1>1, <1>14, <1>15, <2>2 DEF UpdatePlaced, updateOrder, TypeOK
      <3>2. QED
        BY <1>1, <1>12, <1>14, <1>15, <2>2, <3>1 DEF UpdatePlaced
    <2>3. QED
      BY <2>1, <2>2
  <1>16. ASSUME NEW r \in Requests, UpdateFails(r)  PROVE IInv'
    BY <1>1, <1>12, <1>14, <1>16, FaultTypes DEF UpdateFails
  <1>17. ASSUME NEW r \in Requests, Fallback(r)  PROVE IInv'
    <2>1. CASE Exists(request[r].order)
      BY <1>17, <2>1, UpdateStep DEF Fallback, Writes, Replies
    <2>2. CASE ~Exists(request[r].order)
      <3>1. orders' = orders
        BY <1>1, <1>17, <2>2, RequestTypes DEF Fallback, updateOrder, TypeOK
      <3>2. QED
        BY <1>1, <1>17, <2>2, <3>1, FinishStep DEF Fallback, Replies
    <2>3. QED
      BY <2>1, <2>2
  <1>18. ASSUME NEW r \in Requests, FallbackFails(r)  PROVE IInv'
    BY <1>1, <1>18, FinishStep, FaultTypes DEF FallbackFails, Replies
  <1>19. ASSUME NEW r \in Requests, NEW o \in Orders, cancelOrder(r, o)  PROVE IInv'
    <2>1. CASE Exists(o) /\ now - timestamp[o] <= CancelWindow
      <3> DEFINE next == [step |-> "save", order |-> o, seen |-> orders[o].status]
      <3>1. orders[o] \in OrderInfo
        BY <1>1, <2>1 DEF TypeOK, Exists
      <3>2. next \in Request /\ next.step = "save" /\ next.order = o
        BY <3>1 DEF Request, OrderInfo
      <3>3. Continue(r, next)
        BY <1>19, <2>1 DEF cancelOrder
      <3> HIDE DEF next
      <3>4. QED
        BY <1>1, <1>19, <2>1, <3>2, <3>3, ContinueStep DEF cancelOrder, Writes
    <2>2. CASE ~(Exists(o) /\ now - timestamp[o] <= CancelWindow)
      BY <1>1, <1>19, <2>2, FinishStep DEF cancelOrder, Replies
    <2>3. QED
      BY <2>1, <2>2
  <1>20. ASSUME NEW r \in Requests, SaveCancelled(r)  PROVE IInv'
    <2> DEFINE o == request[r].order
               i == [orders[o] EXCEPT !.status = "cancelled"]
    <2>1. o \in Orders /\ Exists(o) /\ orders[o] \in OrderInfo
      BY <1>1, <1>20, RequestTypes DEF SaveCancelled, IInv, CancelsExisting, TypeOK, Exists
    <2>2. i \in OrderInfo /\ Story(i) /\ Backed(o, i)
      <3>1. Story(orders[o]) /\ Backed(o, orders[o])
        BY <2>1 DEF IInv, Coherent, DispatchedFirst, Story, Backed
      <3>2. QED
        BY <2>1, <3>1, CancelSound DEF Backed
    <2>3. CASE request[r].seen = "cancelled"
      BY <1>1, <1>20, <2>3, FinishStep DEF SaveCancelled, Replies
    <2>4. CASE request[r].seen # "cancelled"
      <3>1. orders' = [orders EXCEPT ![o] = i]
        BY <1>20, <2>4 DEF SaveCancelled
      <3> HIDE DEF i
      <3>2. QED
        BY <1>20, <2>1, <2>2, <3>1, WriteStep DEF SaveCancelled, Replies
    <2>5. QED
      BY <2>3, <2>4
  <1>21. ASSUME NEW r \in Requests, SaveFails(r)  PROVE IInv'
    BY <1>1, <1>21, FinishStep, FaultTypes DEF SaveFails, Replies
  <1>22. CASE Restart
    <2>1. UNCHANGED orders /\ UNCHANGED dispatched /\ request' = [r \in Requests |-> Idle]
      BY <1>22 DEF Restart
    <2>2. Coherent' /\ DispatchedFirst'
      BY <2>1, DocumentsKept
    <2>3. WritesSound' /\ CancelsExisting'
      BY <2>1 DEF WritesSound, CancelsExisting, Idle, Writes
    <2>4. QED
      BY <1>1, <1>22, <2>2, <2>3, FaultTypes DEF Restart, IInv, TypeOK, Replies
  <1>23. QED
    BY <1>2, <1>3, <1>4, <1>5, <1>6, <1>7, <1>8, <1>9, <1>10, <1>11, <1>13, <1>15, <1>16,
       <1>17, <1>18, <1>19, <1>20, <1>21, <1>22
    DEF Next, Service, placeOrder, Cancel

----------------------------------------------------------------------------
(* The theorems. *)

\* order-service's documents and requests are always of their types.
THEOREM TypeCorrect == Spec => []TypeOK
  <1>1. IInv => TypeOK
    BY DEF IInv
  <1>2. QED
    BY InitIInv, StepIInv, <1>1, PTL DEF Spec

\* The four fields of an order always tell one story, for any number of
\* requests that place and cancel it at the same time.
THEOREM AlwaysCoherent == Spec => []Coherent
  <1>1. IInv => Coherent
    BY DEF IInv
  <1>2. QED
    BY InitIInv, StepIInv, <1>1, PTL DEF Spec

\* No order is being prepared or paid for that was not handed to delivery.
THEOREM AlwaysDispatchedFirst == Spec => []DispatchedFirst
  <1>1. IInv => DispatchedFirst
    BY DEF IInv
  <1>2. QED
    BY InitIInv, StepIInv, <1>1, PTL DEF Spec

=============================================================================

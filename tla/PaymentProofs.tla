--------------------------- MODULE PaymentProofs ---------------------------
(***************************************************************************)
(* Payment, for any number of orders, sessions, deliveries and faults.     *)
(*                                                                         *)
(* The inductive invariant says of every delivery in flight that it is at  *)
(* an await its handler has (DeliveryOnRoute) and that its event has       *)
(* happened at Stripe (DeliveryOccurred); Stripe's record of a session     *)
(* only grows, so what an event proved when it was emitted it still proves *)
(* when a delayed or repeated delivery of it is handled.  SavedOnce,       *)
(* RefundInv and AckInv are invariants of their own on top of it.          *)
(***************************************************************************)
EXTENDS Payment, TLAPS

Routes(type) == DOMAIN handleWebhookEvent(type)

DeliveryOnRoute ==
  \A d \in Deliveries : delivery[d] # Idle =>
    delivery[d].step \in Routes(delivery[d].event.type) \ {"start"}
DeliveryOccurred ==
  \A d \in Deliveries : delivery[d] # Idle => Occurred(delivery[d].event)

IInv == TypeOK /\ DeliveryOnRoute /\ DeliveryOccurred /\ StatusJustified

----------------------------------------------------------------------------
(* Facts about the handlers' routes. *)

\* A handler starts at an await, and goes from one of its awaits to another
\* or to its end.
LEMMA RouteSteps ==
  ASSUME NEW type \in EventTypes
  PROVE  /\ "start" \in Routes(type)
         /\ handleWebhookEvent(type).start \in Routes(type) \ {"start"}
         /\ Routes(type) \subseteq {"start", "lookup", "payment", "history", "save"}
         /\ \A step \in Routes(type) :
              handleWebhookEvent(type)[step] \in (Routes(type) \ {"start"}) \cup {"done"}
  BY DEF EventTypes, Routes, handleWebhookEvent, handlePaymentIntentCreated,
         handlePaymentIntentSucceeded, handleChargeSucceeded, handleChargeUpdated,
         handleSuccessfulPayment, handleExpiredPayment, handleFailedPayment, handleFailedCharge

\* Only the four handlers of a charge reach the update of the history; the
\* failure handlers are the only others that reach the one of the payment.
LEMMA RouteTypes ==
  ASSUME NEW type \in EventTypes
  PROVE  /\ "history" \in Routes(type) => type \in HistoryTypes
         /\ "payment" \in Routes(type) => type \in HistoryTypes \cup FailureTypes
  BY DEF EventTypes, HistoryTypes, FailureTypes, Routes, handleWebhookEvent,
         handlePaymentIntentCreated, handlePaymentIntentSucceeded, handleChargeSucceeded,
         handleChargeUpdated, handleSuccessfulPayment, handleExpiredPayment,
         handleFailedPayment, handleFailedCharge

\* What an event of a charge proves about the session, in the terms of the
\* status its handler writes.
LEMMA OccurredProves ==
  ASSUME NEW e \in Event, Occurred(e), e.type \in HistoryTypes
  PROVE  /\ WrittenStatus(e) \in {"completed", "failed"}
         /\ WrittenKey(e) = e.session
         /\ WrittenStatus(e) = "completed" => stripe[e.session].state = "complete"
         /\ WrittenStatus(e) = "failed" => stripe[e.session].edited
  BY DEF Event, Occurred, HistoryTypes, FailureTypes, WrittenStatus, WrittenKey

\* A failure handler looks the payment up by the order's id, and finds none.
LEMMA FailureMisses ==
  ASSUME TypeOK, NEW e \in Event, e.type \in FailureTypes
  PROVE  WrittenKey(e) \notin Sessions
  BY IdsDisjoint DEF TypeOK, Session, Event, WrittenKey
----------------------------------------------------------------------------
(* Every step keeps the types, and every delivery at an await it has. *)

StructureOK == TypeOK /\ DeliveryOnRoute

\* Going on from an await, or answering, leaves a well-formed delivery.
LEMMA ProceedOK ==
  ASSUME StructureOK, NEW d \in Deliveries, NEW found \in BOOLEAN,
         delivery[d] # Idle, Proceed(d, found) \/ Event400(d)
  PROVE  /\ delivery' \in [Deliveries -> Delivery \cup {Idle}]
         /\ acked' \subseteq Event
         /\ \A x \in Deliveries : delivery'[x] # Idle =>
              /\ delivery[x] # Idle
              /\ delivery'[x].event = delivery[x].event
              /\ delivery'[x].step \in Routes(delivery'[x].event.type) \ {"start"}
  <1> DEFINE e == delivery[d].event
             next == handleWebhookEvent(e.type)[delivery[d].step]
  <1>1. delivery[d] \in Delivery /\ e \in Event /\ e.type \in EventTypes
    BY DEF StructureOK, TypeOK, Delivery, Event
  <1>2. delivery[d].step \in Routes(e.type) \ {"start"}
    BY DEF StructureOK, DeliveryOnRoute
  <1>3. next \in (Routes(e.type) \ {"start"}) \cup {"done"}
    BY <1>1, <1>2, RouteSteps
  <1>4. CASE Event400(d) \/ Event200(d)
    <2>1. delivery' = [delivery EXCEPT ![d] = Idle] /\ acked' \subseteq acked \cup {e}
      BY <1>4 DEF Event400, Event200
    <2>2. delivery' \in [Deliveries -> Delivery \cup {Idle}] /\ acked' \subseteq Event
      BY <1>1, <2>1 DEF StructureOK, TypeOK
    <2>3. ASSUME NEW x \in Deliveries, delivery'[x] # Idle
          PROVE  delivery[x] # Idle /\ delivery'[x] = delivery[x]
      BY <2>1, <2>3 DEF StructureOK, TypeOK
    <2>4. QED
      BY <2>2, <2>3 DEF StructureOK, DeliveryOnRoute
  <1>5. CASE /\ next # "done"
             /\ delivery' = [delivery EXCEPT ![d] = [step |-> next, event |-> e, found |-> found]]
             /\ UNCHANGED acked
    <2>1. next \in {"lookup", "payment", "history", "save"}
      BY <1>1, <1>3, <1>5, RouteSteps
    <2>2. delivery'[d] = [step |-> next, event |-> e, found |-> found]
      BY <1>1, <1>5 DEF StructureOK, TypeOK
    <2>3. delivery'[d] \in Delivery
      BY <1>1, <2>1, <2>2 DEF Delivery
    <2>4. delivery' \in [Deliveries -> Delivery \cup {Idle}] /\ acked' \subseteq Event
      BY <1>5, <2>2, <2>3 DEF StructureOK, TypeOK
    <2>5. ASSUME NEW x \in Deliveries, x # d
          PROVE  delivery'[x] = delivery[x]
      BY <1>5, <2>5 DEF StructureOK, TypeOK
    <2>6. next \in Routes(e.type) \ {"start"}
      BY <1>3, <1>5
    <2>7. QED
      BY <2>2, <2>4, <2>5, <2>6 DEF StructureOK, DeliveryOnRoute
  <1>6. QED
    BY <1>4, <1>5 DEF Proceed

\* A request of the webhook in flight is a delivery, and not idle.
LEMMA InFlight ==
  ASSUME TypeOK, NEW d \in Deliveries,
         delivery[d] # Idle \/ delivery[d].step \in {"lookup", "payment", "history", "save"}
  PROVE  /\ delivery[d] # Idle /\ delivery[d] \in Delivery
         /\ delivery[d].event \in Event /\ delivery[d].event.type \in EventTypes
         /\ delivery[d].event.session \in Sessions
  BY DEF TypeOK, Delivery, Event, Idle

\* A refund request that is running has a record, of an order and a session.
LEMMA InFlightRefund ==
  ASSUME TypeOK, NEW r \in Refunders,
         refund[r] # Idle \/ refund[r].step \in {"stripe", "save"}
  PROVE  /\ refund[r] # Idle /\ refund[r] \in Refunding
         /\ refund[r].order \in Orders /\ refund[r].session \in Sessions
  BY DEF TypeOK, Refunding, Idle

\* What `new' keeps of Stripe's record `old': that there is a session and its
\* order, its outcome once there is one, a declined attempt, an edited charge.
Grows(old, new) ==
  /\ new \in Session
  /\ new.state = "none" => old.state = "none"
  /\ old.state # "none" => new.order = old.order
  /\ old.state \in {"complete", "expired"} => new.state = old.state
  /\ old.declined => new.declined
  /\ old.edited => new.edited

\* Every update of Stripe's record is of this kind.
LEMMA UpdatesGrow ==
  ASSUME NEW c \in Session
  PROVE  /\ c.state = "open" => Grows(c, [c EXCEPT !.declined = TRUE])
         /\ c.state = "open" => Grows(c, [c EXCEPT !.state = "complete"])
         /\ c.state = "open" => Grows(c, [c EXCEPT !.state = "expired"])
         /\ Grows(c, [c EXCEPT !.edited = TRUE])
         /\ Grows(c, [c EXCEPT !.refunded = TRUE])
         /\ \A o \in Orders :
              c.state = "none" => Grows(c, [c EXCEPT !.state = "open", !.order = o])
  BY DEF Session, Grows

\* The customer and the two calls to Stripe update the record of one session.
LEMMA StripeSteps ==
  ASSUME TypeOK, NEW s \in Sessions,
         \/ Customer(s)
         \/ \E o \in Orders : createCheckoutSession(s, o)
         \/ \E r \in Refunders : StripeRefunds(r) /\ refund[r].session = s
  PROVE  \E new : Grows(stripe[s], new) /\ stripe' = [stripe EXCEPT ![s] = new]
  <1>1. stripe[s] \in Session
    BY DEF TypeOK
  <1>2. CASE Customer(s)
    BY <1>1, <1>2, UpdatesGrow
    DEF Customer, CardDeclined, CardCharged, SessionExpires, FailedChargeEdited, StripeMoves
  <1>3. ASSUME NEW o \in Orders, createCheckoutSession(s, o)
        PROVE  \E new : Grows(stripe[s], new) /\ stripe' = [stripe EXCEPT ![s] = new]
    BY <1>1, <1>3, UpdatesGrow DEF createCheckoutSession
  <1>4. ASSUME NEW r \in Refunders, StripeRefunds(r), refund[r].session = s
        PROVE  \E new : Grows(stripe[s], new) /\ stripe' = [stripe EXCEPT ![s] = new]
    <2>1. CASE stripe[s].state = "complete" /\ ~stripe[s].refunded
      BY <1>1, <1>4, <2>1, UpdatesGrow DEF StripeRefunds
    <2>2. CASE ~(stripe[s].state = "complete" /\ ~stripe[s].refunded)
      <3>1. stripe' = [stripe EXCEPT ![s] = stripe[s]]
        BY <1>4, <2>2 DEF StripeRefunds, TypeOK
      <3>2. Grows(stripe[s], stripe[s])
        BY <1>1 DEF Grows
      <3>3. QED
        BY <3>1, <3>2
    <2>3. QED
      BY <2>1, <2>2
  <1>5. QED
    BY <1>2, <1>3, <1>4

\* A step that neither delivers nor answers leaves the deliveries on route.
LEMMA RouteKept ==
  ASSUME DeliveryOnRoute, UNCHANGED delivery
  PROVE  DeliveryOnRoute'
  BY DEF DeliveryOnRoute

\* Types and routes are kept by every step: a handler stays on its own route.
LEMMA StructureStep ==
  ASSUME StructureOK, [Next]_vars
  PROVE  StructureOK'
  <1> USE MaxFaultsAssumption DEF StructureOK
  <1>1. CASE UNCHANGED vars
    BY <1>1 DEF vars, records, TypeOK, DeliveryOnRoute
  <1>2. ASSUME NEW o \in Orders, OrderAppears(o)  PROVE StructureOK'
    BY <1>2, RouteKept DEF OrderAppears, records, TypeOK
  <1>3. ASSUME NEW s \in Sessions, Customer(s)  PROVE StructureOK'
    <2>1. stripe' \in [Sessions -> Session]
      BY <1>3, StripeSteps DEF TypeOK, Grows
    <2>2. UNCHANGED <<billable, checkout, records, webhook, delivery, acked, refund, refunds, faults>>
      BY <1>3 DEF Customer, CardDeclined, CardCharged, SessionExpires, FailedChargeEdited, StripeMoves
    <2>3. QED
      BY <2>1, <2>2, RouteKept DEF records, TypeOK
  <1>4. ASSUME NEW s \in Sessions, NEW o \in Orders,
               createCheckoutSession(s, o) \/ requestPayment(s, o)
        PROVE  StructureOK'
    <2>1. createCheckoutSession(s, o)
      BY <1>4 DEF requestPayment
    <2>2. stripe' \in [Sessions -> Session]
      BY <2>1, StripeSteps DEF TypeOK, Grows
    <2>3. checkout' \in [Sessions -> {"none", "payment", "history", "done"}]
      BY <2>1 DEF createCheckoutSession, TypeOK
    <2>4. UNCHANGED <<billable, records, webhook, delivery, acked, refund, refunds, faults>>
      BY <2>1 DEF createCheckoutSession
    <2>5. QED
      BY <2>2, <2>3, <2>4, RouteKept DEF records, TypeOK
  <1>5. ASSUME NEW s \in Sessions, SavePayment(s)  PROVE StructureOK'
    BY <1>5, RouteKept DEF SavePayment, TypeOK, Status
  <1>6. ASSUME NEW s \in Sessions, SaveHistory(s)  PROVE StructureOK'
    BY <1>6, RouteKept DEF SaveHistory, TypeOK, Status
  <1>7. ASSUME NEW s \in Sessions, CheckoutFails(s)  PROVE StructureOK'
    BY <1>7, RouteKept DEF CheckoutFails, Fault, records, TypeOK
  <1>8. ASSUME NEW d \in Deliveries, NEW e \in Emitted, Deliver(d, e)  PROVE StructureOK'
    <2>1. e \in Event /\ e.type \in EventTypes
      BY DEF Emitted, Event
    <2>2. handleWebhookEvent(e.type).start \in {"lookup", "payment", "history", "save"}
      BY <2>1, RouteSteps
    <2>3. TypeOK'
      BY <1>8, <2>1, <2>2 DEF Deliver, records, TypeOK, Delivery
    <2>4. DeliveryOnRoute'
      BY <1>8, <2>1, RouteSteps DEF Deliver, TypeOK, DeliveryOnRoute
    <2>5. QED
      BY <2>3, <2>4
  <1>9. ASSUME NEW d \in Deliveries, LookupDone(d)  PROVE StructureOK'
    <2>1. Proceed(d, TRUE) /\ delivery[d] # Idle
      BY <1>9, InFlight DEF LookupDone
    <2>2. QED
      BY <1>9, <2>1, ProceedOK DEF LookupDone, records, TypeOK, DeliveryOnRoute
  <1>10. ASSUME NEW d \in Deliveries, LookupEmpty(d)  PROVE StructureOK'
    <2>1. (Proceed(d, FALSE) \/ Event400(d)) /\ delivery[d] # Idle
      BY <1>10, InFlight DEF LookupEmpty
    <2>2. QED
      <3>1. UNCHANGED <<billable, stripe, checkout, records, webhook, refund, refunds>>
        BY <1>10 DEF LookupEmpty
      <3>2. faults' \in 0..MaxFaults
        BY <1>10 DEF LookupEmpty, Fault, TypeOK
      <3>3. QED
        BY <2>1, <3>1, <3>2, ProceedOK DEF records, TypeOK, DeliveryOnRoute
  <1>11. ASSUME NEW d \in Deliveries, saveOrUpdateWebhookEvent(d)  PROVE StructureOK'
    <2>1. (Proceed(d, TRUE) \/ Event400(d)) /\ delivery[d] # Idle
      BY <1>11, InFlight DEF saveOrUpdateWebhookEvent
    <2>2. delivery[d].event \in Event
      BY <2>1, InFlight
    <2>3. ObjectOf(delivery[d].event) \in Objects
      BY DEF ObjectOf, Objects
    <2>4. webhook' \in [Sessions -> [Objects -> ProcessingStatus]]
      BY <1>11, <2>2, <2>3 DEF saveOrUpdateWebhookEvent, TypeOK, Event, ProcessingStatus
    <2>5. QED
      BY <1>11, <2>1, <2>4, ProceedOK
      DEF saveOrUpdateWebhookEvent, records, TypeOK, DeliveryOnRoute
  <1>12. ASSUME NEW d \in Deliveries, UpdatePayment(d)  PROVE StructureOK'
    <2>1. PICK found \in BOOLEAN : Proceed(d, found)
      BY <1>12 DEF UpdatePayment
    <2>2. delivery[d] # Idle
      BY <1>12, InFlight DEF UpdatePayment
    <2>3. payment' \in [Sessions -> Status]
      BY <1>12 DEF UpdatePayment, updatePaymentStatus, WrittenStatus, TypeOK, Status
    <2>4. QED
      BY <1>12, <2>1, <2>2, <2>3, ProceedOK DEF UpdatePayment, TypeOK, DeliveryOnRoute
  <1>13. ASSUME NEW d \in Deliveries, UpdateHistory(d)  PROVE StructureOK'
    <2>1. (Proceed(d, TRUE) \/ Event400(d)) /\ delivery[d] # Idle
      BY <1>13, InFlight DEF UpdateHistory
    <2>2. history' \in [Sessions -> Status]
      BY <1>13 DEF UpdateHistory, updatePaymentHistory, WrittenStatus, TypeOK, Status
    <2>3. QED
      BY <1>13, <2>1, <2>2, ProceedOK DEF UpdateHistory, TypeOK, DeliveryOnRoute
  <1>14. ASSUME NEW d \in Deliveries, HandlerFails(d)  PROVE StructureOK'
    <2>1. UNCHANGED <<billable, stripe, checkout, records, webhook, refund, refunds>>
      BY <1>14 DEF HandlerFails
    <2>2. faults' \in 0..MaxFaults
      BY <1>14 DEF HandlerFails, Fault, TypeOK
    <2>3. Event400(d) /\ delivery[d] # Idle
      BY <1>14 DEF HandlerFails
    <2>4. QED
      BY <2>1, <2>2, <2>3, ProceedOK DEF records, TypeOK, DeliveryOnRoute
  <1>15. ASSUME NEW r \in Refunders, NEW o \in Orders, createRefund(r, o)  PROVE StructureOK'
    BY <1>15, RouteKept DEF createRefund, extractPaymentDetails, records, TypeOK, Refunding
  <1>16. ASSUME NEW r \in Refunders, StripeRefunds(r)  PROVE StructureOK'
    <2>1. refund[r] \in Refunding /\ refund[r].session \in Sessions
      BY <1>16, InFlightRefund DEF StripeRefunds
    <2>2. stripe' \in [Sessions -> Session]
      BY <1>16, <2>1, StripeSteps DEF TypeOK, Grows
    <2>3. refund' \in [Refunders -> Refunding \cup {Idle}]
      <3>1. [refund[r] EXCEPT !.step = "save"] \in Refunding
        BY <2>1 DEF Refunding
      <3>2. \/ refund' = [refund EXCEPT ![r] = [refund[r] EXCEPT !.step = "save"]]
            \/ refund' = [refund EXCEPT ![r] = Idle]
        BY <1>16 DEF StripeRefunds
      <3>3. QED
        BY <3>1, <3>2 DEF TypeOK
    <2>4. QED
      BY <1>16, <2>2, <2>3, RouteKept DEF StripeRefunds, records, TypeOK
  <1>17. ASSUME NEW r \in Refunders, SaveRefund(r)  PROVE StructureOK'
    BY <1>17, InFlightRefund, RouteKept DEF SaveRefund, records, TypeOK
  <1>18. ASSUME NEW r \in Refunders, RefundFails(r)  PROVE StructureOK'
    BY <1>18, RouteKept DEF RefundFails, Fault, records, TypeOK
  <1>19. CASE Restart
    BY <1>19 DEF Restart, Fault, records, TypeOK, DeliveryOnRoute
  <1>20. QED
    BY <1>1, <1>2, <1>3, <1>4, <1>5, <1>6, <1>7, <1>8, <1>9, <1>10, <1>11, <1>12, <1>13,
       <1>14, <1>15, <1>16, <1>17, <1>18, <1>19
    DEF Next, Service, Checkout, Webhook, HandlerStep, Refund

----------------------------------------------------------------------------
(* What Stripe's record has shown it goes on showing. *)

\* A step updates Stripe's record of one session at most.
LEMMA StripeChanges ==
  ASSUME StructureOK, [Next]_vars
  PROVE  \/ UNCHANGED stripe
         \/ \E s \in Sessions : \E new :
              Grows(stripe[s], new) /\ stripe' = [stripe EXCEPT ![s] = new]
  <1> DEFINE Goal == \/ UNCHANGED stripe
                     \/ \E s \in Sessions : \E new :
                          Grows(stripe[s], new) /\ stripe' = [stripe EXCEPT ![s] = new]
  <1>1. TypeOK
    BY DEF StructureOK
  <1>2. CASE UNCHANGED stripe
    BY <1>2
  <1>3. CASE \E z \in Sessions : Customer(z)
    BY <1>1, <1>3, StripeSteps
  <1>4. CASE \E z \in Sessions, o \in Orders : createCheckoutSession(z, o)
    BY <1>1, <1>4, StripeSteps
  <1>5. CASE \E r \in Refunders : StripeRefunds(r)
    BY <1>1, <1>5, StripeSteps, InFlightRefund DEF StripeRefunds
  <1> HIDE DEF Goal
  <1>6. QED
    BY <1>2, <1>3, <1>4, <1>5
    DEF Next, Service, Checkout, Webhook, HandlerStep, Refund, vars, OrderAppears, requestPayment,
        SavePayment, SaveHistory, CheckoutFails, Deliver, LookupDone, LookupEmpty,
        saveOrUpdateWebhookEvent, UpdatePayment, UpdateHistory, HandlerFails, createRefund,
        SaveRefund, RefundFails, Restart, Goal

\* No step takes back what Stripe has recorded of a session.
LEMMA RecordGrows ==
  ASSUME StructureOK, [Next]_vars, NEW s \in Sessions
  PROVE  Grows(stripe[s], stripe'[s])
  <1>1. stripe \in [Sessions -> Session] /\ Grows(stripe[s], stripe[s])
    BY DEF StructureOK, TypeOK, Grows
  <1>2. CASE UNCHANGED stripe
    BY <1>1, <1>2
  <1>3. ASSUME NEW z \in Sessions, NEW new,
               Grows(stripe[z], new), stripe' = [stripe EXCEPT ![z] = new]
        PROVE  Grows(stripe[s], stripe'[s])
    BY <1>1, <1>3
  <1>4. QED
    BY <1>2, <1>3, StripeChanges

\* So what has occurred at Stripe stays so.
LEMMA OccurredKept ==
  ASSUME StructureOK, [Next]_vars, NEW e \in Event, Occurred(e)
  PROVE  Occurred(e)'
  <1>1. e.session \in Sessions /\ stripe[e.session] \in Session
    BY DEF Event, StructureOK, TypeOK
  <1>2. Grows(stripe[e.session], stripe'[e.session])
    BY <1>1, RecordGrows
  <1>3. QED
    BY <1>1, <1>2 DEF Grows, Occurred

\* The event of a delivery is the one it was delivered with.
LEMMA EventKept ==
  ASSUME StructureOK, [Next]_vars, NEW x \in Deliveries, delivery'[x] # Idle
  PROVE  \/ delivery[x] # Idle /\ delivery'[x].event = delivery[x].event
         \/ delivery'[x].event \in Emitted
  <1> DEFINE Goal == \/ delivery[x] # Idle /\ delivery'[x].event = delivery[x].event
                     \/ delivery'[x].event \in Emitted
  <1>1. TypeOK
    BY DEF StructureOK
  <1>2. CASE UNCHANGED delivery
    BY <1>2
  <1>3. ASSUME NEW d \in Deliveries, NEW e \in Emitted, Deliver(d, e)  PROVE Goal
    BY <1>1, <1>3 DEF Deliver, TypeOK
  <1>4. ASSUME NEW d \in Deliveries, NEW found \in BOOLEAN, delivery[d] # Idle,
               Proceed(d, found) \/ Event400(d)
        PROVE  Goal
    BY <1>4, ProceedOK
  <1>5. ASSUME NEW d \in Deliveries, HandlerStep(d) \/ LookupEmpty(d) \/ HandlerFails(d)
        PROVE  Goal
    <2>1. delivery[d] # Idle
      BY <1>1, <1>5, InFlight DEF HandlerStep, LookupDone, LookupEmpty,
         saveOrUpdateWebhookEvent, UpdatePayment, UpdateHistory, HandlerFails
    <2>2. \E found \in BOOLEAN : Proceed(d, found) \/ Event400(d)
      BY <1>5 DEF HandlerStep, LookupDone, LookupEmpty, saveOrUpdateWebhookEvent,
         UpdatePayment, UpdateHistory, HandlerFails
    <2>3. QED
      BY <1>4, <2>1, <2>2
  <1>6. CASE Restart
    BY <1>6 DEF Restart
  <1> HIDE DEF Goal
  <1>7. QED
    BY <1>2, <1>3, <1>5, <1>6
    DEF Next, Service, Checkout, Customer, CardDeclined, CardCharged, SessionExpires,
        FailedChargeEdited, StripeMoves, Webhook, Refund, vars, OrderAppears,
        createCheckoutSession, requestPayment, SavePayment, SaveHistory, CheckoutFails,
        createRefund, StripeRefunds, SaveRefund, RefundFails, Goal

\* The two records are written by two saves and by two updates of the webhook.
LEMMA RecordSteps ==
  ASSUME [Next]_vars
  PROVE  \/ UNCHANGED <<payment, history>>
         \/ \E z \in Sessions : SavePayment(z) \/ SaveHistory(z)
         \/ \E d \in Deliveries : UpdatePayment(d) \/ UpdateHistory(d)
  <1>1. ASSUME NEW z \in Sessions, Customer(z)  PROVE UNCHANGED <<payment, history>>
    BY <1>1 DEF Customer, CardDeclined, CardCharged, SessionExpires, FailedChargeEdited,
       StripeMoves, records
  <1>2. ASSUME NEW z \in Sessions, Checkout(z)
        PROVE  UNCHANGED <<payment, history>> \/ SavePayment(z) \/ SaveHistory(z)
    BY <1>2 DEF Checkout, createCheckoutSession, requestPayment, CheckoutFails, records
  <1>3. ASSUME NEW d \in Deliveries, Webhook(d)
        PROVE  UNCHANGED <<payment, history>> \/ UpdatePayment(d) \/ UpdateHistory(d)
    BY <1>3 DEF Webhook, HandlerStep, Deliver, LookupDone, LookupEmpty,
       saveOrUpdateWebhookEvent, HandlerFails, records
  <1>4. ASSUME NEW r \in Refunders, Refund(r)  PROVE UNCHANGED <<payment, history>>
    BY <1>4 DEF Refund, createRefund, StripeRefunds, SaveRefund, RefundFails, records
  <1>5. ASSUME UNCHANGED vars \/ Restart \/ \E o \in Orders : OrderAppears(o)
         PROVE  UNCHANGED <<payment, history>>
    BY <1>5 DEF vars, Restart, OrderAppears, records
  <1>6. QED
    BY <1>1, <1>2, <1>3, <1>4, <1>5 DEF Next, Service

\* A record is written by the requests that save it, as pending, and by a
\* webhook delivery, whose event then belongs to a charge.
LEMMA RecordsWritten ==
  ASSUME StructureOK, [Next]_vars, NEW s \in Sessions
  PROVE  \A status \in {payment'[s], history'[s]} :
           \/ status \in {payment[s], history[s], "pending"}
           \/ \E d \in Deliveries :
                /\ delivery[d] # Idle
                /\ delivery[d].event.type \in HistoryTypes
                /\ delivery[d].event.session = s
                /\ status = WrittenStatus(delivery[d].event)
  <1> DEFINE Goal == \A status \in {payment'[s], history'[s]} :
           \/ status \in {payment[s], history[s], "pending"}
           \/ \E d \in Deliveries :
                /\ delivery[d] # Idle
                /\ delivery[d].event.type \in HistoryTypes
                /\ delivery[d].event.session = s
                /\ status = WrittenStatus(delivery[d].event)
  <1>1. TypeOK
    BY DEF StructureOK
  <1>2. CASE UNCHANGED <<payment, history>>
    BY <1>2
  <1>3. ASSUME NEW z \in Sessions, SavePayment(z) \/ SaveHistory(z)  PROVE Goal
    BY <1>1, <1>3 DEF SavePayment, SaveHistory, TypeOK
  <1>4. ASSUME NEW d \in Deliveries, UpdatePayment(d)  PROVE Goal
    <2> DEFINE e == delivery[d].event
    <2>1. e \in Event /\ e.type \in EventTypes /\ delivery[d] # Idle
      BY <1>1, <1>4, InFlight DEF UpdatePayment
    <2>2. e.type \in HistoryTypes \cup FailureTypes
      <3>1. delivery[d].step = "payment"
        BY <1>4 DEF UpdatePayment
      <3>2. "payment" \in Routes(e.type)
        BY <2>1, <3>1 DEF StructureOK, DeliveryOnRoute
      <3>3. QED
        BY <2>1, <3>2, RouteTypes
    <2>3. CASE e.type \in FailureTypes
      <3>1. payment'[s] = payment[s] /\ history' = history
        BY <1>1, <1>4, <2>1, <2>3, FailureMisses DEF UpdatePayment, updatePaymentStatus
      <3>2. QED
        BY <3>1
    <2>4. CASE e.type \in HistoryTypes
      <3>1. WrittenKey(e) = e.session
        BY <2>4 DEF WrittenKey, HistoryTypes, FailureTypes
      <3>2. /\ history' = history
            /\ payment'[s] = payment[s] \/ (s = e.session /\ payment'[s] = WrittenStatus(e))
        BY <1>4, <3>1 DEF UpdatePayment, updatePaymentStatus
      <3>3. QED
        BY <2>1, <2>4, <3>2
    <2>5. QED
      BY <2>2, <2>3, <2>4
  <1>5. ASSUME NEW d \in Deliveries, UpdateHistory(d)  PROVE Goal
    <2> DEFINE e == delivery[d].event
    <2>1. e \in Event /\ e.type \in EventTypes /\ delivery[d] # Idle
      BY <1>1, <1>5, InFlight DEF UpdateHistory
    <2>2. e.type \in HistoryTypes
      <3>1. delivery[d].step = "history"
        BY <1>5 DEF UpdateHistory
      <3>2. "history" \in Routes(e.type)
        BY <2>1, <3>1 DEF StructureOK, DeliveryOnRoute
      <3>3. QED
        BY <2>1, <3>2, RouteTypes
    <2>3. /\ payment' = payment
          /\ history'[s] = history[s] \/ (s = e.session /\ history'[s] = WrittenStatus(e))
      BY <1>5 DEF UpdateHistory, updatePaymentHistory
    <2>4. QED
      BY <2>1, <2>2, <2>3
  <1>6. QED
    BY <1>2, <1>3, <1>4, <1>5, RecordSteps

----------------------------------------------------------------------------
(* The theorems. *)

\* The invariant holds when the service starts.
LEMMA InitIInv == Init => IInv
  BY MaxFaultsAssumption
  DEF Init, IInv, TypeOK, Session, Status, ProcessingStatus, Objects, DeliveryOnRoute,
      DeliveryOccurred, StatusJustified

\* Every step keeps the inductive invariant.
LEMMA StepIInv == IInv /\ [Next]_vars => IInv'
  <1> SUFFICES ASSUME IInv, [Next]_vars  PROVE IInv'
    OBVIOUS
  <1>1. StructureOK /\ StructureOK'
    BY StructureStep DEF IInv, StructureOK
  <1>2. DeliveryOccurred'
    <2> SUFFICES ASSUME NEW d \in Deliveries, (delivery[d] # Idle)'
                 PROVE  Occurred(delivery[d].event)'
      BY DEF DeliveryOccurred
    <2>1. PICK e \in Event : e = delivery'[d].event
      BY <1>1, InFlight DEF StructureOK, TypeOK, Delivery, Idle
    <2>2. Occurred(e)
      BY <1>1, <2>1, EventKept DEF IInv, DeliveryOccurred, Emitted
    <2>3. Occurred(e)'
      BY <1>1, <2>2, OccurredKept
    <2>4. QED
      BY <2>1, <2>3 DEF Occurred
  <1>3. StatusJustified'
    <2> SUFFICES ASSUME NEW s \in Sessions, NEW status \in {payment'[s], history'[s]}
                 PROVE  /\ status = "completed" => stripe'[s].state = "complete"
                        /\ status = "failed" => stripe'[s].edited
      BY DEF StatusJustified
    <2>1. Grows(stripe[s], stripe'[s])
      BY <1>1, RecordGrows
    <2>2. CASE status \in {payment[s], history[s], "pending"}
      <3>1. /\ status = "completed" => stripe[s].state = "complete"
            /\ status = "failed" => stripe[s].edited
        BY <2>2 DEF IInv, StatusJustified
      <3>2. QED
        BY <2>1, <3>1 DEF Grows
    <2>3. ASSUME NEW d \in Deliveries, delivery[d] # Idle,
                 delivery[d].event.type \in HistoryTypes, delivery[d].event.session = s,
                 status = WrittenStatus(delivery[d].event)
          PROVE  /\ status = "completed" => stripe'[s].state = "complete"
                 /\ status = "failed" => stripe'[s].edited
      <3>1. delivery[d].event \in Event /\ Occurred(delivery[d].event)
        BY <2>3, InFlight DEF IInv, DeliveryOccurred
      <3>2. /\ status = "completed" => stripe[s].state = "complete"
            /\ status = "failed" => stripe[s].edited
        BY <2>3, <3>1, OccurredProves
      <3>3. QED
        BY <2>1, <3>2 DEF Grows
    <2>4. QED
      BY <1>1, <2>2, <2>3, RecordsWritten
  <1>4. QED
    BY <1>1, <1>2, <1>3 DEF IInv, StructureOK

\* payment-service's state is always of its type.
THEOREM TypeCorrect == Spec => []TypeOK
  <1>1. Init => IInv
    BY InitIInv
  <1>2. IInv /\ [Next]_vars => IInv'
    BY StepIInv
  <1>3. IInv => TypeOK
    BY DEF IInv
  <1>4. QED
    BY <1>1, <1>2, <1>3, PTL DEF Spec

\* Neither record of a session ever claims an outcome its Stripe session did
\* not have, for any number of sessions and of deliveries in flight, in any
\* order, repeated, delayed or cut short by a restart.
THEOREM StatusIsJustified == Spec => []StatusJustified
  <1>1. Init => IInv
    BY InitIInv
  <1>2. IInv /\ [Next]_vars => IInv'
    BY StepIInv
  <1>3. IInv => StatusJustified
    BY DEF IInv
  <1>4. QED
    BY <1>1, <1>2, <1>3, PTL DEF Spec

----------------------------------------------------------------------------
(* A payment is saved once, so no save can undo what the webhook wrote. *)

\* What is known of a session whose payment has not been saved yet.
SavedOnce ==
  \A s \in Sessions :
    /\ stripe[s].state = "none" => checkout[s] = "none"
    /\ checkout[s] \in {"none", "payment"} => payment[s] = "absent"

\* A payment is absent until the request that opened its session saves it.
LEMMA SavedOnceStep == IInv /\ SavedOnce /\ [Next]_vars => SavedOnce'
  <1> SUFFICES ASSUME IInv, SavedOnce, [Next]_vars, NEW s \in Sessions
               PROVE  /\ stripe'[s].state = "none" => checkout'[s] = "none"
                      /\ checkout'[s] \in {"none", "payment"} => payment'[s] = "absent"
    BY DEF SavedOnce
  <1> DEFINE Goal == /\ stripe'[s].state = "none" => checkout'[s] = "none"
                     /\ checkout'[s] \in {"none", "payment"} => payment'[s] = "absent"
  <1>1. TypeOK /\ StructureOK
    BY DEF IInv, StructureOK
  <1>2. /\ stripe[s].state = "none" => checkout[s] = "none"
        /\ checkout[s] \in {"none", "payment"} => payment[s] = "absent"
    BY DEF SavedOnce
  <1>3. stripe'[s].state = "none" => stripe[s].state = "none"
    BY <1>1, RecordGrows DEF Grows
  <1>4. CASE UNCHANGED <<checkout, payment>>
    BY <1>2, <1>3, <1>4
  <1>5. ASSUME NEW z \in Sessions, NEW o \in Orders, createCheckoutSession(z, o)  PROVE Goal
    <2>1. PICK new : stripe' = [stripe EXCEPT ![z] = new] /\ new.state = "open"
      <3>1. stripe[z] \in Session
        BY <1>1 DEF TypeOK
      <3>2. [stripe[z] EXCEPT !.state = "open", !.order = o].state = "open"
        BY <3>1 DEF Session
      <3>3. QED
        BY <1>5, <3>2 DEF createCheckoutSession
    <2>2. /\ stripe[z].state = "none"
          /\ checkout' = [checkout EXCEPT ![z] = "payment"]
          /\ payment' = payment
      BY <1>5 DEF createCheckoutSession, records
    <2>3. QED
      BY <1>1, <1>2, <1>3, <2>1, <2>2 DEF TypeOK
  <1>6. ASSUME NEW z \in Sessions, SavePayment(z)  PROVE Goal
    BY <1>1, <1>2, <1>3, <1>6 DEF SavePayment, TypeOK
  <1>7. ASSUME NEW z \in Sessions, SaveHistory(z) \/ CheckoutFails(z)  PROVE Goal
    BY <1>1, <1>2, <1>3, <1>7 DEF SaveHistory, CheckoutFails, records, TypeOK
  <1>8. ASSUME NEW d \in Deliveries, UpdatePayment(d)  PROVE Goal
    <2>1. checkout' = checkout /\ (payment[s] = "absent" => payment'[s] = "absent")
      BY <1>8 DEF UpdatePayment, updatePaymentStatus
    <2>2. QED
      BY <1>2, <1>3, <2>1
  <1>9. CASE Restart
    BY <1>1, <1>2, <1>3, <1>9 DEF Restart, records, TypeOK
  <1>10. ASSUME NEW z \in Sessions, Customer(z)  PROVE UNCHANGED <<checkout, payment>>
    BY <1>10 DEF Customer, CardDeclined, CardCharged, SessionExpires, FailedChargeEdited,
       StripeMoves, records
  <1>11. ASSUME NEW d \in Deliveries, Webhook(d)
         PROVE  UNCHANGED <<checkout, payment>> \/ UpdatePayment(d)
    BY <1>11 DEF Webhook, HandlerStep, Deliver, LookupDone, LookupEmpty,
       saveOrUpdateWebhookEvent, UpdateHistory, HandlerFails, records
  <1>12. ASSUME NEW r \in Refunders, Refund(r)  PROVE UNCHANGED <<checkout, payment>>
    BY <1>12 DEF Refund, createRefund, StripeRefunds, SaveRefund, RefundFails, records
  <1>13. ASSUME UNCHANGED vars \/ \E o \in Orders : OrderAppears(o)
         PROVE  UNCHANGED <<checkout, payment>>
    BY <1>13 DEF vars, OrderAppears, records
  <1>14. \/ UNCHANGED <<checkout, payment>>
         \/ \E z \in Sessions, o \in Orders : createCheckoutSession(z, o)
         \/ \E z \in Sessions : SavePayment(z) \/ SaveHistory(z) \/ CheckoutFails(z)
         \/ \E d \in Deliveries : UpdatePayment(d)
         \/ Restart
    BY <1>10, <1>11, <1>12, <1>13 DEF Next, Service, Checkout, requestPayment
  <1>15. QED
    BY <1>4, <1>5, <1>6, <1>7, <1>8, <1>9, <1>14

\* The one step that may take "completed" away from a payment is an update
\* that writes "failed", and that one proves an edited charge.
LEMMA CompletedKept ==
  ASSUME IInv, SavedOnce, [Next]_vars, NEW s \in Sessions,
         payment[s] = "completed", ~stripe[s].edited
  PROVE  payment'[s] = "completed"
  <1>1. TypeOK /\ StructureOK
    BY DEF IInv, StructureOK
  <1>2. ASSUME NEW z \in Sessions, SavePayment(z)  PROVE payment'[s] = "completed"
    BY <1>1, <1>2 DEF SavedOnce, SavePayment, TypeOK
  <1>3. ASSUME NEW d \in Deliveries, UpdatePayment(d)  PROVE payment'[s] = "completed"
    <2> DEFINE e == delivery[d].event
    <2>1. e \in Event /\ e.type \in EventTypes /\ delivery[d] # Idle
      BY <1>1, <1>3, InFlight DEF UpdatePayment
    <2>2. e.type \in HistoryTypes \cup FailureTypes /\ Occurred(e)
      <3>1. "payment" \in Routes(e.type)
        BY <1>1, <1>3, <2>1 DEF UpdatePayment, StructureOK, DeliveryOnRoute
      <3>2. QED
        BY <2>1, <3>1, RouteTypes DEF IInv, DeliveryOccurred
    <2>3. CASE e.type \in FailureTypes
      BY <1>1, <1>3, <2>1, <2>3, FailureMisses DEF UpdatePayment, updatePaymentStatus
    <2>4. CASE e.type \in HistoryTypes
      <3>1. /\ WrittenStatus(e) \in {"completed", "failed"}
            /\ WrittenKey(e) = e.session
            /\ WrittenStatus(e) = "failed" => stripe[e.session].edited
        BY <2>1, <2>2, <2>4, OccurredProves
      <3>2. payment'[s] = payment[s] \/ (s = e.session /\ payment'[s] = WrittenStatus(e))
        BY <1>3, <3>1 DEF UpdatePayment, updatePaymentStatus
      <3>3. QED
        BY <3>1, <3>2
    <2>5. QED
      BY <2>2, <2>3, <2>4
  <1>4. ASSUME NEW z \in Sessions, Customer(z)  PROVE UNCHANGED payment
    BY <1>4 DEF Customer, CardDeclined, CardCharged, SessionExpires, FailedChargeEdited,
       StripeMoves, records
  <1>5. ASSUME NEW z \in Sessions, Checkout(z)  PROVE UNCHANGED payment \/ SavePayment(z)
    BY <1>5 DEF Checkout, createCheckoutSession, requestPayment, SaveHistory, CheckoutFails, records
  <1>6. ASSUME NEW d \in Deliveries, Webhook(d)  PROVE UNCHANGED payment \/ UpdatePayment(d)
    BY <1>6 DEF Webhook, HandlerStep, Deliver, LookupDone, LookupEmpty,
       saveOrUpdateWebhookEvent, UpdateHistory, HandlerFails, records
  <1>7. ASSUME NEW r \in Refunders, Refund(r)  PROVE UNCHANGED payment
    BY <1>7 DEF Refund, createRefund, StripeRefunds, SaveRefund, RefundFails, records
  <1>8. ASSUME UNCHANGED vars \/ Restart \/ \E o \in Orders : OrderAppears(o)
        PROVE  UNCHANGED payment
    BY <1>8 DEF vars, Restart, OrderAppears, records
  <1>9. \/ UNCHANGED payment
        \/ \E z \in Sessions : SavePayment(z)
        \/ \E d \in Deliveries : UpdatePayment(d)
    BY <1>4, <1>5, <1>6, <1>7, <1>8 DEF Next, Service
  <1>10. QED
    BY <1>2, <1>3, <1>9

\* No late or repeated failure event undoes a completed payment.
THEOREM LateFailureIsHarmless == Spec => LateFailureHarmless
  <1>1. Init => IInv /\ SavedOnce
    BY InitIInv DEF Init, SavedOnce
  <1>2. IInv /\ SavedOnce /\ [Next]_vars => (IInv /\ SavedOnce)'
    BY StepIInv, SavedOnceStep
  <1>3. IInv /\ SavedOnce /\ [Next]_vars =>
          [\A s \in Sessions :
             payment[s] = "completed" /\ ~stripe[s].edited => payment'[s] = "completed"]_vars
    BY CompletedKept
  <1>4. QED
    BY <1>1, <1>2, <1>3, PTL DEF Spec, LateFailureHarmless
----------------------------------------------------------------------------
(* Refunds: the oldest payment of an order stays the oldest, and Stripe    *)
(* refunds it once, so one request at most gets as far as the save.        *)

\* A session belongs to its order from its creation on.
Opened ==
  \A s \in Sessions :
    /\ stripe[s].state # "none" => stripe[s].order \in Orders
    /\ stripe[s].declined => stripe[s].state # "none"
    /\ stripe[s].refunded => stripe[s].state = "complete"

\* The oldest payment of an order is of a session of that order.
FirstOfOrder ==
  \A o \in Orders : first[o] # NoSession =>
    stripe[first[o]].order = o /\ stripe[first[o]].state # "none"

\* A refund in flight is of the oldest payment, and alone once Stripe agreed.
RefundsInFlight ==
  /\ \A r \in Refunders : refund[r] # Idle => first[refund[r].order] = refund[r].session
  /\ \A r \in Refunders : refund[r].step = "save" =>
       /\ stripe[refund[r].session].refunded
       /\ refunds[refund[r].order] = 0
       /\ \A q \in Refunders : refund[q].step = "save" /\ refund[q].order = refund[r].order => q = r

RefundInv == Opened /\ FirstOfOrder /\ RefundsInFlight /\ RefundsBacked

\* What a customer does to a session leaves its order and its refund alone.
LEMMA CustomerKeepsRefunds ==
  ASSUME IInv, RefundInv, NEW s \in Sessions, Customer(s)
  PROVE  RefundInv'
  <1>1. TypeOK /\ stripe[s] \in Session
    BY DEF IInv, TypeOK
  <1>2. PICK new :
          /\ stripe' = [stripe EXCEPT ![s] = new]
          /\ new.order = stripe[s].order
          /\ new.refunded <=> stripe[s].refunded
          /\ new.state # "none" /\ stripe[s].state # "none"
          /\ stripe[s].state = "complete" => new.state = "complete"
    <2>1. CASE CardDeclined(s) \/ CardCharged(s) \/ SessionExpires(s)
      BY <1>1, <2>1 DEF CardDeclined, CardCharged, SessionExpires, StripeMoves, Session
    <2>2. CASE FailedChargeEdited(s)
      <3> DEFINE new == [stripe[s] EXCEPT !.edited = TRUE]
      <3>1. stripe' = [stripe EXCEPT ![s] = new] /\ stripe[s].state # "none"
        BY <2>2 DEF FailedChargeEdited, StripeMoves, RefundInv, Opened
      <3>2. /\ new.order = stripe[s].order /\ new.state = stripe[s].state
            /\ new.refunded <=> stripe[s].refunded
        BY <1>1 DEF Session
      <3> HIDE DEF new
      <3>3. QED
        BY <3>1, <3>2
    <2>3. QED
      BY <2>1, <2>2 DEF Customer
  <1>3. UNCHANGED <<first, refund, refunds>>
    BY DEF Customer, CardDeclined, CardCharged, SessionExpires, FailedChargeEdited, StripeMoves,
           records
  <1>4. \A z \in Sessions :
          /\ stripe'[z].order = stripe[z].order
          /\ stripe'[z].refunded <=> stripe[z].refunded
          /\ stripe'[z].state # "none" <=> stripe[z].state # "none"
          /\ stripe'[z].state = "none" => stripe'[z] = stripe[z]
          /\ stripe[z].state = "complete" => stripe'[z].state = "complete"
    BY <1>1, <1>2 DEF TypeOK
  <1>5. Opened' /\ FirstOfOrder'
    <2>1. Opened'
      BY <1>4 DEF RefundInv, Opened
    <2>2. \A o \in Orders : first[o] # NoSession => first[o] \in Sessions
      BY <1>1 DEF TypeOK
    <2>3. FirstOfOrder'
      BY <1>3, <1>4, <2>2 DEF RefundInv, FirstOfOrder
    <2>4. QED
      BY <2>1, <2>3
  <1>6. RefundsInFlight'
    BY <1>1, <1>3, <1>4, InFlightRefund DEF RefundInv, RefundsInFlight
  <1>7. RefundsBacked'
    <2>1. \A o \in Orders : first[o] # NoSession => first[o] \in Sessions
      BY <1>1 DEF TypeOK
    <2>2. QED
      BY <1>3, <1>4, <2>1 DEF RefundInv, RefundsBacked
  <1>8. QED
    BY <1>5, <1>6, <1>7 DEF RefundInv

\* A session is opened: it was of no order before.
LEMMA CreateKeepsRefunds ==
  ASSUME IInv, RefundInv, NEW s \in Sessions, NEW o \in Orders, createCheckoutSession(s, o)
  PROVE  RefundInv'
  <1>1. TypeOK /\ stripe[s] \in Session
    BY DEF IInv, TypeOK
  <1> DEFINE new == [stripe[s] EXCEPT !.state = "open", !.order = o]
  <1>2. /\ stripe' = [stripe EXCEPT ![s] = new]
        /\ new.order = o /\ new.state = "open"
        /\ new.refunded <=> stripe[s].refunded
    BY <1>1 DEF createCheckoutSession, Session
  <1> HIDE DEF new
  <1>3. stripe[s].state = "none" /\ ~stripe[s].refunded /\ UNCHANGED <<first, refund, refunds>>
    BY DEF createCheckoutSession, records, RefundInv, Opened
  <1>4. \A z \in Sessions \ {s} : stripe'[z] = stripe[z]
    BY <1>1, <1>2 DEF TypeOK
  <1>5. stripe'[s].order = o /\ ~stripe'[s].refunded /\ stripe'[s].state = "open"
    BY <1>1, <1>2, <1>3 DEF TypeOK
  <1>6. \A p \in Orders : first[p] # s
    BY <1>3, IdsDisjoint DEF RefundInv, FirstOfOrder
  <1>7. Opened' /\ FirstOfOrder'
    BY <1>1, <1>3, <1>4, <1>5, <1>6 DEF RefundInv, Opened, FirstOfOrder, TypeOK
  <1>8. RefundsInFlight'
    <2>1. \A r \in Refunders : refund[r] # Idle => refund[r].session # s
      BY <1>1, <1>6, InFlightRefund DEF RefundInv, RefundsInFlight
    <2>2. QED
      BY <1>1, <1>3, <1>4, <2>1, InFlightRefund DEF RefundInv, RefundsInFlight
  <1>9. RefundsBacked'
    BY <1>1, <1>3, <1>4, <1>5, <1>6 DEF RefundInv, RefundsBacked, TypeOK
  <1>10. QED
    BY <1>7, <1>8, <1>9 DEF RefundInv

\* A payment becomes the oldest of its order only if there was none.
LEMMA SaveKeepsRefunds ==
  ASSUME IInv, SavedOnce, RefundInv, NEW s \in Sessions, SavePayment(s)
  PROVE  RefundInv'
  <1> DEFINE o == stripe[s].order
  <1>1. TypeOK /\ stripe[s].state # "none" /\ o \in Orders
    BY DEF IInv, SavePayment, SavedOnce, RefundInv, Opened
  <1>2. UNCHANGED <<stripe, refund, refunds>>
    BY DEF SavePayment
  <1>3. first' = [first EXCEPT ![o] = IF first[o] = NoSession THEN s ELSE first[o]]
    BY DEF SavePayment
  <1> HIDE DEF o
  <1>4. \A p \in Orders : first[p] # NoSession => first'[p] = first[p]
    BY <1>1, <1>3 DEF TypeOK
  <1>5. \A p \in Orders : first'[p] # first[p] => p = o /\ first'[p] = s
    BY <1>1, <1>3 DEF TypeOK
  <1>6. FirstOfOrder' /\ Opened'
    <2>1. stripe[s].order = o
      BY DEF o
    <2>2. QED
      BY <1>1, <1>2, <1>4, <1>5, <2>1 DEF RefundInv, Opened, FirstOfOrder
  <1>7. RefundsInFlight'
    BY <1>1, <1>2, <1>4, InFlightRefund, IdsDisjoint DEF RefundInv, RefundsInFlight
  <1>8. RefundsBacked'
    <2>1. \A z \in Sessions : stripe[z].refunded => stripe[z].order \in Orders
      BY DEF RefundInv, Opened
    <2>2. QED
      BY <1>2, <1>4, <2>1, IdsDisjoint DEF RefundInv, RefundsBacked
  <1>9. QED
    BY <1>6, <1>7, <1>8 DEF RefundInv

\* A refund request begins with the oldest payment.
LEMMA RequestKeepsRefunds ==
  ASSUME IInv, RefundInv, NEW r \in Refunders, NEW o \in Orders, createRefund(r, o)
  PROVE  RefundInv'
  <1>1. UNCHANGED <<stripe, first, refunds>>
    BY DEF createRefund, records
  <1>2. /\ refund' = [refund EXCEPT ![r] = [step |-> "stripe", order |-> o, session |-> first[o]]]
    BY DEF createRefund, extractPaymentDetails
  <1>3. RefundsInFlight'
    BY <1>1, <1>2 DEF IInv, TypeOK, RefundInv, RefundsInFlight
  <1>4. QED
    BY <1>1, <1>3 DEF RefundInv, Opened, FirstOfOrder, RefundsBacked

\* Stripe refunds a session once.
LEMMA StripeKeepsRefunds ==
  ASSUME IInv, RefundInv, NEW r \in Refunders, StripeRefunds(r)
  PROVE  RefundInv'
  <1> DEFINE s == refund[r].session
             o == refund[r].order
  <1>1. /\ TypeOK /\ refund[r] \in Refunding /\ refund[r] # Idle /\ refund[r].step = "stripe"
        /\ s \in Sessions /\ o \in Orders /\ stripe[s] \in Session
    BY InFlightRefund DEF IInv, StripeRefunds, TypeOK
  <1>2. first[o] = s /\ UNCHANGED <<first, refunds>>
    BY <1>1 DEF RefundInv, RefundsInFlight, StripeRefunds, records
  <1>3. stripe[s].order = o /\ s # NoSession
    BY <1>1, <1>2, IdsDisjoint DEF RefundInv, FirstOfOrder
  <1>4. CASE stripe[s].state = "complete" /\ ~stripe[s].refunded
    <2> DEFINE new == [stripe[s] EXCEPT !.refunded = TRUE]
               q == [refund[r] EXCEPT !.step = "save"]
    <2>1. /\ stripe' = [stripe EXCEPT ![s] = new]
          /\ refund' = [refund EXCEPT ![r] = q]
      BY <1>4 DEF StripeRefunds
    <2>2. new.order = o /\ new.refunded /\ new.state = "complete"
      BY <1>1, <1>3, <1>4 DEF Session
    <2>3. q # Idle /\ q.step = "save" /\ q.order = o /\ q.session = s
      BY <1>1 DEF Refunding, Idle
    <2>4. /\ refunds[o] = 0
          /\ \A x \in Refunders : refund[x].step = "save" => refund[x].order # o
      BY <1>1, <1>2, <1>4, InFlightRefund DEF RefundInv, RefundsBacked, RefundsInFlight
    <2> HIDE DEF new, q, s, o
    <2>5. /\ \A z \in Sessions \ {s} : stripe'[z] = stripe[z]
          /\ stripe'[s].order = o /\ stripe'[s].refunded /\ stripe'[s].state = "complete"
      BY <1>1, <2>1, <2>2 DEF TypeOK
    <2>6. /\ \A x \in Refunders \ {r} : refund'[x] = refund[x]
          /\ refund'[r] = q
      BY <1>1, <2>1 DEF TypeOK
    <2>7. \A p \in Orders : first[p] # NoSession => first[p] \in Sessions
      BY <1>1 DEF TypeOK
    <2>8. Opened'
      BY <1>1, <2>5 DEF RefundInv, Opened
    <2>9. FirstOfOrder'
      BY <1>1, <1>2, <1>3, <2>5, <2>7 DEF RefundInv, FirstOfOrder
    <2>10. RefundsBacked'
      BY <1>1, <1>2, <2>5, <2>7 DEF RefundInv, RefundsBacked
    <2>11. RefundsInFlight'
      <3>1. \A x \in Refunders : refund'[x] # Idle => first'[refund'[x].order] = refund'[x].session
        BY <1>1, <1>2, <2>3, <2>6 DEF RefundInv, RefundsInFlight
      <3>2. ASSUME NEW x \in Refunders, refund'[x].step = "save"
            PROVE  /\ stripe'[refund'[x].session].refunded
                   /\ refunds'[refund'[x].order] = 0
                   /\ \A y \in Refunders :
                        refund'[y].step = "save" /\ refund'[y].order = refund'[x].order => y = x
        <4>1. CASE x = r
          BY <1>2, <2>3, <2>4, <2>5, <2>6, <4>1
        <4>2. CASE x # r
          <5>1. refund'[x] = refund[x] /\ refund[x].step = "save" /\ refund[x].order # o
            BY <2>4, <2>6, <3>2, <4>2
          <5>2. refund[x].session \in Sessions
            BY <1>1, <5>1, InFlightRefund
          <5>3. stripe'[refund[x].session].refunded
            BY <2>5, <5>1, <5>2 DEF RefundInv, RefundsInFlight
          <5>4. QED
            BY <1>2, <2>3, <2>6, <5>1, <5>3 DEF RefundInv, RefundsInFlight
        <4>3. QED
          BY <4>1, <4>2
      <3>3. QED
        BY <3>1, <3>2 DEF RefundsInFlight
    <2>12. QED
      BY <2>8, <2>9, <2>10, <2>11 DEF RefundInv
  <1>5. CASE ~(stripe[s].state = "complete" /\ ~stripe[s].refunded)
    <2>1. refund' = [refund EXCEPT ![r] = Idle] /\ UNCHANGED stripe
      BY <1>5 DEF StripeRefunds
    <2>2. \A x \in Refunders : refund'[x] \in {refund[x], Idle}
      BY <1>1, <2>1 DEF TypeOK
    <2>3. RefundsInFlight'
      BY <1>2, <2>1, <2>2 DEF RefundInv, RefundsInFlight, Idle
    <2>4. QED
      BY <1>2, <2>1, <2>3 DEF RefundInv, Opened, FirstOfOrder, RefundsBacked
  <1>6. QED
    BY <1>4, <1>5

\* The document of a refund is the first of its order.
LEMMA DocumentKeepsRefunds ==
  ASSUME IInv, RefundInv, NEW r \in Refunders, SaveRefund(r)
  PROVE  RefundInv'
  <1> DEFINE s == refund[r].session
             o == refund[r].order
  <1>1. /\ TypeOK /\ refund[r] # Idle /\ refund[r].step = "save"
        /\ s \in Sessions /\ o \in Orders
    BY InFlightRefund DEF IInv, SaveRefund
  <1>2. /\ refunds[o] = 0 /\ stripe[s].refunded /\ first[o] = s /\ s # NoSession
        /\ \A q \in Refunders : refund[q].step = "save" /\ refund[q].order = o => q = r
    BY <1>1, IdsDisjoint DEF RefundInv, RefundsInFlight
  <1>3. /\ refunds' = [refunds EXCEPT ![o] = 1]
        /\ refund' = [refund EXCEPT ![r] = Idle]
        /\ UNCHANGED <<stripe, first>>
    BY <1>1, <1>2 DEF SaveRefund, records, TypeOK
  <1>4. /\ refunds'[o] = 1 /\ \A p \in Orders \ {o} : refunds'[p] = refunds[p]
        /\ refund'[r] = Idle /\ \A q \in Refunders \ {r} : refund'[q] = refund[q]
    BY <1>1, <1>3 DEF TypeOK
  <1> HIDE DEF s, o
  <1>5. RefundsInFlight'
    <2>1. \A q \in Refunders : refund'[q] # Idle => first'[refund'[q].order] = refund'[q].session
      BY <1>3, <1>4 DEF RefundInv, RefundsInFlight
    <2>2. ASSUME NEW q \in Refunders, refund'[q].step = "save"
          PROVE  /\ stripe'[refund'[q].session].refunded
                 /\ refunds'[refund'[q].order] = 0
                 /\ \A x \in Refunders :
                      refund'[x].step = "save" /\ refund'[x].order = refund'[q].order => x = q
      <3>1. q # r /\ refund'[q] = refund[q]
        BY <1>4, <2>2 DEF Idle
      <3>2. refund[q].order \in Orders /\ refund[q].order # o
        BY <1>1, <1>2, <2>2, <3>1, InFlightRefund
      <3>3. \A x \in Refunders : refund'[x].step = "save" => refund'[x] = refund[x]
        BY <1>4 DEF Idle
      <3>4. QED
        BY <1>3, <1>4, <2>2, <3>1, <3>2, <3>3 DEF RefundInv, RefundsInFlight
    <2>3. QED
      BY <2>1, <2>2 DEF RefundsInFlight
  <1>6. RefundsBacked'
    BY <1>1, <1>2, <1>3, <1>4 DEF RefundInv, RefundsBacked
  <1>7. QED
    BY <1>3, <1>5, <1>6 DEF RefundInv, Opened, FirstOfOrder

\* Requests that end, and steps that are about something else.
LEMMA OthersKeepRefunds ==
  ASSUME RefundInv, UNCHANGED <<stripe, first, refunds>>,
         \A r \in Refunders : refund'[r] \in {refund[r], Idle}
  PROVE  RefundInv'
  BY DEF RefundInv, Opened, FirstOfOrder, RefundsInFlight, RefundsBacked, Idle

LEMMA RefundStep == IInv /\ SavedOnce /\ RefundInv /\ [Next]_vars => RefundInv'
  <1> SUFFICES ASSUME IInv, SavedOnce, RefundInv, [Next]_vars  PROVE RefundInv'
    OBVIOUS
  <1>1. ASSUME NEW s \in Sessions, SaveHistory(s) \/ CheckoutFails(s)  PROVE RefundInv'
    BY <1>1, OthersKeepRefunds DEF SaveHistory, CheckoutFails, records
  <1>2. ASSUME NEW d \in Deliveries, Webhook(d)  PROVE RefundInv'
    <2>1. UNCHANGED <<stripe, first, refund, refunds>>
      BY <1>2 DEF Webhook, HandlerStep, Deliver, LookupDone, LookupEmpty, UpdatePayment,
         saveOrUpdateWebhookEvent, UpdateHistory, HandlerFails, records
    <2>2. QED
      BY <2>1, OthersKeepRefunds
  <1>3. ASSUME NEW r \in Refunders, RefundFails(r)  PROVE RefundInv'
    BY <1>3, OthersKeepRefunds DEF RefundFails, records, IInv, TypeOK
  <1>4. CASE Restart
    BY <1>4, OthersKeepRefunds DEF Restart, records
  <1>5. ASSUME UNCHANGED vars \/ \E o \in Orders : OrderAppears(o)  PROVE RefundInv'
    BY <1>5, OthersKeepRefunds DEF vars, OrderAppears, records
  <1>6. QED
    BY <1>1, <1>2, <1>3, <1>4, <1>5, CustomerKeepsRefunds, CreateKeepsRefunds, SaveKeepsRefunds,
       RequestKeepsRefunds, StripeKeepsRefunds, DocumentKeepsRefunds
    DEF Next, Service, Checkout, requestPayment, Refund

\* An order has one refund document at most, with a refund of its oldest
\* payment behind it, for any number of refund requests at a time.
THEOREM RefundsAreBacked == Spec => []RefundsBacked
  <1>1. Init => IInv /\ SavedOnce /\ RefundInv
    <2>1. Init => IInv /\ SavedOnce
      BY InitIInv DEF Init, SavedOnce
    <2>2. Init => RefundInv
      BY DEF Init, RefundInv, Opened, FirstOfOrder, RefundsInFlight, RefundsBacked, Idle
    <2>3. QED
      BY <2>1, <2>2
  <1>2. IInv /\ SavedOnce /\ RefundInv /\ [Next]_vars => (IInv /\ SavedOnce /\ RefundInv)'
    BY StepIInv, SavedOnceStep, RefundStep
  <1>3. RefundInv => RefundsBacked
    BY DEF RefundInv
  <1>4. QED
    BY <1>1, <1>2, <1>3, PTL DEF Spec


----------------------------------------------------------------------------
(* An event is answered when all that its handler writes has been written: *)
(* what a step has written is there when a later step answers.             *)

Logged(e) == webhook[e.session][ObjectOf(e)] # "none"
Recorded(e) == payment[e.session] \in Settled /\ history[e.session] \in Settled
Durable(e) ==
  /\ e.type \in HistoryTypes => Recorded(e)
  /\ e.type # "charge.updated" => Logged(e)

\* The handlers that save the event before they update the records.
LogFirst == {"payment_intent.succeeded", "charge.succeeded"}

\* What has been written by the time a handler comes to `step'.
Written(e, step, found) ==
  /\ e.type \in HistoryTypes /\ step = "history" /\ found => payment[e.session] \in Settled
  /\ e.type = "checkout.session.completed" /\ step = "save" => Recorded(e)
  /\ e.type \in LogFirst /\ step \in {"payment", "history"} => Logged(e)

HistorySavedOnce ==
  \A s \in Sessions : checkout[s] \in {"none", "payment", "history"} => history[s] = "absent"
ProgressMade ==
  \A d \in Deliveries : delivery[d] # Idle =>
    Written(delivery[d].event, delivery[d].step, delivery[d].found)

AckInv == HistorySavedOnce /\ ProgressMade /\ AckedIsDurable

\* Which await a handler's next one, or its answer, comes after.
LEMMA RouteOrder ==
  ASSUME NEW type \in EventTypes, NEW step \in Routes(type) \ {"start"}
  PROVE  LET next == handleWebhookEvent(type)[step] IN
         /\ next = "history" => step = "payment"
         /\ type = "checkout.session.completed" =>
              /\ next = "save" => step = "history"
              /\ next = "done" => step = "save"
         /\ type \in LogFirst /\ next = "payment" => step = "save"
         /\ type \in HistoryTypes \ {"checkout.session.completed"} /\ next = "done" =>
              step = "history"
         /\ type \notin HistoryTypes /\ next = "done" => step = "save"
  BY DEF EventTypes, HistoryTypes, LogFirst, Routes, handleWebhookEvent,
         handlePaymentIntentCreated, handlePaymentIntentSucceeded, handleChargeSucceeded,
         handleChargeUpdated, handleSuccessfulPayment, handleExpiredPayment,
         handleFailedPayment, handleFailedCharge

\* No handler starts at an await by which something has been written.
LEMMA RouteStart ==
  ASSUME NEW e \in Event
  PROVE  Written(e, handleWebhookEvent(e.type).start, TRUE)
  BY DEF Written, Event, EventTypes, HistoryTypes, LogFirst, handleWebhookEvent,
         handlePaymentIntentCreated, handlePaymentIntentSucceeded, handleChargeSucceeded,
         handleChargeUpdated, handleSuccessfulPayment, handleExpiredPayment,
         handleFailedPayment, handleFailedCharge

\* A history is absent until the request that opened its session saves it.
LEMMA HistorySavedOnceStep ==
  ASSUME IInv, SavedOnce, HistorySavedOnce, [Next]_vars
  PROVE  HistorySavedOnce'
  <1> SUFFICES ASSUME NEW s \in Sessions, checkout'[s] \in {"none", "payment", "history"}
               PROVE  history'[s] = "absent"
    BY DEF HistorySavedOnce
  <1>1. TypeOK
    BY DEF IInv
  <1>2. checkout[s] \in {"none", "payment", "history"} => history[s] = "absent"
    BY DEF HistorySavedOnce
  <1>3. CASE UNCHANGED <<checkout, history>>
    BY <1>2, <1>3
  <1>4. ASSUME NEW z \in Sessions, NEW o \in Orders, createCheckoutSession(z, o)
        PROVE  history'[s] = "absent"
    <2>1. checkout[z] = "none" /\ checkout' = [checkout EXCEPT ![z] = "payment"] /\ history' = history
      BY <1>4 DEF createCheckoutSession, records, SavedOnce
    <2>2. QED
      BY <1>1, <1>2, <2>1 DEF TypeOK
  <1>5. ASSUME NEW z \in Sessions, SavePayment(z) \/ SaveHistory(z) \/ CheckoutFails(z)
        PROVE  history'[s] = "absent"
    BY <1>1, <1>2, <1>5 DEF SavePayment, SaveHistory, CheckoutFails, records, TypeOK
  <1>6. ASSUME NEW d \in Deliveries, UpdateHistory(d)  PROVE history'[s] = "absent"
    BY <1>2, <1>6 DEF UpdateHistory, updatePaymentHistory
  <1>7. CASE Restart
    BY <1>1, <1>2, <1>7 DEF Restart, records, TypeOK
  <1>8. ASSUME NEW z \in Sessions, Customer(z)  PROVE UNCHANGED <<checkout, history>>
    BY <1>8 DEF Customer, CardDeclined, CardCharged, SessionExpires, FailedChargeEdited,
       StripeMoves, records
  <1>9. ASSUME NEW d \in Deliveries, Webhook(d)
        PROVE  UNCHANGED <<checkout, history>> \/ UpdateHistory(d)
    BY <1>9 DEF Webhook, HandlerStep, Deliver, LookupDone, LookupEmpty,
       saveOrUpdateWebhookEvent, UpdatePayment, HandlerFails, records
  <1>10. ASSUME NEW r \in Refunders, Refund(r)  PROVE UNCHANGED <<checkout, history>>
    BY <1>10 DEF Refund, createRefund, StripeRefunds, SaveRefund, RefundFails, records
  <1>11. ASSUME UNCHANGED vars \/ \E o \in Orders : OrderAppears(o)
         PROVE  UNCHANGED <<checkout, history>>
    BY <1>11 DEF vars, OrderAppears, records
  <1>12. QED
    BY <1>3, <1>4, <1>5, <1>6, <1>7, <1>8, <1>9, <1>10, <1>11
    DEF Next, Service, Checkout, requestPayment

\* Once settled, a record stays settled: a save comes only before.
LEMMA SettledStays ==
  ASSUME IInv, SavedOnce, HistorySavedOnce, [Next]_vars, NEW s \in Sessions
  PROVE  /\ payment[s] \in Settled => payment'[s] \in Settled
         /\ history[s] \in Settled => history'[s] \in Settled
  <1>1. TypeOK /\ "absent" \notin Settled
    BY DEF IInv, Settled
  <1>2. ASSUME NEW z \in Sessions, SavePayment(z)
        PROVE  history' = history /\ (payment[s] \in Settled => payment'[s] \in Settled)
    BY <1>1, <1>2 DEF SavePayment, SavedOnce, TypeOK
  <1>3. ASSUME NEW z \in Sessions, SaveHistory(z)
        PROVE  payment' = payment /\ (history[s] \in Settled => history'[s] \in Settled)
    BY <1>1, <1>3 DEF SaveHistory, HistorySavedOnce, TypeOK
  <1>4. ASSUME NEW d \in Deliveries, UpdatePayment(d)
        PROVE  history' = history /\ (payment[s] \in Settled => payment'[s] \in Settled)
    BY <1>4 DEF UpdatePayment, updatePaymentStatus, WrittenStatus, Settled
  <1>5. ASSUME NEW d \in Deliveries, UpdateHistory(d)
        PROVE  payment' = payment /\ (history[s] \in Settled => history'[s] \in Settled)
    BY <1>5 DEF UpdateHistory, updatePaymentHistory, WrittenStatus, Settled
  <1>6. QED
    BY <1>2, <1>3, <1>4, <1>5, RecordSteps

\* An event in the log stays there.
LEMMA LogKept ==
  ASSUME IInv, [Next]_vars, NEW e \in Event, Logged(e)
  PROVE  Logged(e)'
  <1> DEFINE s == e.session
             x == ObjectOf(e)
  <1>1. s \in Sessions /\ x \in Objects /\ webhook \in [Sessions -> [Objects -> ProcessingStatus]]
    BY DEF Event, ObjectOf, Objects, IInv, TypeOK
  <1>2. CASE UNCHANGED webhook
    BY <1>2 DEF Logged
  <1>3. ASSUME NEW d \in Deliveries, saveOrUpdateWebhookEvent(d)  PROVE Logged(e)'
    <2>1. delivery[d].event \in Event
      BY <1>3, InFlight DEF IInv, saveOrUpdateWebhookEvent
    <2>2. PICK status : /\ status # "none"
                        /\ webhook' = [webhook EXCEPT ![delivery[d].event.session] =
                             [webhook[delivery[d].event.session] EXCEPT
                                ![ObjectOf(delivery[d].event)] = status]]
      BY <1>3, <2>1 DEF saveOrUpdateWebhookEvent, Event
    <2>3. delivery[d].event.session \in Sessions /\ ObjectOf(delivery[d].event) \in Objects
      BY <2>1 DEF Event, ObjectOf, Objects
    <2> HIDE DEF s, x
    <2>4. webhook'[s][x] \in {webhook[s][x], status}
      BY <1>1, <2>2, <2>3
    <2>5. QED
      BY <2>2, <2>4 DEF Logged, s, x
  <1>4. ASSUME NEW z \in Sessions, Customer(z) \/ Checkout(z)  PROVE UNCHANGED webhook
    BY <1>4 DEF Customer, CardDeclined, CardCharged, SessionExpires, FailedChargeEdited,
       StripeMoves, Checkout, createCheckoutSession, requestPayment, SavePayment, SaveHistory,
       CheckoutFails
  <1>5. ASSUME NEW d \in Deliveries, Webhook(d)
        PROVE  UNCHANGED webhook \/ saveOrUpdateWebhookEvent(d)
    BY <1>5 DEF Webhook, HandlerStep, Deliver, LookupDone, LookupEmpty, UpdatePayment,
       UpdateHistory, HandlerFails
  <1>6. ASSUME NEW r \in Refunders, Refund(r)  PROVE UNCHANGED webhook
    BY <1>6 DEF Refund, createRefund, StripeRefunds, SaveRefund, RefundFails
  <1>7. ASSUME UNCHANGED vars \/ Restart \/ \E o \in Orders : OrderAppears(o)
        PROVE  UNCHANGED webhook
    BY <1>7 DEF vars, Restart, OrderAppears
  <1>8. QED
    BY <1>2, <1>3, <1>4, <1>5, <1>6, <1>7 DEF Next, Service

\* So what has been written stays written.
LEMMA WrittenStays ==
  ASSUME IInv, SavedOnce, HistorySavedOnce, [Next]_vars, NEW e \in Event
  PROVE  /\ Durable(e) => Durable(e)'
         /\ Recorded(e) => Recorded(e)'
         /\ \A step, found : Written(e, step, found) => Written(e, step, found)'
  <1>1. e.session \in Sessions
    BY DEF Event
  <1>2. Recorded(e) => Recorded(e)'
    BY <1>1, SettledStays DEF Recorded
  <1>3. Logged(e) => Logged(e)'
    BY LogKept
  <1>4. payment[e.session] \in Settled => payment'[e.session] \in Settled
    BY <1>1, SettledStays
  <1>5. QED
    BY <1>2, <1>3, <1>4 DEF Durable, Written

\* What a step of a handler leaves behind: the delivery goes on with what its
\* route promises written, or its event is answered and durable.
Advances(d, e) ==
  /\ \A x \in Deliveries \ {d} : delivery'[x] = delivery[x]
  /\ delivery'[d] # Idle =>
       delivery'[d].event = e /\ Written(e, delivery[d].step, delivery[d].found)'
  /\ acked' \subseteq acked \cup {e}
  /\ acked' # acked => Durable(e)'

\* The event of a delivery, and the await that comes next for it.
Comes(d, e, next) ==
  e = delivery[d].event /\ next = handleWebhookEvent(e.type)[delivery[d].step]

\* From an await whose handler has done its part, it may go on or answer.
LEMMA ProceedAdvances ==
  ASSUME TypeOK, NEW d \in Deliveries, NEW e, NEW next, Comes(d, e, next),
         NEW found \in BOOLEAN, Proceed(d, found),
         next = "done" => Durable(e)',
         next # "done" => Written(e, next, found)'
  PROVE  Advances(d, e)
  <1> DEFINE q == [step |-> next, event |-> e, found |-> found]
  <1>1. CASE next = "done"
    <2>1. delivery' = [delivery EXCEPT ![d] = Idle] /\ acked' = acked \cup {e}
      BY <1>1 DEF Proceed, Event200, Comes
    <2>2. delivery'[d] = Idle /\ \A x \in Deliveries \ {d} : delivery'[x] = delivery[x]
      BY <2>1 DEF TypeOK
    <2>3. QED
      BY <1>1, <2>1, <2>2 DEF Advances
  <1>2. CASE next # "done"
    <2>1. delivery' = [delivery EXCEPT ![d] = q] /\ UNCHANGED acked
      BY <1>2 DEF Proceed, Comes
    <2>2. q.step = next /\ q.event = e /\ q.found = found
      OBVIOUS
    <2> HIDE DEF q
    <2>3. delivery'[d] = q /\ \A x \in Deliveries \ {d} : delivery'[x] = delivery[x]
      BY <2>1 DEF TypeOK
    <2>4. Written(e, delivery[d].step, delivery[d].found)'
      BY <1>2, <2>2, <2>3
    <2>5. QED
      BY <2>1, <2>2, <2>3, <2>4 DEF Advances
  <1>3. QED
    BY <1>1, <1>2

\* A request that is answered with 400 leaves nothing to show.
LEMMA FailureAdvances ==
  ASSUME TypeOK, NEW d \in Deliveries, NEW e, Event400(d)
  PROVE  Advances(d, e)
  BY DEF Event400, Advances, TypeOK

\* Stripe's answer alone leads to no step that relies on a record.
LEMMA LookupAdvances ==
  ASSUME IInv, NEW d \in Deliveries, NEW e, NEW next, Comes(d, e, next),
         LookupDone(d) \/ LookupEmpty(d)
  PROVE  Advances(d, e)
  <1>1. /\ TypeOK /\ e.type \in EventTypes /\ delivery[d].step = "lookup"
        /\ delivery[d].step \in Routes(e.type) \ {"start"}
    BY InFlight DEF IInv, LookupDone, LookupEmpty, DeliveryOnRoute, Comes
  <1>2. /\ next \notin {"history", "done"}
        /\ e.type = "checkout.session.completed" => next # "save"
        /\ e.type \in LogFirst => next # "payment"
    BY <1>1, RouteOrder DEF Comes
  <1>3. \A found : Written(e, next, found)'
    BY <1>2 DEF Written
  <1>4. (\E found \in BOOLEAN : Proceed(d, found)) \/ Event400(d)
    BY DEF LookupDone, LookupEmpty
  <1>5. QED
    BY <1>1, <1>2, <1>3, <1>4, ProceedAdvances, FailureAdvances

\* The event is in the log.
LEMMA SaveAdvances ==
  ASSUME IInv, SavedOnce, AckInv, [Next]_vars, NEW d \in Deliveries,
         NEW e, NEW next, Comes(d, e, next), saveOrUpdateWebhookEvent(d)
  PROVE  Advances(d, e)
  <1>1. /\ TypeOK /\ e \in Event /\ e.type \in EventTypes /\ delivery[d] # Idle
        /\ delivery[d].event = e /\ delivery[d].step = "save"
        /\ delivery[d].step \in Routes(e.type) \ {"start"}
    BY InFlight DEF IInv, saveOrUpdateWebhookEvent, DeliveryOnRoute, Comes
  <1>2. Logged(e)'
    <2>1. e.session \in Sessions /\ ObjectOf(e) \in Objects /\ e.status # "none"
      BY <1>1 DEF Event, ObjectOf, Objects
    <2>2. PICK status : /\ status # "none"
                        /\ webhook' = [webhook EXCEPT ![e.session] =
                             [webhook[e.session] EXCEPT ![ObjectOf(e)] = status]]
      BY <1>1, <2>1 DEF saveOrUpdateWebhookEvent
    <2>3. QED
      BY <1>1, <2>1, <2>2 DEF Logged, TypeOK
  <1>3. e.type = "checkout.session.completed" => Recorded(e)'
    <2>1. e.type = "checkout.session.completed" => Recorded(e)
      BY <1>1 DEF AckInv, ProgressMade, Written
    <2>2. QED
      BY <1>1, <2>1, WrittenStays DEF AckInv
  <1>4. next = "done" => Durable(e)'
    <2>1. next = "done" /\ e.type \in HistoryTypes => e.type = "checkout.session.completed"
      BY <1>1, RouteOrder DEF Comes
    <2>2. QED
      BY <1>2, <1>3, <2>1 DEF Durable
  <1>5. Written(e, next, TRUE)'
    <2>1. next # "history"
      BY <1>1, RouteOrder DEF Comes
    <2>2. QED
      BY <1>2, <1>3, <2>1 DEF Written
  <1>6. Proceed(d, TRUE) \/ Event400(d)
    BY DEF saveOrUpdateWebhookEvent
  <1>7. QED
    BY <1>1, <1>4, <1>5, <1>6, ProceedAdvances, FailureAdvances

\* The payment is settled, or found to be missing.
LEMMA PaymentAdvances ==
  ASSUME IInv, SavedOnce, AckInv, [Next]_vars, NEW d \in Deliveries,
         NEW e, NEW next, Comes(d, e, next), UpdatePayment(d)
  PROVE  Advances(d, e)
  <1>1. /\ TypeOK /\ e \in Event /\ e.type \in EventTypes /\ delivery[d] # Idle
        /\ delivery[d].event = e /\ delivery[d].step = "payment"
        /\ delivery[d].step \in Routes(e.type) \ {"start"}
    BY InFlight DEF IInv, UpdatePayment, DeliveryOnRoute, Comes
  <1>2. PICK found \in BOOLEAN :
          Proceed(d, found) /\ (found => e.type \in FailureTypes \/ payment[e.session] # "absent")
    BY <1>1 DEF UpdatePayment
  <1>3. e.type \in HistoryTypes /\ found => payment'[e.session] \in Settled
    <2>1. e.type \in HistoryTypes => e.type \notin FailureTypes
      BY DEF HistoryTypes, FailureTypes
    <2>2. e.session \in Sessions /\ WrittenStatus(e) \in Settled
      BY <1>1 DEF Event, WrittenStatus, Settled
    <2>3. e.type \in HistoryTypes => WrittenKey(e) = e.session
      BY <2>1 DEF WrittenKey
    <2>4. updatePaymentStatus(WrittenKey(e), WrittenStatus(e))
      BY <1>1 DEF UpdatePayment
    <2>5. QED
      BY <1>2, <2>1, <2>2, <2>3, <2>4 DEF updatePaymentStatus
  <1>4. e.type \in LogFirst => Logged(e)'
    <2>1. e.type \in LogFirst => Logged(e)
      BY <1>1 DEF AckInv, ProgressMade, Written
    <2>2. QED
      BY <1>1, <2>1, LogKept
  <1>5. next # "done" /\ (e.type = "checkout.session.completed" => next # "save")
    BY <1>1, RouteOrder DEF Comes
  <1>6. Written(e, next, found)'
    BY <1>3, <1>4, <1>5 DEF Written
  <1>7. QED
    BY <1>1, <1>2, <1>5, <1>6, ProceedAdvances

\* Both records are settled, or the answer is 400.
LEMMA HistoryAdvances ==
  ASSUME IInv, SavedOnce, AckInv, [Next]_vars, NEW d \in Deliveries,
         NEW e, NEW next, Comes(d, e, next), UpdateHistory(d)
  PROVE  Advances(d, e)
  <1>1. /\ TypeOK /\ e \in Event /\ e.type \in EventTypes /\ delivery[d] # Idle
        /\ delivery[d].event = e /\ delivery[d].step = "history"
        /\ delivery[d].step \in Routes(e.type) \ {"start"}
    BY InFlight DEF IInv, UpdateHistory, DeliveryOnRoute, Comes
  <1>2. e.type \in HistoryTypes
    BY <1>1, RouteTypes
  <1>3. CASE Event400(d)
    BY <1>1, <1>3, FailureAdvances
  <1>4. CASE delivery[d].found /\ history[e.session] # "absent" /\ Proceed(d, TRUE)
    <2>1. Recorded(e)'
      <3>1. payment[e.session] \in Settled /\ e.session \in Sessions
        BY <1>1, <1>2, <1>4 DEF AckInv, ProgressMade, Written, Event
      <3>2. payment' = payment /\ updatePaymentHistory(e.session, WrittenStatus(e))
        BY <1>1 DEF UpdateHistory
      <3>3. WrittenStatus(e) \in Settled
        BY DEF WrittenStatus, Settled
      <3>4. QED
        BY <1>4, <3>1, <3>2, <3>3 DEF updatePaymentHistory, Recorded
    <2>2. e.type \in LogFirst => Logged(e)'
      <3>1. e.type \in LogFirst => Logged(e)
        BY <1>1 DEF AckInv, ProgressMade, Written
      <3>2. QED
        BY <1>1, <3>1, LogKept
    <2>3. next = "done" => Durable(e)'
      <3>1. next = "done" => e.type # "checkout.session.completed"
        BY <1>1, RouteOrder DEF Comes
      <3>2. HistoryTypes = LogFirst \cup {"checkout.session.completed", "charge.updated"}
        BY DEF HistoryTypes, LogFirst
      <3>3. QED
        BY <1>2, <2>1, <2>2, <3>1, <3>2 DEF Durable
    <2>4. Written(e, next, TRUE)'
      BY <2>1, <2>2 DEF Written, Recorded
    <2>5. QED
      BY <1>1, <1>4, <2>3, <2>4, ProceedAdvances
  <1>5. QED
    BY <1>1, <1>3, <1>4 DEF UpdateHistory

\* Whatever a step is about, the deliveries it leaves, and the events it
\* answers, have what they need.
LEMMA AckStep == IInv /\ SavedOnce /\ AckInv /\ [Next]_vars => AckInv'
  <1> SUFFICES ASSUME IInv, SavedOnce, AckInv, [Next]_vars  PROVE AckInv'
    OBVIOUS
  <1> DEFINE Kept == ProgressMade' /\ AckedIsDurable'
  <1>1. TypeOK /\ TypeOK' /\ HistorySavedOnce /\ HistorySavedOnce'
    BY StepIInv, HistorySavedOnceStep DEF IInv, AckInv
  <1>2. ASSUME NEW e \in acked  PROVE Durable(e)'
    <2>1. e \in Event /\ Durable(e)
      BY <1>1 DEF TypeOK, AckInv, AckedIsDurable, Durable, Recorded, Logged
    <2>2. QED
      BY <1>1, <2>1, WrittenStays
  <1>3. ASSUME NEW x \in Deliveries, delivery[x] # Idle, delivery'[x] = delivery[x]
        PROVE  Written(delivery[x].event, delivery[x].step, delivery[x].found)'
    <2>1. PICK e \in Event : e = delivery[x].event
      BY <1>1, <1>3, InFlight
    <2>2. Written(e, delivery[x].step, delivery[x].found)
      BY <1>3, <2>1 DEF AckInv, ProgressMade
    <2>3. PICK step, found : step = delivery[x].step /\ found = delivery[x].found
      OBVIOUS
    <2>4. Written(e, step, found)'
      BY <1>1, <2>2, <2>3, WrittenStays
    <2>5. QED
      BY <1>3, <2>1, <2>3, <2>4
  <1>4. ASSUME acked' = acked, \A x \in Deliveries : delivery'[x] \in {delivery[x], Idle}
        PROVE  Kept
    <2>1. AckedIsDurable'
      BY <1>2, <1>4 DEF AckedIsDurable, Durable, Recorded, Logged
    <2>2. ProgressMade'
      BY <1>3, <1>4 DEF ProgressMade
    <2>3. QED
      BY <2>1, <2>2
  <1>5. ASSUME NEW d \in Deliveries, NEW e, Advances(d, e)  PROVE Kept
    <2>1. AckedIsDurable'
      BY <1>2, <1>5 DEF Advances, AckedIsDurable, Durable, Recorded, Logged
    <2>2. ASSUME NEW x \in Deliveries, delivery'[x] # Idle
          PROVE  Written(delivery[x].event, delivery[x].step, delivery[x].found)'
      BY <1>3, <1>5, <2>2 DEF Advances
    <2>3. QED
      BY <2>1, <2>2 DEF ProgressMade
  <1>6. ASSUME NEW d \in Deliveries, NEW e \in Emitted, Deliver(d, e)  PROVE Advances(d, e)
    <2> DEFINE q == [step |-> handleWebhookEvent(e.type).start, event |-> e, found |-> TRUE]
    <2>1. delivery' = [delivery EXCEPT ![d] = q] /\ UNCHANGED <<payment, history, webhook, acked>>
      BY <1>6 DEF Deliver, records
    <2>2. q.step = handleWebhookEvent(e.type).start /\ q.event = e /\ q.found = TRUE
      OBVIOUS
    <2> HIDE DEF q
    <2>3. delivery'[d] = q /\ \A x \in Deliveries \ {d} : delivery'[x] = delivery[x]
      BY <1>1, <2>1 DEF TypeOK
    <2>4. Written(e, q.step, q.found)
      BY <2>2, RouteStart DEF Emitted
    <2>5. Written(e, delivery[d].step, delivery[d].found)'
      BY <2>1, <2>3, <2>4 DEF Written, Recorded, Logged
    <2>6. QED
      BY <2>1, <2>2, <2>3, <2>5 DEF Advances
  <1>7. ASSUME NEW d \in Deliveries, HandlerStep(d) \/ LookupEmpty(d)
        PROVE  \E e : Advances(d, e)
    <2>1. PICK e, next : Comes(d, e, next)
      BY DEF Comes
    <2>2. Advances(d, e)
      BY <1>7, <2>1, LookupAdvances, SaveAdvances, PaymentAdvances, HistoryAdvances
      DEF HandlerStep
    <2>3. QED
      BY <2>2
  <1>8. ASSUME NEW d \in Deliveries, HandlerFails(d)
        PROVE  acked' = acked /\ \A x \in Deliveries : delivery'[x] \in {delivery[x], Idle}
    BY <1>1, <1>8 DEF HandlerFails, Event400, TypeOK
  <1>9. ASSUME NEW z \in Sessions, Customer(z) \/ Checkout(z)
         PROVE  UNCHANGED <<delivery, acked>>
    BY <1>9 DEF Customer, CardDeclined, CardCharged, SessionExpires, FailedChargeEdited,
       StripeMoves, Checkout, createCheckoutSession, requestPayment, SavePayment, SaveHistory,
       CheckoutFails
  <1>10. ASSUME NEW r \in Refunders, Refund(r)  PROVE UNCHANGED <<delivery, acked>>
    BY <1>10 DEF Refund, createRefund, StripeRefunds, SaveRefund, RefundFails
  <1>11. ASSUME UNCHANGED vars \/ \E o \in Orders : OrderAppears(o)
         PROVE  UNCHANGED <<delivery, acked>>
    BY <1>11 DEF vars, OrderAppears
  <1>12. Kept
    <2> HIDE DEF Kept
    <2>1. CASE \E d \in Deliveries : Webhook(d)
      BY <1>4, <1>5, <1>6, <1>7, <1>8, <2>1 DEF Webhook
    <2>2. CASE UNCHANGED <<delivery, acked>>
      BY <1>4, <2>2
    <2>3. CASE Restart
      <3>1. acked' = acked /\ \A x \in Deliveries : delivery'[x] \in {delivery[x], Idle}
        BY <2>3 DEF Restart
      <3>2. QED
        BY <1>4, <3>1
    <2>4. QED
      BY <1>9, <1>10, <1>11, <2>1, <2>2, <2>3 DEF Next, Service
  <1>13. QED
    BY <1>1, <1>12 DEF AckInv

\* An event is answered with 200 only when what it is there to write has been
\* written, whatever else is going on, and it stays written.
THEOREM AckedAreDurable == Spec => []AckedIsDurable
  <1>1. Init => IInv /\ SavedOnce /\ AckInv
    <2>1. Init => IInv /\ SavedOnce
      BY InitIInv DEF Init, SavedOnce
    <2>2. Init => AckInv
      BY DEF Init, AckInv, HistorySavedOnce, ProgressMade, AckedIsDurable
    <2>3. QED
      BY <2>1, <2>2
  <1>2. IInv /\ SavedOnce /\ AckInv /\ [Next]_vars => (IInv /\ SavedOnce /\ AckInv)'
    BY StepIInv, SavedOnceStep, AckStep
  <1>3. AckInv => AckedIsDurable
    BY DEF AckInv
  <1>4. QED
    BY <1>1, <1>2, <1>3, PTL DEF Spec

=============================================================================

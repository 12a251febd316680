------------------------------ MODULE Payment ------------------------------
(***************************************************************************)
(* payment-service: checkout sessions, the Stripe webhook, refunds.        *)
(*                                                                         *)
(* A payment is written to two MongoDB collections, `payments' and         *)
(* `paymenthistories', one document of each per Stripe checkout session;   *)
(* the webhook keeps a third one, `webhookevents', one document per Stripe *)
(* object.  Every await of a handler is a point where another request runs *)
(* or the process dies, so a handler is a sequence of steps, one per await.*)
(*                                                                         *)
(* Stripe is external.  It delivers each event until the endpoint answers  *)
(* 200, in any order, more than once, and several deliveries may be in     *)
(* flight at the same time.                                                *)
(***************************************************************************)
EXTENDS Naturals

CONSTANTS
  Orders,       \* order ids
  Sessions,     \* ids of Stripe checkout sessions
  NoSession,    \* "no such session"
  NoOrder,      \* "no such order"
  Deliveries,   \* webhook requests the service may be handling at a time
  Refunders,    \* refund requests the service may be handling at a time
  Subscribed,   \* the event types the endpoint is subscribed to
  MaxFaults     \* bound: failed calls and restarts in a behaviour

EventTypes ==
  { "checkout.session.completed", "checkout.session.expired",
    "payment_intent.created", "payment_intent.succeeded",
    "payment_intent.payment_failed",
    "charge.succeeded", "charge.updated", "charge.failed" }

\* Order ids are Mongo ObjectIds and session ids Stripe's "cs_..." ids.
ASSUME IdsDisjoint == /\ NoSession \notin Sessions
                      /\ NoOrder \notin Orders \cup Sessions
                      /\ Orders \cap Sessions = {}
ASSUME SubscribedAssumption == Subscribed \subseteq EventTypes
ASSUME MaxFaultsAssumption == MaxFaults \in Nat

VARIABLES
  billable,     \* orders with a document and a usable total (order-service's)
  stripe,       \* Stripe's own record of each session
  checkout,     \* how far the request that created the session has come
  payment,      \* payments.status by session, "absent" if there is none
  history,      \* paymenthistories.status by session
  first,        \* the oldest payment of each order
  webhook,      \* webhookevents.processingStatus by Stripe object
  delivery,     \* the webhook requests being handled
  acked,        \* events answered with 200
  refund,       \* the refund requests being handled
  refunds,      \* number of refund documents of each order
  faults        \* failed calls and restarts so far

records == <<payment, history, first>>
vars == <<billable, stripe, checkout, payment, history, first, webhook,
          delivery, acked, refund, refunds, faults>>

Status == {"absent", "pending", "completed", "failed"}
ProcessingStatus == { "none", "created", "complete", "expired", "succeeded", "failed",
                      "requires_payment_method" }
Objects == {"session", "intent", "charge", "failedCharge"}

Session == [state: {"none", "open", "complete", "expired"}, order: Orders \cup {NoOrder},
            declined: BOOLEAN, edited: BOOLEAN, refunded: BOOLEAN]
Event == [type: EventTypes, session: Sessions,
          status: {"complete", "expired", "succeeded", "failed", "requires_payment_method"}]
Idle == [step |-> "idle"]
Delivery == [step: {"lookup", "payment", "history", "save"}, event: Event, found: BOOLEAN]
Refunding == [step: {"stripe", "save"}, order: Orders, session: Sessions]

TypeOK ==
  /\ billable \subseteq Orders
  /\ stripe \in [Sessions -> Session]
  /\ checkout \in [Sessions -> {"none", "payment", "history", "done"}]
  /\ payment \in [Sessions -> Status]
  /\ history \in [Sessions -> Status]
  /\ first \in [Orders -> Sessions \cup {NoSession}]
  /\ webhook \in [Sessions -> [Objects -> ProcessingStatus]]
  /\ delivery \in [Deliveries -> Delivery \cup {Idle}]
  /\ acked \subseteq Event
  /\ refund \in [Refunders -> Refunding \cup {Idle}]
  /\ refunds \in [Orders -> Nat]
  /\ faults \in 0..MaxFaults

Init ==
  /\ billable = {}
  /\ stripe = [s \in Sessions |-> [state |-> "none", order |-> NoOrder, declined |-> FALSE,
                                   edited |-> FALSE, refunded |-> FALSE]]
  /\ checkout = [s \in Sessions |-> "none"]
  /\ payment = [s \in Sessions |-> "absent"]
  /\ history = [s \in Sessions |-> "absent"]
  /\ first = [o \in Orders |-> NoSession]
  /\ webhook = [s \in Sessions |-> [x \in Objects |-> "none"]]
  /\ delivery = [d \in Deliveries |-> Idle]
  /\ acked = {}
  /\ refund = [r \in Refunders |-> Idle]
  /\ refunds = [o \in Orders |-> 0]
  /\ faults = 0

Fault == faults < MaxFaults /\ faults' = faults + 1

----------------------------------------------------------------------------
(* The environment: orders appear in the shared `orders' collection.       *)

OrderAppears(o) ==
  /\ o \notin billable
  /\ billable' = billable \cup {o}
  /\ UNCHANGED <<stripe, checkout, records, webhook, delivery, acked, refund, refunds, faults>>

----------------------------------------------------------------------------
(* Stripe: what a customer and an operator of the dashboard do to a        *)
(* session.  A declined card leaves the session open for another attempt.  *)

StripeMoves(s, new) ==
  /\ stripe' = [stripe EXCEPT ![s] = new]
  /\ UNCHANGED <<billable, checkout, records, webhook, delivery, acked, refund, refunds, faults>>

CardDeclined(s) == /\ stripe[s].state = "open" /\ ~stripe[s].declined
                   /\ StripeMoves(s, [stripe[s] EXCEPT !.declined = TRUE])
CardCharged(s) == /\ stripe[s].state = "open"
                  /\ StripeMoves(s, [stripe[s] EXCEPT !.state = "complete"])
SessionExpires(s) == /\ stripe[s].state = "open"
                     /\ StripeMoves(s, [stripe[s] EXCEPT !.state = "expired"])
\* The description or metadata of the failed charge is edited.
FailedChargeEdited(s) == /\ stripe[s].declined /\ ~stripe[s].edited
                         /\ StripeMoves(s, [stripe[s] EXCEPT !.edited = TRUE])

\* What Stripe's record of the session must be for event e to exist.
Occurred(e) ==
  LET c == stripe[e.session] IN
  \/ e.type = "checkout.session.completed" /\ e.status = "complete" /\ c.state = "complete"
  \/ e.type = "checkout.session.expired" /\ e.status = "expired" /\ c.state = "expired"
  \/ /\ e.type = "payment_intent.created" /\ e.status = "requires_payment_method"
     /\ c.declined \/ c.state = "complete"
  \/ /\ e.type \in {"payment_intent.succeeded", "charge.succeeded", "charge.updated"}
     /\ e.status = "succeeded" /\ c.state = "complete"
  \/ e.type = "payment_intent.payment_failed" /\ e.status = "requires_payment_method" /\ c.declined
  \/ e.type = "charge.failed" /\ e.status = "failed" /\ c.declined
  \/ e.type = "charge.updated" /\ e.status = "failed" /\ c.edited

Emitted == {e \in Event : e.type \in Subscribed /\ Occurred(e)}

----------------------------------------------------------------------------
(* StripePayService: a checkout session is created at Stripe, then its     *)
(* payment is saved, then its history.                                     *)

createCheckoutSession(s, o) ==
  /\ stripe[s].state = "none"
  /\ o \in billable
  /\ stripe' = [stripe EXCEPT ![s] = [stripe[s] EXCEPT !.state = "open", !.order = o]]
  /\ checkout' = [checkout EXCEPT ![s] = "payment"]
  /\ UNCHANGED <<billable, records, webhook, delivery, acked, refund, refunds, faults>>

\* The second route to a session repeats the first one line by line.
requestPayment(s, o) == createCheckoutSession(s, o)

\* Fault: the payment is saved without its status.
SavePayment_NoStatus(s) ==
  /\ checkout[s] = "payment"
  /\ checkout' = [checkout EXCEPT ![s] = "history"]
  /\ first' = [first EXCEPT ![stripe[s].order] = IF @ = NoSession THEN s ELSE @]
  /\ UNCHANGED <<billable, stripe, payment, history, webhook, delivery, acked, refund, refunds, faults>>

SavePayment(s) ==
  /\ checkout[s] = "payment"
  /\ checkout' = [checkout EXCEPT ![s] = "history"]
  /\ payment' = [payment EXCEPT ![s] = "pending"]
  /\ first' = [first EXCEPT ![stripe[s].order] = IF @ = NoSession THEN s ELSE @]
  /\ UNCHANGED <<billable, stripe, history, webhook, delivery, acked, refund, refunds, faults>>

SaveHistory(s) ==
  /\ checkout[s] = "history"
  /\ checkout' = [checkout EXCEPT ![s] = "done"]
  /\ history' = [history EXCEPT ![s] = "pending"]
  /\ UNCHANGED <<billable, stripe, payment, first, webhook, delivery, acked, refund, refunds, faults>>

\* A save rejects: the caller gets an error, what was written stays.
CheckoutFails(s) ==
  /\ checkout[s] \in {"payment", "history"}
  /\ Fault
  /\ checkout' = [checkout EXCEPT ![s] = "done"]
  /\ UNCHANGED <<billable, stripe, records, webhook, delivery, acked, refund, refunds>>

\* The two updates by session id: a miss writes nothing and returns null.
updatePaymentStatus(id, status) ==
  payment' = [s \in Sessions |-> IF s = id /\ payment[s] # "absent" THEN status ELSE payment[s]]
updatePaymentHistory(id, status) ==
  history' = [s \in Sessions |-> IF s = id /\ history[s] # "absent" THEN status ELSE history[s]]

\* Only the oldest payment of an order is ever looked at.
extractPaymentDetails(o) == first[o]
getPayStatus(o) ==
  LET s == extractPaymentDetails(o) IN
  IF s = NoSession THEN [paymentStatus |-> "NotFound", paymentID |-> NoSession]
                   ELSE [paymentStatus |-> payment[s], paymentID |-> s]

----------------------------------------------------------------------------
(* StripeWebhookService.  Each handler is the order in which it awaits:    *)
(* "lookup" (Stripe's API), "save" (webhookevents), "payment" and          *)
(* "history" (the two updates of updatePaymentStatus), "done" (200).       *)

handlePaymentIntentCreated == [start |-> "save", save |-> "done"]
handlePaymentIntentSucceeded ==
  [start |-> "lookup", lookup |-> "save", save |-> "payment", payment |-> "history", history |-> "done"]
handleChargeSucceeded ==
  [start |-> "lookup", lookup |-> "save", save |-> "payment", payment |-> "history", history |-> "done"]
handleChargeUpdated ==
  [start |-> "lookup", lookup |-> "payment", payment |-> "history", history |-> "done"]
handleSuccessfulPayment ==
  [start |-> "payment", payment |-> "history", history |-> "save", save |-> "done"]
handleExpiredPayment == [start |-> "save", save |-> "done"]
\* The failure handlers write `payments' only.
handleFailedPayment == [start |-> "payment", payment |-> "save", save |-> "done"]
handleFailedCharge ==
  [start |-> "lookup", lookup |-> "payment", payment |-> "save", save |-> "done"]

handleWebhookEvent(type) ==
  IF type = "checkout.session.completed" THEN handleSuccessfulPayment
  ELSE IF type = "checkout.session.expired" THEN handleExpiredPayment
  ELSE IF type = "payment_intent.created" THEN handlePaymentIntentCreated
  ELSE IF type = "payment_intent.succeeded" THEN handlePaymentIntentSucceeded
  ELSE IF type = "payment_intent.payment_failed" THEN handleFailedPayment
  ELSE IF type = "charge.succeeded" THEN handleChargeSucceeded
  ELSE IF type = "charge.updated" THEN handleChargeUpdated
  ELSE handleFailedCharge

FailureTypes == {"payment_intent.payment_failed", "charge.failed"}

\* Faults: the status of an updated charge is not looked at; the status is
\* spelt as the schema spells it; the payment is looked up by session id.
WrittenStatus_ByType(e) == IF e.type \in FailureTypes THEN "failed" ELSE "completed"
WrittenStatus_Paid(e) == IF e.status = "failed" THEN "failed" ELSE "paid"
WrittenKey_Session(e) == e.session

\* The status a handler writes, and the id it looks the payment up with: the
\* failure handlers pass the order id where a session id is expected.
WrittenStatus(e) ==
  IF e.type \in FailureTypes \/ e.status = "failed" THEN "failed" ELSE "completed"
WrittenKey(e) == IF e.type \in FailureTypes THEN stripe[e.session].order ELSE e.session

\* The object whose id is the stripeEventId of the saved event.
ObjectOf(e) ==
  IF e.type \in {"checkout.session.completed", "checkout.session.expired"} THEN "session"
  ELSE IF e.type \in {"charge.succeeded", "charge.updated"} THEN "charge"
  ELSE IF e.type = "charge.failed" THEN "failedCharge" ELSE "intent"

\* Only charge events' handlers check the session list before saving.
ChecksListLast(e) == e.type = "payment_intent.succeeded"
ListsSessions(e) == e.type \in {"payment_intent.succeeded", "charge.succeeded", "charge.updated"}

Event200(d) == /\ delivery' = [delivery EXCEPT ![d] = Idle]
               /\ acked' = acked \cup {delivery[d].event}
Event400(d) == /\ delivery' = [delivery EXCEPT ![d] = Idle]
               /\ UNCHANGED acked
\* Go on to the handler's next await, or answer; the mails (payment_done,
\* payment_failed) are emitted in the step that answers 200.
Proceed(d, found) ==
  LET next == handleWebhookEvent(delivery[d].event.type)[delivery[d].step] IN
  IF next = "done" THEN Event200(d)
  ELSE /\ delivery' = [delivery EXCEPT ![d] =
            [step |-> next, event |-> delivery[d].event, found |-> found]]
       /\ UNCHANGED acked

Deliver(d, e) ==
  /\ delivery[d] = Idle
  /\ e \in Emitted
  /\ delivery' = [delivery EXCEPT ![d] =
       [step |-> handleWebhookEvent(e.type).start, event |-> e, found |-> TRUE]]
  /\ UNCHANGED <<billable, stripe, checkout, records, webhook, acked, refund, refunds, faults>>

\* paymentIntents.retrieve and checkout.sessions.list.
LookupDone(d) ==
  /\ delivery[d].step = "lookup"
  /\ Proceed(d, TRUE)
  /\ UNCHANGED <<billable, stripe, checkout, records, webhook, refund, refunds, faults>>

\* Stripe lists no session yet.
LookupEmpty(d) ==
  /\ delivery[d].step = "lookup"
  /\ ListsSessions(delivery[d].event)
  /\ Fault
  /\ IF ChecksListLast(delivery[d].event) THEN Proceed(d, FALSE) ELSE Event400(d)
  /\ UNCHANGED <<billable, stripe, checkout, records, webhook, refund, refunds>>

saveOrUpdateWebhookEvent(d) ==
  /\ delivery[d].step = "save"
  /\ LET e == delivery[d].event IN
       webhook' = [webhook EXCEPT ![e.session] = [webhook[e.session] EXCEPT ![ObjectOf(e)] =
                     IF e.type = "payment_intent.created" THEN "created" ELSE e.status]]
  /\ IF delivery[d].found THEN Proceed(d, TRUE) ELSE Event400(d)
  /\ UNCHANGED <<billable, stripe, checkout, records, refund, refunds, faults>>

\* First half of the webhook's updatePaymentStatus, and the failure
\* handlers' only update: a miss is remembered, not thrown.
UpdatePayment(d) ==
  /\ delivery[d].step = "payment"
  /\ LET e == delivery[d].event IN
       /\ updatePaymentStatus(WrittenKey(e), WrittenStatus(e))
       /\ Proceed(d, e.type \in FailureTypes \/ payment[e.session] # "absent")
  /\ UNCHANGED <<billable, stripe, checkout, history, first, webhook, refund, refunds, faults>>

\* Fault: a miss is logged and nothing is thrown.
UpdateHistory_MissIgnored(d) ==
  /\ delivery[d].step = "history"
  /\ LET e == delivery[d].event IN updatePaymentHistory(e.session, WrittenStatus(e))
  /\ Proceed(d, TRUE)
  /\ UNCHANGED <<billable, stripe, checkout, payment, first, webhook, refund, refunds, faults>>

\* Second half: the history is updated, then either miss throws.
UpdateHistory(d) ==
  /\ delivery[d].step = "history"
  /\ LET e == delivery[d].event IN
       /\ updatePaymentHistory(e.session, WrittenStatus(e))
       /\ IF delivery[d].found /\ history[e.session] # "absent" THEN Proceed(d, TRUE) ELSE Event400(d)
  /\ UNCHANGED <<billable, stripe, checkout, payment, first, webhook, refund, refunds, faults>>

\* Any awaited call rejects: handleWebhook answers 400.
HandlerFails(d) ==
  /\ delivery[d] # Idle
  /\ Fault
  /\ Event400(d)
  /\ UNCHANGED <<billable, stripe, checkout, records, webhook, refund, refunds>>

----------------------------------------------------------------------------
(* RefundStripeService.createRefund: read the payment, refund at Stripe,   *)
(* save the refund document.                                               *)

\* Fault: the refund document is saved without asking Stripe.
createRefund_SaveFirst(r, o) ==
  /\ refund[r] = Idle
  /\ extractPaymentDetails(o) # NoSession
  /\ refund' = [refund EXCEPT ![r] =
       [step |-> "save", order |-> o, session |-> extractPaymentDetails(o)]]
  /\ UNCHANGED <<billable, stripe, checkout, records, webhook, delivery, acked, refunds, faults>>

createRefund(r, o) ==
  /\ refund[r] = Idle
  /\ extractPaymentDetails(o) # NoSession
  /\ refund' = [refund EXCEPT ![r] =
       [step |-> "stripe", order |-> o, session |-> extractPaymentDetails(o)]]
  /\ UNCHANGED <<billable, stripe, checkout, records, webhook, delivery, acked, refunds, faults>>

\* Stripe refuses a session that was not paid or was refunded in full.
StripeRefunds(r) ==
  /\ refund[r].step = "stripe"
  /\ LET s == refund[r].session IN
     IF stripe[s].state = "complete" /\ ~stripe[s].refunded
     THEN /\ stripe' = [stripe EXCEPT ![s] = [stripe[s] EXCEPT !.refunded = TRUE]]
          /\ refund' = [refund EXCEPT ![r] = [refund[r] EXCEPT !.step = "save"]]
     ELSE /\ refund' = [refund EXCEPT ![r] = Idle]
          /\ UNCHANGED stripe
  /\ UNCHANGED <<billable, checkout, records, webhook, delivery, acked, refunds, faults>>

SaveRefund(r) ==
  /\ refund[r].step = "save"
  /\ refunds' = [refunds EXCEPT ![refund[r].order] = @ + 1]
  /\ refund' = [refund EXCEPT ![r] = Idle]
  /\ UNCHANGED <<billable, stripe, checkout, records, webhook, delivery, acked, faults>>

RefundFails(r) ==
  /\ refund[r] # Idle
  /\ Fault
  /\ refund' = [refund EXCEPT ![r] = Idle]
  /\ UNCHANGED <<billable, stripe, checkout, records, webhook, delivery, acked, refunds>>

\* The process dies: every request in flight is lost, MongoDB is not.
Restart ==
  /\ Fault
  /\ checkout' = [s \in Sessions |-> IF checkout[s] = "none" THEN "none" ELSE "done"]
  /\ delivery' = [d \in Deliveries |-> Idle]
  /\ refund' = [r \in Refunders |-> Idle]
  /\ UNCHANGED <<billable, stripe, records, webhook, acked, refunds>>

----------------------------------------------------------------------------
Customer(s) == CardDeclined(s) \/ CardCharged(s) \/ SessionExpires(s) \/ FailedChargeEdited(s)
Checkout(s) ==
  \/ \E o \in Orders : createCheckoutSession(s, o) \/ requestPayment(s, o)
  \/ SavePayment(s) \/ SaveHistory(s) \/ CheckoutFails(s)
HandlerStep(d) ==
  LookupDone(d) \/ saveOrUpdateWebhookEvent(d) \/ UpdatePayment(d) \/ UpdateHistory(d)
Webhook(d) ==
  (\E e \in Emitted : Deliver(d, e)) \/ HandlerStep(d) \/ LookupEmpty(d) \/ HandlerFails(d)
Refund(r) ==
  (\E o \in Orders : createRefund(r, o)) \/ StripeRefunds(r) \/ SaveRefund(r) \/ RefundFails(r)

Service ==
  \/ \E s \in Sessions : Customer(s) \/ Checkout(s)
  \/ \E d \in Deliveries : Webhook(d)
  \/ \E r \in Refunders : Refund(r)
  \/ Restart

Next == Service \/ \E o \in Orders : OrderAppears(o)

Spec == Init /\ [][Next]_vars

\* Awaited calls return, and Stripe goes on delivering a session's events as
\* long as one of them has not been answered with 200.
Redeliver(s) ==
  \E d \in Deliveries, e \in Emitted \ acked : e.session = s /\ Deliver(d, e)
Fairness ==
  /\ \A d \in Deliveries : WF_vars(HandlerStep(d))
  /\ \A s \in Sessions : SF_vars(Redeliver(s))

FairSpec == Spec /\ Fairness

----------------------------------------------------------------------------
(* Properties *)

Settled == {"completed", "failed"}
HistoryTypes == { "checkout.session.completed", "payment_intent.succeeded",
                  "charge.succeeded", "charge.updated" }

\* No order of webhook deliveries, duplicates included, makes the service
\* believe in money it did not get: either collection says "completed" only
\* for a session Stripe charged, "failed" only after a failed charge was
\* edited (the one event whose handler can write it).
StatusJustified ==
  \A s \in Sessions :
    /\ "completed" \in {payment[s], history[s]} => stripe[s].state = "complete"
    /\ "failed" \in {payment[s], history[s]} => stripe[s].edited

\* An event answered with 200 is never delivered again, so by then everything
\* its handler is there to write has been written, whatever failed in between:
\* both records of the session are settled (a record that is not there yet
\* makes the handler answer 400), and the event is in the log.
AckedIsDurable ==
  \A e \in acked :
    /\ e.type \in HistoryTypes => {payment[e.session], history[e.session]} \subseteq Settled
    /\ e.type # "charge.updated" => webhook[e.session][ObjectOf(e)] # "none"

\* The failure events of a declined attempt may arrive, or be delivered again,
\* after a later attempt was charged: they never undo a completed payment.
LateFailureHarmless ==
  [][\A s \in Sessions :
       payment[s] = "completed" /\ ~stripe[s].edited => payment'[s] = "completed"]_vars

\* Concurrent refund requests and restarts between Stripe's refund and the
\* save leave at most one refund document of an order, with a refund of its
\* oldest payment behind it; a later payment of the order is never refunded.
RefundsBacked ==
  /\ \A o \in Orders :
       refunds[o] # 0 => /\ refunds[o] = 1
                        /\ first[o] # NoSession
                        /\ stripe[first[o]].refunded
  /\ \A s \in Sessions : stripe[s].refunded => first[stripe[s].order] = s

\* A charged session whose payment was saved ends up completed, although its
\* events may come before the payment, and calls and processes fail, even when
\* the history was never saved and every delivery is answered with 400.  (Only
\* an edited failed charge may say otherwise for good.)
PaidIsRecorded ==
  \A s \in Sessions :
    (stripe[s].state = "complete" /\ payment[s] # "absent")
      ~> (payment[s] = "completed" \/ stripe[s].edited)

\* What the API documents: the payment is known to be "failed or success", so
\* an acknowledged failure event leaves a payment that is no longer pending.
FailureRecorded ==
  \A e \in acked : e.type \in FailureTypes => payment[e.session] # "pending"
=============================================================================

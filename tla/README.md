# A formal model of the food-order services

TLA+ modules, TLC configurations and TLAPS proofs for the services of this
repository: orders, payments, carts, deliveries, the accounts of customers,
partners, managers and administrators, and the records around them. The models
are translated from the TypeScript source; `PROJECT.json` maps every
definition to the lines it stands for.

## 1. The system

Ten services share one MongoDB, Redis, Kafka, RabbitMQ (mails) and gRPC
(tokens, payment status). None takes a lock or a transaction that spans two
awaits, so **every await of a handler is a point where any other request runs
or the process dies**. That is the granularity of all models here.

| service | state it keeps | operations that change it | talks to |
|---|---|---|---|
| cart | `carts`, one document per user | add, remove, get (refreshes prices), delete, apply and remove coupon | reads `restaurants`, `menuitems`, `coupons` |
| order | `orders` | createOrder (from a cart), placeOrder (cash, online), cancelOrder (60 s) | reads `carts`, `restaurants`, addresses; gRPC `getPayStatus`; emits `isFoodAvailable`, `newOrder`, `orderCreated`, `orderConfirmed` |
| payment | `payments`, `paymenthistories`, `webhookevents`, `refunds` | two routes to a Stripe session, eight webhook events, refund | reads `orders`; Stripe; emits `payment_done`, `payment_failed` |
| delivery | `deliveries`, partners, one-time passwords, log-ins; Redis locations; sockets and timers in memory | newOrder, hand-over, in-transit timer, delivered; locations; registration, log-in, passwords | reads `orders`; consumes `newOrder`, `handOvered`; emits `deliveryPartnerResponse` |
| restaurant | `restaurants`, `menuitems`, `coupons`, complaints, managers; manager sockets in memory | creation and update of each; question "is the food available" over a socket with a 30 s time-out; password reset | consumes `isFoodAvailable`; emits `handOvered` |
| auth | sessions in MongoDB, cached in Redis | generate, refresh, log out, log out everywhere | gRPC for all |
| user | users, addresses, one-time passwords and reset tokens in Redis | sign-up with OTP, password reset, profile, addresses | gRPC tokens; emits mails |
| admin | admins, sessions, OTPs, access-token keys; flags of managers, restaurants and users | login, verify, refresh, log out, reset; validate, block, delete | MongoDB of the others |
| notification | none | sends mails | RabbitMQ |
| media-rating | ratings, one per order; files on S3 | insert, upload | gRPC |

### What is hard, and what makes it correct

* **payment**: Stripe repeats and reorders events, several may be handled at a
  time, and events may arrive before the records they are about. A payment
  must be completed only if Stripe charged it, an event must not be answered
  with 200 before its effect is written, a late failure must not undo a
  success, and a charged payment must in the end be completed. A refund
  document must have a refund behind it, once.
* **order**: placements, their catch blocks and cancellations of one order
  interleave without a lock, and a payment status is used after it may have
  changed. The fields of an order must tell one story; it is booked as paid
  only if it was; the cancellation window closes.
* **cart**: read-modify-write of whole documents. The bill must be that of the
  items in the cart and of the way to them, and a discount the one that the cart's
  coupon came to when it was applied.
* **sign-up**: a password in Redis, a user in MongoDB and a session of another
  service, without a transaction: a failure deletes the user again. Who was told
  of a success has an account, who was told of a failure has none, and a count
  of wrong passwords runs out.
* **mailed codes and tokens** (five services): checked in one await and removed
  in a later one, kept in one or two stores, and running out meanwhile. A
  code whose use was acknowledged must not be accepted again.
* **accounts**: documents are read, looked at and saved two awaits later. The
  password last told must be the one stored.
* **sessions**: MongoDB and Redis written one after the other. An exchanged
  session is marked; only what is documented brings a used one back into the
  cache; after an administrator's log-out no list is shown for an older token.
* **deliveries**: offsets are committed by hand, before the work; timers live in
  memory. An event makes one delivery at most, blocks no other, and a
  delivery that was picked up moves on.
* **sockets**: answers of managers carry no correlation id, a time-out leaves
  its listener behind, one answer reaches all listeners; locations are written
  after the status was read.
* **administration, complaints, records**: a decision is read, compared, written
  and reported in four steps; a manager is told of a new status some lookups after
  it was stored; uniqueness is looked up before an insert, or left to an index.

The complete list, each hazard with its line and the properties that cover it,
is `hazards` in `PROJECT.json`.

## 2. Modules

| module | what it is | source |
|---|---|---|
| `Payment` | sessions, webhook, refunds, with Stripe as environment | `payment-service/src/api/{stripe_pay,webhook,refund}` |
| `Orders` | createOrder, placeOrder, cancelOrder; the payment service's answers are free | `order-service/src/order/order.service.ts` |
| `Checkout` | extends `Payment` and takes `Orders` by INSTANCE: each supplies what the other leaves free | both, with `grpc/payment` |
| `PaidOrders` | what the two promise: an order is booked as paid only after a charge | abstract |
| `Cart` | the cart of one user, its bill, coupons | `cart-service/src/cart/cart.service.ts`, `common` |
| `SignUp` | sendOtp, sign-up and the token call behind it | `user-service/src/api/auth/{auth,token}.service.ts`, `auth-service/src/auth/{auth,session}.service.ts` |
| `Faults`, `Handlers`, `OneTimeCodes` | failed calls and restarts; requests split at their awaits; secrets that are drawn and mailed | what the services have in common |
| `PartnerAccounts` | registration, one-time passwords, log-in, log-out, passwords of delivery partners | `delivery-service/src/modules/{auth,otp,token,deliveryPartner}` |
| `ManagerAccounts` | sign-up, update and reset of restaurant managers | `restaurant-service/src/manager/manager.service.ts` |
| `AdminLogin` | log-in with a one-time password, verification, refresh, log-out of an administrator; the lists that look for the key of a token | `admin-service/src/api/auth/auth.service.ts`, `auth/guards` |
| `AdminReset` | the reset token of an administrator: MongoDB, Redis, and its own expiry | the same |
| `CustomerReset` | the reset token of a customer | `user-service/src/api/auth` |
| `Sessions` | sessions of a customer: log-in, refresh, log-out, cached look-up | `auth-service/src/auth`, `auth-service/src/redis` |
| `SingleUse` | what a one-time secret promises | abstract |
| `Accounts` | the six above side by side; refines `SingleUse` | |
| `ManagerGateway` | questions to a manager over sockets, answers, time-outs | `restaurant-service/src/manager/modules/gateway` |
| `Dispatch` | the Kafka consumer of the delivery service, deliveries and their timers | `delivery-service/src/modules/delivery` |
| `Tracking` | sockets of partners, their locations and status | `delivery-service/src/modules/{tracking,redis,mid-module}` |
| `Backoffice` | decisions of administrators on managers, restaurants and users; creation of restaurants; customers who remove their profile | `admin-service/src/api/{manager,user}`, `restaurant-service/src/restaurant`, `user-service/src/api/profile` |
| `Complaints` | complaints and their status | `restaurant-service/src/manager/modules/complain-service` |
| `Records` | addresses, menu items, coupons, ratings | `user-service/src/api/address`, `restaurant-service/src/restaurant`, `media-rating-service/src` |
| `Operations` | the six above side by side | |
| `PaymentProofs`, `OrdersProofs`, `CheckoutProofs`, `CartProofs`, `SignUpProofs`, `AccountsProofs`, `SecretsProofs`, `OperationsProofs` | theorems | |
| `MCPayment`, `MCOrders`, `MCCheckout`, `MCCart`, `MCSignUp`, `MCAccounts`, `MCOperations` | instances for TLC | |

A handler that is running is a record in `delivery`, `request` or `refund`
(an idle slot is `Idle`): its `step` names the await it is waiting for, the
other fields are the local variables that are used after it. An action is what
runs from one await to the next. A request that is refused without a write is
no step. `\* Fault:` definitions (`..._NoWindow`, `..._Reset`, ...) are
deliberately wrong versions of the definition that follows; no specification
uses them. They are there to see that a property notices.

### Payment

`stripe[s]` is Stripe's own record of a session and the only thing that says
what really happened. `handleX` definitions give each handler as the order of
its awaits: `handleSuccessfulPayment` writes payment, history, then the event
log; `handleChargeSucceeded` looks up at Stripe, writes the log, then the
payment. `Proceed` walks along it. `UpdatePayment` and `UpdateHistory` are the
two halves of the webhook's `updatePaymentStatus`: a miss of the first is
remembered (`found`) and thrown after the second. `Emitted` is the set of
events that may be delivered in a state, any number of times: messages are never
consumed, so duplication, reordering and delay need no actions of their own.
An event type's payload is reduced to the session, and to the status where a
handler looks at it. `HandlerFails`, `CheckoutFails`, `RefundFails` and
`Restart` are failed awaits and process deaths, at most `MaxFaults` of them.
`first[o]` is the oldest payment of the order, which is what
`findOne({ orderId })` returns.

### Orders

An order is its four mutable fields. `PaymentMoves` lets the payment service
answer anything at any time. `updateOrder` is one `$set` of all four.
`cancelOrder` keeps what mongoose remembers: `seen`, the status that was read,
because `save()` sends only what differs from it. Time is `now`, in units of
which the window is `CancelWindow`. `Dispatch` is the moment the `newOrder`,
`orderCreated` and `orderConfirmed` messages are handed over.
Not told apart: the items and addresses that `createOrder` copies (a failed lookup
leaves no trace). Not in the model: invoices, queries.

### Checkout and PaidOrders

`Checkout` shares state the way the code does: `Payment` sees the documents of
`orders`, `Orders` sees `getPayStatus` of the payment service. A step of
one leaves the other's state alone. It is checked that the composition
implements both component specifications (`PaymentSpec`, `OrdersSpec`), so that
what is proved of each one alone holds in the system; and that it implements
`PaidOrders`, where `paid` is derived from Stripe and `booked` from the
documents. `Payment` is extended and not instantiated because `CheckoutProofs`
extends `PaymentProofs`, and uses its invariants as they are.

### Cart

One user's document, the whole-document snapshots the handlers hold while they
wait, and the partial `$set` each of them sends: by user id (`UpdateCart`), by user id with
upsert (`UpsertCart`), by document id (`UpdateCartById`, `DeleteEmptied`).
Document ids matter to the last two only; `NewIds` keeps an id from being used
again while a request remembers it, so `|Requests| + 1` ids are as good as
infinitely many. Amounts are integers in 1/10000 of a rupee, so that 5 % tax and
percentage discounts are exact for up to two coupons in a row (`BoundAssumption`
lets `MaxApplied` be no more); a menu has finitely many items (`MenuAssumption`);
`Math.round` is `Round`. The charge of a delivery is computed from the distance
to the restaurant as `calculateDeliveryCharges` does, rounded up to whole rupees;
the distance itself (a haversine formula) is given. It is taken from the default
coordinates, always: those of the user are never in Redis (see below), so only the
restaurant's location changes it (`RestaurantMoves`). What floating point adds to
amounts is not modelled. The menu and the coupons' validity may change at any time.

The terms of a coupon are any integers, and its restaurant may be missing
(`CouponRecord`): nothing in the form, the schema or `createCoupon` bounds them, so
a coupon may be worth nothing, or less. What is left out: percentages that are not
whole, and the change of a coupon's terms, which are read when it is applied and
never again, so that a changed coupon is a different one of `Coupons`. Clients are
assumed to send an item together with the restaurant it belongs to;
`addToCartService` does not compare the two. Its upsert has no unique index behind it:
two that create the cart at the same time may leave the user two carts, of which the
later requests find one; the model has one cart.

### SignUp

The three Redis keys of an e-mail are `otp`, `attempts` and `blocked`;
`expiring` says whether the count has a time to live, which `incr` does not
give it. Keys with a time to live may disappear at any time. A request of
user-service and the `GenerateToken` call it started are two processes:
`call[u]` goes on when the request has given up (`TokensFail`) or
died (`Restart`), and may find the user deleted (`FindUser`). A document's id is
chosen when its request begins (`Fresh`): MongoDB makes it later, but nobody can
see it before. `outcome[u]` is what the client was told, `"unknown"` when the
service died or could not delete the user; it is read by the properties only.
An e-mail stands for its phone number as well, and a code for any six characters.

### Accounts: the services that keep accounts

All six modules are built from `Handlers` (`Start`, `Continue`, `Finish`,
`Failure`, `Restarted`) and, but for `Sessions`, from `OneTimeCodes`: `Draw`
takes a code that was never drawn, `Acknowledge` is the moment its user is told,
`fate` remembers both. That two draws differ is assumed; the code relies on it
as well. What goes on in one service does not touch another, so `Accounts` is
the disjunction of the six, with `service` chosen at the start: the properties
are stated once for all, and one run checks them.

* `PartnerAccounts`: `partner` and `active` are the document, `otp` and
  `loginKey` the keys in Redis, `tokens` the JWTs a partner has. Documents are
  saved by Mongoose, which sends only assigned fields: `SaveActive` and
  `SaveInactive` write a flag and no password, although the whole document was
  read two awaits earlier.
* `ManagerAccounts`: sign-up finishes at a unique index, `updateManager` is one
  call, a reset saves the password and removes the token in one `save()`.
* `AdminLogin`: `verifyOtp` removes the code, writes the key of the access token,
  stores a session, then answers; `logout` deletes sessions by a field they do not
  have, lists the keys, and deletes them. `entered` and `left` are the
  tokens handed out and those that were there when a finished log-out began.
  `getAll` is one of the two lists that look for the key of a token
  (`verifyJwtToken`); `late` remembers that the token was in `left` when the request
  came. `AdminGuard` looks at the token alone, as in the code: a log-out changes
  nothing for it.
* `AdminReset`: time matters, because MongoDB and Redis each give the token an
  hour of their own (`Life`), and the token is a JWT with an hour of its own.
* `CustomerReset`: as many tokens as are asked for, each deleted after its use.
* `Sessions`: a session is created in MongoDB, then cached; a refresh looks in
  Redis, marks, deletes, creates the next. `putBack` remembers what a refused
  refresh cached again (`getSession` re-caches what it finds in MongoDB,
  used or not).

`SingleUse` is their common abstract specification: `valid` secrets, `spent`
ones, and `holding`, the secret each running request was accepted with. Several
requests may be accepted with one secret before the first is told; none after.
`Accounts!Secret` maps it: a code is valid if a store still has it and
its time is not over, spent when acknowledged, held between the check and the
removal.

### Operations: what goes on around orders and restaurants

Six modules side by side again, `part` being the one at work. They share no
state, except that `Dispatch` reads the located partners, which it takes to
be any set (`LocatedChanges`).

* `ManagerGateway`: `asked[q]` is the socket a question was emitted to,
  `listening` the calls whose listener is on its socket, after a time-out too,
  `heard[q]` the first answer that came after the question. `orderResponse` runs every
  listener of its socket, as there is no correlation id. Who asks is left open: the
  only caller never finds the manager it looks for.
* `Dispatch`: `committed` is the group's offset, `position` what the consumer has
  taken; a restart goes back to `committed`. `Then` gives each handler as the
  order of its awaits, the commit first. `timers[o]` counts the running
  `setTimeout`s, `abandoned` those a crash took. `broadcastRequest` sends nothing, as
  it finds no socket for any partner.
* `Tracking`: an update of a location reads the partner's status, then writes
  `geoadd`; `sawOnline` are the running updates during which the partner was
  ONLINE. `rejected` are the connections whose acceptance of an order was answered
  with an error, which is all that can happen to one.
* `Backoffice`: `flagged` are the flags in the documents, `seen` the requests
  during which what they report was so. The update of a user is not awaited
  (`unawaited`), and lands after the answer or fails. A customer's `remove` marks
  the document without a look at it, and waits for that.
* `Complaints`: `stored[r]` are the statuses the complaint of a request was given
  since the request began. After the update come two lookups (`EmitSteps`); the
  second finds no restaurant, whatever is stored, so there is no action that sends
  the notification.
* `Records`: a lookup, then an insert that a unique index may refuse
  (`createCoupon`, `createAddress`), an update of a coupon's code that meets the
  same index; menu items have none. A rating is inserted without a lookup, and only
  the index on the order is in its way.

## 3. Runs

`expect: pass`:

| run | asks | instance |
|---|---|---|
| `payment_races` | `StatusJustified`, `AckedIsDurable`, `RefundsBacked`, `LateFailureHarmless` with two webhook requests and two refunds at a time | 1 order, 2 sessions, 2 deliveries, 2 refunders, 1 fault, the events that write `payments` from both outcomes of a charge; `Bounded` |
| `payment_events` | `TypeOK`, and `PaidIsRecorded` under `FairSpec`, with all eight event types | 1 session, 1 delivery, 1 fault, no symmetry |
| `orders` | `TypeOK`, `Coherent`, `DispatchedFirst` | 1 order, 2 requests, window 1, time to 2, 1 fault |
| `checkout_races` | `CompletedOrderWasPaid`, `PaidRecordKept`, `CancelWindowCloses` | 1 order, 1 session, 2 requests, 1 delivery, time to 1 |
| `checkout_faults` | `PaymentSpec`, `OrdersSpec`, `PromiseKept` | 1 order, 1 session, 1 request, 1 fault in each service, a refund |
| `cart_bill` | `TypeOK`, `TotalAddsUp`, `DiscountFollowsCoupon`, one request at a time | 3 items of 2 restaurants, 2 prices, quantity 2; 2 coupons, one for any restaurant and one worth nothing |
| `cart_races` | `LinesAddUp`, two requests and a coupon | 2 items, quantity 1 |
| `sign_up` | `TypeOK`, `SuccessIsDurable`, `FailureIsUndone`, `CounterExpires` | 1 e-mail, 2 codes, 2 documents, 2 requests, 2 faults, 4 wrong codes |
| `accounts` | `TypeOK`, `SecretsServeOnce`, `PasswordsAsTold`, `ListsRefuseLoggedOut`, `ExchangedIsMarked`, `UsedIsNotCached` | 1 partner, 1 manager, 2 codes, 2 passwords, 2 tokens, 3 sessions, 2 requests (1 of `AdminReset`), an hour in 2 parts, time to 5, 1 fault |
| `operations` | `TypeOK`, `AnsweredOnce`, `QuestionSettles`, `CreatedOnce`, `EventsTaken`, `PickedUpMovesOn`, `OnlyOnlineLocated`, `DecidedBeforeReply`, `OwnersWereValid`, `UpdatedWasStored`, `KeysAreUnique` | 2 sockets, 2 questions; 2 orders, 2 events in each topic; 1 partner; 1 manager, restaurant, user, complaint; 2 statuses, addresses, coupons, codes; 2 ratings of one order; 2 requests, 2 faults; no symmetry |

What each shows, in a sentence, is its `about` in `PROJECT.json`.

Bounds. Orders never interact, sessions only through `first`, carts not at all,
e-mails, customers, managers and administrators of the account services neither;
so one of each (two sessions where `first` matters) shows what any number
would. Two concurrent requests are the smallest number that interleaves, and
with one fault or restart any handler may be left half done and repaired by
another. `MaxTime` goes one past the window in `orders`; in `AdminReset` it lets a
token be signed, mailed again within its hour and outlived twice. `MaxQuantity`,
`MaxApplied`, `MaxAttempts` and `MaxEvents` cap counters that grow otherwise; the
third wrong code blocks, and one more may be in flight; two events are the fewest
of which one can be ahead of the other. Two documents are what two sign-ups of
one e-mail need, two codes what a code that replaces another needs, three
sessions a refresh of a refresh; two faults let a call fail and its repair too.
In `payment_races` the constraint `Bounded` keeps two deliveries at a time to the
states with one session and no refund, and allows only one, of the completed event,
once there are two sessions or a refund: the two questions share no state but
the payment documents, and both are asked. `ResetRequests` is one request in
`accounts` (the other services have two), because with two `SecretsServeOnce` is
false of `AdminReset`: a forgotPassword that has read the document before a
reset writes the used token to Redis after it. The theorem modules remove the
bounds on the properties they prove.

`expect: violation` (each is a finding in `PROJECT.json`):

| run | the code does | documented |
|---|---|---|
| `payment_failure` | failure handlers look a session up by order id; the payment stays pending | status tells "failed or success" |
| `orders_cancel_reply` | replies 200 although the order ends up not cancelled | 200: "Order cancelled successfully" |

`CHECK_DEADLOCK FALSE` is said of the runs of `Payment`, of `sign_up`, `accounts`
and `operations`: with one session, expired or refunded, there is nothing left to
do, nor when the only e-mail is taken and its keys have run out, when every
code is drawn, or when the topics are full and their events are handled.

### Smaller disagreements

The models contain these; no run is kept for them.

* *payment, order*: the webhook writes the status `completed` where the schema's
  comment has `paid`; an order paid in its second session is answered as pending
  (`findOne` returns the first, `stripe.pay.service.ts:163`,
  `order.controller.ts:53`); cancelling an unknown order replies 500 where 404 is
  documented; a placement whose payment failed replies 201 without a body, because
  `Failed` is compared with the stored `failed`.
* *cart*: a coupon that is removed leaves its rounding in the total; a fixed
  discount can take the total below zero when items are removed; two coupons
  applied at a time both succeed; a removal writes the old items into a cart that
  was made of another restaurant's in between; two requests that create the cart may
  leave two; `getNearbyRestaurants` writes the user's coordinates under
  `address:undefined:coordinates` (its caller passes the arguments in another order,
  `restaurant.controller.ts:74`), so the cart never finds them.
* *sessions*: README.md:224 promises refresh-token rotation, and the check for used
  sessions is commented out (`auth.service.ts:34`); after a log-out, a refresh is
  refused once, which caches the session again, and the next one succeeds
  (`auth.swagger.ts:57`); a refreshed access token has neither `sub` nor `role`
  (`auth.swagger.ts:42`); `logoutAll` throws, since nothing sets `req.user`
  (`auth.controller.ts:57`); a sign-up that was undone leaves its session.
* *administrators*: after "Successfully logged out" (`auth.swagger.ts:60`) the access
  token is still good for everything behind `AdminGuard` (`admin.guard.ts:17`: blocking,
  deleting, validating) until it runs out; only the lists of managers and users
  ask Redis for its key. A refresh is always refused (a string is compared with an
  ObjectId); log-out deletes sessions by `AdminId`, a field they do not have; the
  JWT in a mailed reset token may be over before its hour in the stores is
  (`auth.service.ts:417`); blocking a user replies before it writes.
* *partners*: the time to live of a one-time password is `5*60*1000` and passed as
  seconds (`otpConstants.ts:18`, `redisService.ts:359`), like that of log-ins, of
  locations and of nearby restaurants.
* *managers*: `updateManager` stores a password as it came, so the manager can no
  longer log in; a reset removes a newer token that was mailed meanwhile; the check
  that a manager has no restaurant looks at a field that does not exist
  (`restaurant.service.ts:70`); menu items and coupons are created whoever manages the restaurant.
* *complaints*: the customer is never notified of a new status. The restaurant is looked
  for by `managerId` as a string, through the driver, where an ObjectId is stored
  (`complainservice.ts:124`, `restaurant.schema.ts:34`), and the user by
  `user.userId` of the caller (`complaincontroller.ts:66`), which is not the
  customer and which the token of a manager does not have (it has `sub`).
* *gateway*: `WsManagerGuard` is not used, and `handleDisconnect` removes no entry.
* *deliveries*: `createDelivery` passes `''` as the partner's id
  (`delivery.service.ts:69`), which the schema refuses; `DELIVERED` is overwritten by the
  in-transit timer or by a later hand-over; a disconnected partner stays in the map
  and in `availableDrivers`, because maps are keyed by fresh ObjectIds
  (`tracking.gateway.ts:114,185`), so the offer of an order reaches nobody; an acceptance is
  answered with an error always (`toHexString` of a string, `tracking.gateway.ts:466`);
  order-service listens to `deliveryPatenerResponse`, which nobody emits.
* *addresses*: update and deletion look for an address whose id is the customer's,
  and find none.

## 4. Fairness

`payment_events` (`FairSpec`). `WF(HandlerStep)`: an awaited call of a
running handler returns or rejects. `SF(Redeliver(s))`: Stripe goes on
delivering a session's events as long as one of them was not answered with 200;
strong, because between two attempts every slot may be busy. Nothing is assumed
of customers, or of the requests that create sessions (one may stop after the
payment was saved: the property holds without the history).

`operations` (`Spec`). `WF(Timeout(q))` for each question: the 30 s timer of a
process that runs fires. `WF(Handle)`: the consumer's loop takes the next
event and its awaits return or reject. `WF(InTransit(o))`: a timer that was set
fires. Nothing is assumed of managers (who may never answer), of connections,
partners or producers.

In both, faults are finitely many (`MaxFaults`), as a service that restarts for
ever does nothing else. The other runs need no fairness.

## 5. Proofs

For any number of orders, sessions, accounts, concurrent requests and faults.

`PaymentProofs`: `TypeCorrect`, `StatusIsJustified`, `LateFailureIsHarmless`,
`RefundsAreBacked`, `AckedAreDurable`.
`StatusJustified` is not inductive: a handler that is about to write carries
its reason with it. The invariant is

    IInv == TypeOK /\ DeliveryOnRoute /\ DeliveryOccurred /\ StatusJustified

where `DeliveryOnRoute` says that a handler is at an await of its own route (so
the failure handlers are never at "history"), and `DeliveryOccurred` that the
event in its hands exists at Stripe, which `UpdatesGrow` keeps true because
Stripe's records only move forward. `FailureMisses` is the lemma that makes
late failures harmless: they look for a session id and hold an order id, and the two are
disjoint (`IdsDisjoint`). `LateFailureIsHarmless` also needs that a session's
payment is saved once (`SavedOnce`).

`RefundsAreBacked` rests on `RefundInv`: a session keeps its order and an order
its oldest payment (`Opened`, `FirstOfOrder`), so all refund requests of an order
ask Stripe for the same session, which says yes once, and only the request it said
yes to comes to its save (`RefundsInFlight`).

`AckedAreDurable` rests on `AckInv`: what a handler has written by the time it comes
to an await (`ProgressMade`), from the order of the awaits on its route (`RouteOrder`),
and that it stays written: a settled record can only be overwritten by another
outcome, because the saves of a session, which write "pending", come before
(`SavedOnce`, `HistorySavedOnce`).

`OrdersProofs`: `TypeCorrect`, `AlwaysCoherent`, `AlwaysDispatchedFirst`. The
invariant adds to the three properties that every write in flight is one of the
four coherent ones and was dispatched if it has to be (`WritesSound`), and that
a cancellation in flight is of an order that exists (`CancelsExisting`).

`CheckoutProofs`: `CompletedWerePaid`, `ImplementsPayment`, `ImplementsOrders`,
`PaidRecordIsKept`, `WindowCloses`, `KeepsPromise`. The composition is a behaviour of
`Payment`, so the invariants of `PaymentProofs` hold of it. On top of them `BothInv`
follows what order-service believes of a payment: an answer that says "completed" is of a
charged session of the order (`AnswerPaid`), so is what a request is about to write
(`WritePaid`), and so is what a document says. It stays true while the request
waits, because Stripe's records only move forward (`Grows`). That an answer is never the
refusal that `placeOrder` would cancel an order for is part of it: a document is
"cancelled" only by `cancelOrder`. For `ImplementsOrders` each step of
payment-service changes one answer at a time, which is what the environment of `Orders`
may do (`AnswersMove`); for `KeepsPromise` each step is one of `PaidOrders` or a stutter.

`CartProofs`: `TypeCorrect`, `LinesAlwaysAddUp`, for any number of requests, and
`TotalAlwaysAddsUp`, `DiscountAlwaysFollows` for one request after the other
(`OneRequest`, as in the run `cart_bill`; of two at a time both are false: a coupon that
is removed writes the total of the items it read over that of the items there are, and an
item that is removed writes back the discount of a coupon removed meanwhile).

The item total is a fold over a set. What the provers cannot do is to use an induction theorem, whose predicate is an operator;
`MinimalSubset` states the induction over the subsets of a finite set as the existence
of a minimal member of a non-empty set of subsets, and from it follow that the sums
exist, that they do not depend on the set they are taken over (`SumsAgree`), and that they
are integers. With many requests at a time (`LinesInv`), a write that is under way
adds up in itself, and items, total and tax are written together. With one
(`BillInv`), what was read is what is stored, and what is about to be written leaves a right
bill (`Bill`): a total that adds up, and no discount without a coupon. Of the terms of a
coupon the proofs use that they are integers. `DiscountAlwaysFollows` is about steps, so
`AsRead` also says of a write that is under way that it leaves the discount as it is,
unless it is the write of a coupon (`KeepsDiscount`).

`SignUpProofs`: `TypeCorrect`, `SuccessKept`, `FailureKept`, `CounterAlwaysExpires`.
Sign-ups of one e-mail do not disturb each other because each works on a document of its
own (`OwnDocument`), the only one it may delete; a success rests on a call that has
returned, and a call returns after both stores have its session
(`ReturnedIsCached`). `CounterExpires` is inductive, given the types: who counts
the first wrong code is the one who will set its time to live.

The two modules about `Accounts` prove their theorems of its `Spec`, where
`service` is chosen at the start: an invariant `I` of one service becomes
`service = "..." => I`, and the steps of the other services leave `service` as it
is, so that nothing is to be proved of them.

* `AccountsProofs`, partners and managers: `AlwaysAsTold`, `CodesServeOnce`. The
  last one is the refinement of `SingleUse` for partners. `DeleteOtp` deletes
  whatever code the e-mail has, not the one that was compared; that removes the
  right one because a code is stored for one e-mail (`OwnCodes`), and one that is
  stored was never used (`UsedIsGone`). Each step is then an action of `SingleUse`
  or a stutter (`Kept`).
* `AccountsProofs`, sessions of customers: `AlwaysMarked`, `NeverCachedAgain`.
  Only the request that created a session knows it until it is handed out
  (`HandedFirst`, `OwnSession`), so the late `cache` of a log-in cannot bring
  back one that somebody has marked; what is exchanged is marked before
  (`MarkedFirst`).
* `AccountsProofs`, the log-in of an administrator: `ListsAlwaysRefuse`. A token gets its
  key before it is handed out (`NewTokens`), so that no token that was there when a
  log-out listed the keys can get one later (`OldTokens`, `ListedOrGone`); a request that
  comes after the log-out then looks for a key that is gone (`LateIsRefused`). One that
  came before may still be shown its list.
* `SecretsProofs`, all six: `AllTypesCorrect`, `AllServeOnce`. The second is
  `SecretsServeOnce`, the refinement of `SingleUse` whichever service is at work.
  In each of them what is stored was drawn and not used, so a new code is never a
  used one, and a use is acknowledged when nothing stores the code any more, for a
  reason of the service's own: a manager's token is in one document, an
  administrator's one-time password is removed before anything else, a customer's token
  is the key that is deleted. An administrator's reset token is in MongoDB and in Redis;
  the theorem assumes that the requests about it come one at a time (`OneReset`, as
  in the run `accounts`), for the reason given under the bounds. Of the other services
  it assumes nothing.

`OperationsProofs`: `TypeCorrect`, `AlwaysCreatedOnce`, `PickedUpHasTimer`,
`AlwaysAnsweredOnce`, `AlwaysOnlineLocated`, `AlwaysDecidedBeforeReply`,
`AlwaysOwnersWereValid`, `AlwaysUpdatedWasStored`, `AlwaysKeysUnique`. Each part
has an invariant of its own (`DispatchInv`, `GatewayInv`, `TrackingInv`, `OfficeInv`,
`ComplaintInv`, `RecordInv`), which holds whatever part is at work, or while it
is, if it handles HTTP requests. `DispatchInv` counts: the deliveries of an order against
its events among the committed ones, but for the one in hand while its delivery is to be
made (`Made`), and its timers against the committed hand-overs (`Started`), which is
what bounds them; the handler's position is never behind the commits (`InOrder`), and
at a write the event has been committed (`Control`). `PickedUpHasTimer` (from `Timed`)
is the safety half of `PickedUpMovesOn`: a delivery that is picked up has a running
timer, or one a fault took. `GatewayInv` says that a pending call listens and has heard
nothing; `OfficeInv` that a request about to save or to reply is in `seen`.

The constants' assumptions are the named ASSUMEs of the modules; TLC evaluates
them in every run.

TLC has checked each inductive invariant on the run of its component before it was proved.

Only model-checked: liveness (`PaidIsRecorded`, `QuestionSettles`,
`EventsTaken`, `PickedUpMovesOn`), which TLAPS cannot do. Every invariant and every
action property of a passing run, and every refinement, is a theorem too.

## 6. Not modelled, and what could come next

* Left out for good: notification-service (formats and sends mails); the uploads of
  media-rating-service; payment-service's transaction history and the other queries;
  filters, swagger, DTOs and configuration (what a form allows and how an error is
  worded); the changes of the profiles of customers and partners, which are single
  writes that nothing else reads; floating-point rounding; the amounts at Stripe; the
  distance between two places. Guards that only look at a token are left out too; one
  that decides by what was stored is part of the actions behind it.
* Not in a model because the code never gets there: what follows from the
  acceptance of an order by a partner, the messages of a broadcast, the answer of the
  partner as order-service would take it, the notification of a complaint's
  customer, the clearing of a cart after `orderCreated` (its handler is on a provider, where Nest registers none).
* In a model, but caught by no property: an update of a cart that is lost to another
  (`LinesAddUp` says only that the bill is that of the items left); a manager invalidated
  between the check and the save of a restaurant (`OwnersWereValid` asks for valid at
  some time of the request); blocking and unblocking of a user applied in either order,
  after the answers; a status of a complaint that was stored although the manager was
  told otherwise; a partner listed who went offline during the update. The code does all
  of these, and `hazards` says so at each.
* Next: carts and `createOrder` together; what is left of a bill's rounding when
  carts are changed by several requests at a time; the safety halves of `EventsTaken` and
  `QuestionSettles`.

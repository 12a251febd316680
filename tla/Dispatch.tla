------------------------------ MODULE Dispatch ------------------------------
(***************************************************************************)
(* The delivery service as a consumer of Kafka: an order that is to be     *)
(* delivered (newOrder), and one that the restaurant has handed over       *)
(* (handOvered).  It handles one event at a time and commits the offset    *)
(* itself, before anything else; an event whose handling fails is passed   *)
(* by.  Each topic is taken to have one partition.                         *)
(*                                                                         *)
(* deliveries[o] are the documents of an order, oldest first: an update    *)
(* is of the first one.  That an order is found is left open, and so is    *)
(* what the schema says of the document: as coded it has an empty string   *)
(* where an id is wanted, which Mongoose refuses (CreateRefused).  The     *)
(* offer to partners nearby reaches nobody (Tracking), and no partner is   *)
(* ever assigned.                                                          *)
(***************************************************************************)
EXTENDS Faults, Sequences, FiniteSets

CONSTANTS
  Orders,
  Partners,
  MaxEvents   \* bound: events in a topic

VARIABLES
  log,         \* Kafka: the events in each topic
  committed,   \* Kafka: how many of them the group has committed
  position,    \* how many of them the consumer has taken
  topic,       \* the topic of the event that is being handled
  step,        \* what its handler does next
  deliveries,  \* MongoDB: the status of each order's documents
  timers,      \* how many timers run for each order
  abandoned,   \* orders whose timer a restart or a failed call has taken
  answered,    \* orders with a deliveryPartnerResponse of failure
  located      \* Redis: availableDrivers, which Tracking writes

kafka == <<log, committed>>
handler == <<position, topic, step>>
store == <<deliveries, timers, abandoned, answered>>
vars == <<kafka, handler, store, located, faults>>

Topics == {"newOrder", "handOvered"}
DeliveryStatus == {"PENDING", "PICKED_UP", "IN_TRANSIT", "DELIVERED"}

\* The awaits of the two handlers, in order.

\* Fault: the offset is committed at the end, when the work is done.
createDelivery_CommitLast ==
  [idle |-> "findOrder", findOrder |-> "create", create |-> "findNearestDriver",
   findNearestDriver |-> "commit", commit |-> "idle"]

createDelivery ==
  [idle |-> "commit", commit |-> "findOrder", findOrder |-> "create",
   create |-> "findNearestDriver", findNearestDriver |-> "idle"]

handleOrderPickup == [idle |-> "commit", commit |-> "pickUp", pickUp |-> "idle"]

Then == [newOrder |-> createDelivery, handOvered |-> handleOrderPickup]

TypeOK ==
  /\ log \in [Topics -> Seq(Orders)]
  /\ \A t \in Topics : Len(log[t]) <= MaxEvents
  /\ \A t \in Topics : committed[t] \in 0..Len(log[t]) /\ position[t] \in 0..Len(log[t])
  /\ DOMAIN committed = Topics /\ DOMAIN position = Topics
  /\ topic \in Topics
  /\ step \in {"idle", "commit", "findOrder", "create", "findNearestDriver", "pickUp",
               "respond", "commitAgain"}
  /\ deliveries \in [Orders -> Seq(DeliveryStatus)]
  /\ timers \in [Orders -> 0..MaxEvents]
  /\ abandoned \subseteq Orders
  /\ answered \subseteq Orders
  /\ located \subseteq Partners
  /\ faults \in 0..MaxFaults

Init ==
  /\ log = [t \in Topics |-> <<>>]
  /\ committed = [t \in Topics |-> 0]
  /\ position = [t \in Topics |-> 0]
  /\ topic = "newOrder"
  /\ step = "idle"
  /\ deliveries = [o \in Orders |-> <<>>]
  /\ timers = [o \in Orders |-> 0]
  /\ abandoned = {}
  /\ answered = {}
  /\ located = {}
  /\ faults = 0

\* The order whose event is being handled.
order == log[topic][position[topic]]

----------------------------------------------------------------------------
(* Events: order-service tells of an order, possibly more than once; the   *)
(* restaurant's manager hands one over.                                    *)

Emit(t, o) ==
  /\ Len(log[t]) < MaxEvents
  /\ log' = [log EXCEPT ![t] = Append(@, o)]
  /\ UNCHANGED <<committed, handler, store, located, faults>>

newOrder(o) == Emit("newOrder", o)
handleOrderHandover(o) == Emit("handOvered", o)

Take(t) ==
  /\ step = "idle"
  /\ position[t] < Len(log[t])
  /\ position' = [position EXCEPT ![t] = @ + 1]
  /\ topic' = t
  /\ step' = Then[t].idle
  /\ UNCHANGED <<kafka, store, located, faults>>

Goes(next) == step' = next /\ UNCHANGED <<position, topic>>
Goes_On == Goes(Then[topic][step])

\* Fault: an event whose handling failed is taken again.
Thrown_Again == step' = "idle" /\ position' = [position EXCEPT ![topic] = @ - 1] /\ UNCHANGED topic

\* What a handler throws is logged by the framework, which takes the next event.
Thrown == Goes("idle")

\* createDelivery has a catch block that commits once more before it throws.
Throws == IF topic = "newOrder" THEN Goes("commitAgain") ELSE Thrown

\* Fault: the offset after the next event is committed.
Commits_Further == committed' = [committed EXCEPT ![topic] = position[topic] + 1]

Commits == committed' = [committed EXCEPT ![topic] = position[topic]]

Commit ==
  /\ step = "commit"
  /\ Commits
  /\ Goes_On
  /\ UNCHANGED <<log, store, located, faults>>

CommitAgain ==
  /\ step = "commitAgain"
  /\ Commits
  /\ Thrown
  /\ UNCHANGED <<log, store, located, faults>>

----------------------------------------------------------------------------
(* newOrder *)

\* There is no such order, or an address has no coordinates.
FindOrder ==
  /\ step = "findOrder"
  /\ Goes_On \/ Goes("respond")
  /\ UNCHANGED <<kafka, store, located, faults>>

Create ==
  /\ step = "create"
  /\ deliveries' = [deliveries EXCEPT ![order] = Append(@, "PENDING")]
  /\ Goes_On
  /\ UNCHANGED <<kafka, timers, abandoned, answered, located, faults>>

\* The schema refuses the document: a field is missing.
CreateRefused ==
  /\ step = "create"
  /\ Throws
  /\ UNCHANGED <<kafka, store, located, faults>>

\* A socket is looked for by an id that is a new object, under which none is kept:
\* nobody is told of the delivery, and the handler goes on.
broadcastRequest == Goes_On

\* assignDeliveryPartner: those who are located may be too far.
FindNearestDriver ==
  /\ step = "findNearestDriver"
  /\ \E near \in SUBSET located : IF near = {} THEN Goes("respond") ELSE broadcastRequest
  /\ UNCHANGED <<kafka, store, located, faults>>

\* deliveryPartnerResponse, with success: false
Respond ==
  /\ step = "respond"
  /\ answered' = answered \cup {order}
  /\ Throws
  /\ UNCHANGED <<kafka, deliveries, timers, abandoned, located, faults>>

----------------------------------------------------------------------------
(* The status of a delivery *)

Exists(o) == deliveries[o] # <<>>
PickedUp(o) == Exists(o) /\ deliveries[o][1] = "PICKED_UP"
SetStatus(o, status) == deliveries' = [deliveries EXCEPT ![o][1] = status]

\* Fault: a delivery that was picked up before gets no timer.
PickUp_FirstTime ==
  /\ step = "pickUp"
  /\ Exists(order)
  /\ SetStatus(order, "PICKED_UP")
  /\ timers' = [timers EXCEPT ![order] = IF deliveries[order][1] = "PENDING" THEN @ + 1 ELSE @]
  /\ abandoned' = abandoned \ {order}
  /\ Goes_On
  /\ UNCHANGED <<kafka, answered, located, faults>>

\* Whatever the status was: a timer is started for it to move on.
PickUp ==
  /\ step = "pickUp"
  /\ Exists(order)
  /\ SetStatus(order, "PICKED_UP")
  /\ timers' = [timers EXCEPT ![order] = @ + 1]
  /\ abandoned' = abandoned \ {order}
  /\ Goes_On
  /\ UNCHANGED <<kafka, answered, located, faults>>

PickUpNotFound ==
  /\ step = "pickUp"
  /\ ~Exists(order)
  /\ Throws
  /\ UNCHANGED <<kafka, store, located, faults>>

\* After ten seconds, whatever the status is by then.
InTransit(o) ==
  /\ timers[o] > 0
  /\ SetStatus(o, "IN_TRANSIT")
  /\ timers' = [timers EXCEPT ![o] = @ - 1]
  /\ UNCHANGED <<kafka, handler, abandoned, answered, located, faults>>

\* A request of a partner, of any partner, at any time.
handleOrderDelivered(o) ==
  /\ Exists(o)
  /\ SetStatus(o, "DELIVERED")
  /\ UNCHANGED <<kafka, handler, timers, abandoned, answered, located, faults>>

----------------------------------------------------------------------------
(* Failures *)

\* An awaited call of the handler fails.
HandlerFails ==
  /\ step # "idle"
  /\ Fault
  /\ IF step = "commitAgain" THEN Thrown ELSE Throws
  /\ UNCHANGED <<kafka, store, located>>

\* MongoDB stores the status, and its answer is lost: no timer is started.
PickUpUnanswered ==
  /\ step = "pickUp"
  /\ Exists(order)
  /\ Fault
  /\ SetStatus(order, "PICKED_UP")
  /\ abandoned' = abandoned \cup {order}
  /\ Throws
  /\ UNCHANGED <<kafka, timers, answered, located>>

\* The timers are gone, and the consumer goes on from what is committed.  So it
\* does too when the write of a timer fails: nobody catches that.
Restart ==
  /\ Fault
  /\ position' = committed
  /\ topic' = "newOrder"
  /\ step' = "idle"
  /\ timers' = [o \in Orders |-> 0]
  /\ abandoned' = abandoned \cup {o \in Orders : timers[o] > 0}
  /\ UNCHANGED <<kafka, deliveries, answered, located>>

----------------------------------------------------------------------------
Handle ==
  \/ \E t \in Topics : Take(t)
  \/ Commit \/ CommitAgain
  \/ FindOrder \/ Create \/ CreateRefused \/ FindNearestDriver \/ Respond
  \/ PickUp \/ PickUpNotFound

Dispatching ==
  \/ \E o \in Orders : newOrder(o) \/ handleOrderHandover(o) \/ InTransit(o) \/ handleOrderDelivered(o)
  \/ Handle \/ HandlerFails \/ PickUpUnanswered \/ Restart

LocatedChanges ==
  /\ located' \in SUBSET Partners
  /\ UNCHANGED <<kafka, handler, store, faults>>

Next == Dispatching \/ LocatedChanges

\* The consumer's loop runs, and so do timers.
Fairness == WF_vars(Handle) /\ \A o \in Orders : WF_vars(InTransit(o))

Spec == Init /\ [][Next]_vars /\ Fairness

----------------------------------------------------------------------------
(* Properties *)

\* An event makes one delivery at most, although events are taken again after
\* a restart and a commit may fail: an order has no more deliveries than the
\* topic has events of it.
CreatedOnce ==
  \A o \in Orders :
    Len(deliveries[o]) <= Cardinality({i \in 1..Len(log["newOrder"]) : log["newOrder"][i] = o})

\* No event blocks the ones behind it: each is taken, whatever fails.
EventsTaken ==
  \A t \in Topics : \A i \in 1..MaxEvents : Len(log[t]) >= i ~> position[t] >= i

\* A delivery that was picked up is not left there, however its pick-ups, its
\* timers and its arrival come after each other, unless a restart or a failed
\* call takes its timer.
PickedUpMovesOn ==
  \A o \in Orders : PickedUp(o) ~> ~PickedUp(o) \/ o \in abandoned
=============================================================================

-------------------------- MODULE OperationsProofs --------------------------
(***************************************************************************)
(* The parts of Operations, for any number of sockets, questions, partners,*)
(* managers, complaints and requests.  The parts share next to no state,   *)
(* so each has an invariant of its own: those of the gateway and of the    *)
(* tracking hold whatever part is at work, those of the three parts that   *)
(* handle HTTP requests hold while they are at work.                       *)
(*                                                                         *)
(* The one of the dispatch counts.  An event that is taken again after a   *)
(* restart has not been committed, so it has made no delivery: the         *)
(* deliveries of an order are counted against its events among the         *)
(* committed ones, but for the one in hand while its delivery is still to  *)
(* be made (Made); and its timers against the committed pick-ups           *)
(* (Started).                                                              *)
(***************************************************************************)
EXTENDS Operations, FiniteSetTheorems, SequenceTheorems, TLAPS

\* A call that is pending listens, and nothing was heard since it was sent.
Pending(q) ==
  /\ question[q] = "none" => asked[q] = NoSocket /\ heard[q] = "none"
  /\ question[q] = "pending" => q \in listening /\ heard[q] = "none"
  /\ question[q] \in {"approved", "refused"} => heard[q] = question[q]
GatewayInv ==
  /\ question \in [Questions -> {"none", "pending", "lost"} \cup Gateway!Settled]
  /\ asked \in [Questions -> Sockets \cup {NoSocket}]
  /\ heard \in [Questions -> {"none", "approved", "refused"}]
  /\ connected \in Sockets \cup {NoSocket}
  /\ \A q \in Questions : Pending(q)

\* An update that will write a location has seen that its partner was ONLINE.
Watched(s) ==
  /\ s \in open \/ update[s] # "idle" => owner[s] # NoPartner
  /\ update[s] = "findStatus" /\ status[owner[s]] = "ONLINE" => s \in sawOnline
  /\ update[s] = "geoadd" => s \in sawOnline
TrackingInv ==
  /\ status \in [Partners -> Tracking!DeliveryPartnerStatus \cup {"removed"}]
  /\ owner \in [Sockets -> Partners \cup {NoPartner}]
  /\ open \subseteq Sockets
  /\ update \in [Sockets -> Tracking!Updates]
  /\ \A s \in Sockets : Watched(s)

\* A request that replies, or will create a restaurant, has seen what it says.
OfficeInv ==
  /\ request \in [Requests -> Office!Deciding \cup Office!Creating \cup {Office!Idle}]
  /\ \A r \in Requests : request[r].step \in {"reply", "findRestaurant", "save"} => r \in seen
OwnerType == restaurantOwner \in [Restaurants -> Managers \cup {NoManager}]

\* A request that is past its update has stored what it will answer.
ComplaintInv ==
  /\ request \in [Requests -> Complaint!Updating \cup {Complaint!Idle}]
  /\ stored \in [Requests -> SUBSET (Status \cup {"pending"})]
  /\ Complaint!UpdatedWasStored

\* What a write finds free is still free.
RecordInv ==
  /\ request \in [Requests -> Records!Request \cup {Records!Idle}]
  /\ address \in [Addresses -> Places \cup {"none"}]
  /\ coupon \in [Coupons -> Codes \cup {"none"}]
  /\ rating \in [Ratings -> Rated \cup {"none"}]
  /\ KeysAreUnique

DispatchTypes ==
  /\ log \in [Dispatch!Topics -> Seq(Orders)]
  /\ committed \in [Dispatch!Topics -> Nat] /\ position \in [Dispatch!Topics -> Nat]
  /\ topic \in Dispatch!Topics
  /\ deliveries \in [Orders -> Seq(Dispatch!DeliveryStatus)]
  /\ timers \in [Orders -> Nat]

\* What is committed has been taken, and what has been taken is in the topic.
InOrder == \A t \in Dispatch!Topics : committed[t] <= position[t] /\ position[t] <= Len(log[t])

\* The step of a handler tells the topic and how far the commits are.
Control ==
  /\ step \in {"idle", "commit", "findOrder", "create", "findNearestDriver", "pickUp",
               "respond", "commitAgain"}
  /\ step = "commit" => committed[topic] < position[topic]
  /\ step \in {"findOrder", "create", "findNearestDriver", "respond", "commitAgain"}
       => topic = "newOrder"
  /\ step = "pickUp" => topic = "handOvered"
  /\ step \in {"findOrder", "create"} => committed[topic] = position[topic]
  /\ step # "idle" => position[topic] > 0

\* The events of an order that may have made a delivery.
InHand == step \in {"findOrder", "create"}
Done(o) ==
  {i \in 1..committed["newOrder"] :
     log["newOrder"][i] = o /\ ~(InHand /\ i = position["newOrder"])}
Made == \A o \in Orders : Len(deliveries[o]) <= Cardinality(Done(o))

\* A delivery that was picked up has a timer, or has lost one.
Timed ==
  \A o \in Orders :
    /\ Dispatch!PickedUp(o) => timers[o] > 0 \/ o \in abandoned
    /\ timers[o] > 0 => Dispatch!Exists(o)

DispatchInv == DispatchTypes /\ InOrder /\ Control /\ Made /\ Timed

\* An order's timers were started by events of pick-ups that are committed, and
\* not by the one in hand.
Started ==
  \A o \in Orders :
    /\ timers[o] <= committed["handOvered"]
    /\ step = "pickUp" => timers[o] < committed["handOvered"]

----------------------------------------------------------------------------
(* The gateway *)

\* A call that is sent waits, and has heard nothing.
LEMMA AskingKeeps ==
  ASSUME GatewayInv, NEW q \in Questions, Gateway!handleIsFoodAvailable(q)
  PROVE  GatewayInv' /\ Gateway!Answered
  BY OperationsAssumption
     DEF GatewayInv, Pending, Gateway!handleIsFoodAvailable, Gateway!Answered, Gateway!Settled

\* A message of the manager settles the calls that wait for it.
LEMMA AnswerKeeps ==
  ASSUME GatewayInv, NEW s \in Sockets, NEW answer \in {"approved", "refused"},
         Gateway!orderResponse(s, answer)
  PROVE  GatewayInv' /\ Gateway!Answered
  <1> DEFINE given == Gateway!Listeners(s)
  <1>1. /\ question' = [q \in Questions |->
                          IF q \in given /\ question[q] = "pending" THEN answer ELSE question[q]]
        /\ heard' = [q \in Questions |->
                       IF asked[q] = s /\ heard[q] = "none" THEN answer ELSE heard[q]]
        /\ listening' = listening \ given
        /\ UNCHANGED <<asked, connected>>
    BY DEF Gateway!orderResponse
  <1>2. \A q \in Questions : q \in given <=> q \in listening /\ asked[q] = s
    BY DEF Gateway!Listeners
  <1> HIDE DEF given
  <1>3. ASSUME NEW q \in Questions
        PROVE  /\ Pending(q)'
               /\ question[q] \in Gateway!Settled => question'[q] = question[q]
               /\ question'[q] \in {"approved", "refused"} => question'[q] = heard'[q]
    BY <1>1, <1>2, OperationsAssumption DEF GatewayInv, Pending, Gateway!Settled
  <1>4. /\ question' \in [Questions -> {"none", "pending", "lost"} \cup Gateway!Settled]
        /\ heard' \in [Questions -> {"none", "approved", "refused"}]
    BY <1>1 DEF GatewayInv, Gateway!Settled
  <1>5. QED
    BY <1>1, <1>3, <1>4 DEF GatewayInv, Gateway!Answered

\* Every step of the gateway keeps its invariant, and settles a call once.
LEMMA GatewayKeeps ==
  ASSUME GatewayInv, Gateway!Next
  PROVE  GatewayInv' /\ Gateway!Answered
  <1>1. ASSUME NEW s \in Sockets, Gateway!Connection(s) PROVE GatewayInv' /\ Gateway!Answered
    <2>1. UNCHANGED <<question, asked, listening, heard>> /\ connected' \in Sockets \cup {NoSocket}
      BY <1>1 DEF Gateway!Connection, Gateway!handleConnection, Gateway!Verified,
                  Gateway!NotVerified, Gateway!handleDisconnect, Gateway!calls, GatewayInv
    <2>2. QED
      BY <2>1 DEF GatewayInv, Pending, Gateway!Answered
  <1>2. ASSUME NEW q \in Questions, Gateway!Timeout(q) PROVE GatewayInv' /\ Gateway!Answered
    BY <1>2 DEF Gateway!Timeout, GatewayInv, Pending, Gateway!Answered, Gateway!Settled
  <1>3. CASE Gateway!Restart
    BY <1>3 DEF Gateway!Restart, GatewayInv, Pending, Gateway!Answered, Gateway!Settled
  <1>4. QED
    BY <1>1, <1>2, <1>3, AskingKeeps, AnswerKeeps DEF Gateway!Next

----------------------------------------------------------------------------
(* Counting *)

\* The events of an order are finite in number.
LEMMA DoneIsFinite ==
  ASSUME DispatchTypes, NEW o \in Orders
  PROVE  IsFiniteSet(Done(o)) /\ Cardinality(Done(o)) \in Nat
  <1>1. committed["newOrder"] \in Nat
    BY DEF DispatchTypes, Dispatch!Topics
  <1>2. IsFiniteSet(1..committed["newOrder"])
    BY <1>1, FS_Interval
  <1>3. Done(o) \in SUBSET (1..committed["newOrder"])
    BY DEF Done
  <1>4. IsFiniteSet(Done(o))
    BY <1>2, <1>3, FS_Subset
  <1>5. QED
    BY <1>4, FS_CardinalityType

\* Steps that make no delivery, and after which no event counts less.
LEMMA MadeKeeps ==
  ASSUME DispatchTypes, DispatchTypes', Made,
         \A o \in Orders : Done(o) \subseteq Done(o)',
         \A o \in Orders : Len(deliveries'[o]) = Len(deliveries[o])
  PROVE  Made'
  <1> SUFFICES ASSUME NEW o \in Orders
               PROVE  Len(deliveries'[o]) <= Cardinality(Done(o)')
    BY DEF Made
  <1>1. IsFiniteSet(Done(o)') /\ Cardinality(Done(o)') \in Nat
    <2>1. committed'["newOrder"] \in Nat
      BY DEF DispatchTypes, Dispatch!Topics
    <2>2. IsFiniteSet(1..committed'["newOrder"])
      BY <2>1, FS_Interval
    <2>3. Done(o)' \in SUBSET (1..committed'["newOrder"])
      BY DEF Done
    <2>4. IsFiniteSet(Done(o)')
      BY <2>2, <2>3, FS_Subset
    <2>5. QED
      BY <2>4, FS_CardinalityType
  <1>2. Cardinality(Done(o)) <= Cardinality(Done(o)') /\ Cardinality(Done(o)) \in Nat
    BY <1>1, DoneIsFinite, FS_Subset
  <1>3. Len(deliveries[o]) \in Nat
    BY DEF DispatchTypes
  <1>4. QED
    BY <1>1, <1>2, <1>3 DEF Made

\* The order in hand is one of those there are.
LEMMA InHandIsOrder ==
  ASSUME DispatchInv, step # "idle"
  PROVE  Dispatch!order \in Orders
  BY DEF DispatchInv, DispatchTypes, InOrder, Control, Dispatch!order

\* A status is overwritten in the first document of an order.
LEMMA StatusIsSet ==
  ASSUME DispatchTypes, NEW o \in Orders, NEW s \in Dispatch!DeliveryStatus, Dispatch!Exists(o), Dispatch!SetStatus(o, s)
  PROVE  /\ deliveries' \in [Orders -> Seq(Dispatch!DeliveryStatus)]
         /\ \A x \in Orders : Len(deliveries'[x]) = Len(deliveries[x])
         /\ \A x \in Orders \ {o} : deliveries'[x] = deliveries[x]
         /\ deliveries'[o][1] = s
  <1> DEFINE d == [deliveries[o] EXCEPT ![1] = s]
  <1>1. deliveries[o] \in Seq(Dispatch!DeliveryStatus) /\ 1 \in 1..Len(deliveries[o])
    BY DEF DispatchTypes, Dispatch!Exists
  <1>2. d \in Seq(Dispatch!DeliveryStatus) /\ Len(d) = Len(deliveries[o]) /\ d[1] = s
    BY <1>1, ExceptSeq
  <1>3. deliveries' = [deliveries EXCEPT ![o] = d]
    BY DEF Dispatch!SetStatus
  <1> HIDE DEF d
  <1>4. QED
    BY <1>2, <1>3 DEF DispatchTypes

----------------------------------------------------------------------------
(* The steps *)

\* Nothing is there before the first event.
LEMMA DispatchStarts == Dispatch!Init => DispatchInv
  <1> SUFFICES ASSUME Dispatch!Init PROVE DispatchInv
    OBVIOUS
  <1>1. DispatchTypes /\ InOrder /\ Control
    BY DEF Dispatch!Init, DispatchTypes, InOrder, Control, Dispatch!Topics
  <1>2. Made
    BY <1>1, DoneIsFinite DEF Dispatch!Init, Made
  <1>3. Timed
    BY DEF Dispatch!Init, Timed, Dispatch!PickedUp, Dispatch!Exists
  <1>4. QED
    BY <1>1, <1>2, <1>3 DEF DispatchInv

\* An event is added behind the others.
LEMMA EmitKeeps ==
  ASSUME DispatchInv, NEW t \in Dispatch!Topics, NEW o \in Orders, Dispatch!Emit(t, o)
  PROVE  DispatchInv'
  <1>1. /\ log' = [log EXCEPT ![t] = Append(log[t], o)]
        /\ UNCHANGED <<committed, position, topic, step, deliveries, timers, abandoned>>
    BY DEF Dispatch!Emit, Dispatch!handler, Dispatch!store
  <1>2. /\ Append(log[t], o) \in Seq(Orders)
        /\ Len(Append(log[t], o)) = Len(log[t]) + 1
        /\ \A i \in 1..Len(log[t]) : Append(log[t], o)[i] = log[t][i]
    BY AppendProperties DEF DispatchInv, DispatchTypes
  <1>3. DispatchTypes'
    BY <1>1, <1>2 DEF DispatchInv, DispatchTypes
  <1>4. InOrder' /\ Control' /\ Timed'
    <2>1. InOrder'
      BY <1>1, <1>2 DEF DispatchInv, DispatchTypes, InOrder
    <2>2. Control' /\ Timed'
      BY <1>1 DEF DispatchInv, Control, Timed, Dispatch!PickedUp, Dispatch!Exists
    <2>3. QED
      BY <2>1, <2>2
  <1>5. \A x \in Orders : Done(x) \subseteq Done(x)'
    <2>1. \A i \in 1..committed["newOrder"] : log'["newOrder"][i] = log["newOrder"][i]
      <3>1. committed["newOrder"] <= Len(log["newOrder"]) /\ committed["newOrder"] \in Nat
        BY DEF DispatchInv, DispatchTypes, InOrder, Dispatch!Topics
      <3>2. CASE t = "newOrder"
        BY <1>1, <1>2, <3>1, <3>2 DEF DispatchInv, DispatchTypes
      <3>3. CASE t # "newOrder"
        BY <1>1, <3>3
      <3>4. QED
        BY <3>2, <3>3
    <2>2. QED
      BY <1>1, <2>1 DEF Done, InHand
  <1>6. Made'
    BY <1>1, <1>3, <1>5, MadeKeeps DEF DispatchInv
  <1>7. QED
    BY <1>3, <1>4, <1>6 DEF DispatchInv

\* The consumer takes an event.
LEMMA TakeKeeps ==
  ASSUME DispatchInv, NEW t \in Dispatch!Topics, Dispatch!Take(t)
  PROVE  DispatchInv'
  <1>1. /\ step = "idle" /\ step' = "commit" /\ topic' = t
        /\ position' = [position EXCEPT ![t] = position[t] + 1]
        /\ position[t] < Len(log[t])
        /\ UNCHANGED <<log, committed, deliveries, timers, abandoned>>
    BY DEF Dispatch!Take, Dispatch!Then, Dispatch!createDelivery, Dispatch!handleOrderPickup,
           Dispatch!Topics, Dispatch!kafka, Dispatch!store
  <1>2. DispatchTypes'
    <2>1. DispatchTypes
      BY DEF DispatchInv
    <2>2. position' \in [Dispatch!Topics -> Nat]
      BY <1>1, <2>1 DEF DispatchTypes
    <2>3. QED
      BY <1>1, <2>1, <2>2 DEF DispatchTypes
  <1>3. InOrder'
    <2>1. Len(log[t]) \in Nat /\ position[t] \in Nat /\ committed[t] \in Nat
      BY DEF DispatchInv, DispatchTypes
    <2>2. QED
      BY <1>1, <2>1 DEF DispatchInv, DispatchTypes, InOrder
  <1>4. Control'
    BY <1>1 DEF DispatchInv, DispatchTypes, InOrder, Control
  <1>5. Timed'
    BY <1>1 DEF DispatchInv, Timed, Dispatch!PickedUp, Dispatch!Exists
  <1>6. \A x \in Orders : Done(x) \subseteq Done(x)'
    BY <1>1 DEF Done, InHand
  <1>7. QED
    BY <1>1, <1>2, <1>3, <1>4, <1>5, <1>6, MadeKeeps DEF DispatchInv

\* A handler goes on, ends or throws, and writes no more than an answer.
LEMMA WalkKeeps ==
  ASSUME DispatchInv, UNCHANGED <<log, committed, position, topic, deliveries, timers, abandoned>>,
         \/ step' \in {"idle", "commitAgain", "respond", "findNearestDriver"}
         \/ (step = "findOrder" /\ step' = "create"),
         step' # "idle" => step # "idle" /\ topic = "newOrder"
  PROVE  DispatchInv'
  <1>1. DispatchTypes' /\ InOrder' /\ Control' /\ Timed'
    BY DEF DispatchInv, DispatchTypes, InOrder, Control, Timed, Dispatch!PickedUp, Dispatch!Exists
  <1>2. \A x \in Orders : Done(x) \subseteq Done(x)'
    BY DEF Done, InHand
  <1>3. QED
    BY <1>1, <1>2, MadeKeeps DEF DispatchInv

\* What is done is committed.
LEMMA CommitKeeps ==
  ASSUME DispatchInv, Dispatch!Commit \/ Dispatch!CommitAgain
  PROVE  DispatchInv'
  <1>1. /\ committed' = [committed EXCEPT ![topic] = position[topic]]
        /\ step \in {"commit", "commitAgain"}
        /\ UNCHANGED <<log, position, topic, deliveries, timers, abandoned>>
        /\ step' = IF step = "commitAgain" THEN "idle"
                   ELSE IF topic = "newOrder" THEN "findOrder" ELSE "pickUp"
    BY DEF DispatchInv, DispatchTypes, Dispatch!Topics, Dispatch!Commit, Dispatch!CommitAgain, Dispatch!Commits,
           Dispatch!Goes_On, Dispatch!Thrown, Dispatch!Goes, Dispatch!Then,
           Dispatch!createDelivery, Dispatch!handleOrderPickup, Dispatch!store
  <1>2. DispatchTypes'
    BY <1>1 DEF DispatchInv, DispatchTypes
  <1>3. InOrder' /\ Control' /\ Timed'
    BY <1>1
       DEF DispatchInv, DispatchTypes, Dispatch!Topics, InOrder, Control, Timed, Dispatch!PickedUp,
           Dispatch!Exists
  <1>4. /\ committed["newOrder"] \in Nat /\ committed'["newOrder"] \in Nat
        /\ committed["newOrder"] <= committed'["newOrder"]
        /\ InHand' => /\ position' = position
                      /\ committed["newOrder"] < position["newOrder"]
    <2>1. CASE topic = "newOrder"
      BY <1>1, <2>1 DEF DispatchInv, DispatchTypes, InOrder, Control, InHand, Dispatch!Topics
    <2>2. CASE topic = "handOvered"
      BY <1>1, <2>2 DEF DispatchInv, DispatchTypes, Control, InHand, Dispatch!Topics
    <2>3. QED
      BY <2>1, <2>2 DEF DispatchInv, DispatchTypes, Dispatch!Topics
  <1>5. ASSUME NEW x \in Orders, NEW i \in Done(x)  PROVE i \in Done(x)'
    <2>1. i \in 1..committed["newOrder"] /\ log["newOrder"][i] = x
      BY DEF Done
    <2>2. i \in 1..committed'["newOrder"] /\ log'["newOrder"][i] = x
      BY <1>1, <1>4, <2>1
    <2>3. ~(InHand' /\ i = position'["newOrder"])
      BY <1>4, <2>1
    <2>4. QED
      BY <2>2, <2>3 DEF Done
  <1>6. \A x \in Orders : Done(x) \subseteq Done(x)'
    BY <1>5
  <1>7. QED
    BY <1>1, <1>2, <1>3, <1>6, MadeKeeps DEF DispatchInv

\* The delivery of the event in hand is made, and the event counts from now on.
LEMMA CreateKeeps ==
  ASSUME DispatchInv, Dispatch!Create
  PROVE  DispatchInv'
  <1> DEFINE n == position["newOrder"]
  <1>1. /\ step = "create" /\ topic = "newOrder" /\ step' = "findNearestDriver"
        /\ n = committed["newOrder"] /\ n \in Nat \ {0}
        /\ Dispatch!order \in Orders /\ Dispatch!order = log["newOrder"][n]
        /\ deliveries' = [deliveries EXCEPT ![Dispatch!order] = Append(deliveries[Dispatch!order], "PENDING")]
        /\ UNCHANGED <<log, committed, position, topic, timers, abandoned>>
    <2>1. step = "create" /\ topic = "newOrder"
      BY DEF Dispatch!Create, DispatchInv, Control
    <2>2. step' = "findNearestDriver" /\ UNCHANGED <<log, committed, position, topic, timers, abandoned>>
      BY <2>1
         DEF Dispatch!Create, Dispatch!Goes_On, Dispatch!Goes, Dispatch!Then,
             Dispatch!createDelivery, Dispatch!kafka
    <2>3. n = committed["newOrder"] /\ n \in Nat \ {0}
      BY <2>1 DEF DispatchInv, DispatchTypes, Control
    <2>4. QED
      BY <2>1, <2>2, <2>3, InHandIsOrder DEF Dispatch!Create, Dispatch!order
  <1> DEFINE a == Append(deliveries[Dispatch!order], "PENDING")
  <1>2. /\ a \in Seq(Dispatch!DeliveryStatus) /\ Len(a) = Len(deliveries[Dispatch!order]) + 1 /\ a # <<>>
        /\ \A i \in 1..Len(deliveries[Dispatch!order]) : a[i] = deliveries[Dispatch!order][i]
        /\ a[Len(deliveries[Dispatch!order]) + 1] = "PENDING"
    <2>1. deliveries[Dispatch!order] \in Seq(Dispatch!DeliveryStatus) /\ "PENDING" \in Dispatch!DeliveryStatus
      BY <1>1 DEF DispatchInv, DispatchTypes, Dispatch!DeliveryStatus
    <2>2. QED
      BY <2>1, AppendProperties
  <1>3. deliveries' = [deliveries EXCEPT ![Dispatch!order] = a]
    BY <1>1
  <1> HIDE DEF a
  <1>4. DispatchTypes'
    BY <1>1, <1>2, <1>3 DEF DispatchInv, DispatchTypes
  <1>5. InOrder' /\ Control'
    BY <1>1 DEF DispatchInv, InOrder, Control
  <1>6. Timed'
    <2>1. ASSUME NEW x \in Orders, Dispatch!PickedUp(x)' PROVE Dispatch!PickedUp(x)
      <3>1. CASE x # Dispatch!order
        BY <2>1, <1>1, <1>3, <3>1 DEF DispatchInv, DispatchTypes, Dispatch!PickedUp, Dispatch!Exists
      <3>2. CASE x = Dispatch!order
        BY <2>1, <1>1, <1>2, <1>3, <3>2 DEF DispatchInv, DispatchTypes, Dispatch!PickedUp, Dispatch!Exists
      <3>3. QED
        BY <3>1, <3>2
    <2>2. ASSUME NEW x \in Orders, Dispatch!Exists(x) PROVE Dispatch!Exists(x)'
      <3>1. CASE x = Dispatch!order
        BY <1>1, <1>2, <1>3, <3>1 DEF DispatchInv, DispatchTypes, Dispatch!Exists
      <3>2. CASE x # Dispatch!order
        BY <2>2, <1>1, <1>3, <3>2 DEF DispatchInv, DispatchTypes, Dispatch!Exists
      <3>3. QED
        BY <3>1, <3>2
    <2>3. QED
      BY <1>1, <2>1, <2>2 DEF DispatchInv, Timed
  <1>7. ASSUME NEW x \in Orders PROVE Len(deliveries'[x]) <= Cardinality(Done(x)')
    <2>1. IsFiniteSet(Done(x)) /\ Cardinality(Done(x)) \in Nat /\ Len(deliveries[x]) \in Nat
      BY DoneIsFinite DEF DispatchInv, DispatchTypes
    <2>2. CASE x # Dispatch!order
      <3>1. Done(x)' = Done(x)
        BY <1>1, <2>2 DEF Done, InHand
      <3>2. deliveries'[x] = deliveries[x]
        BY <1>1, <1>3, <2>2 DEF DispatchInv, DispatchTypes
      <3>3. QED
        BY <3>1, <3>2 DEF DispatchInv, Made
    <2>3. CASE x = Dispatch!order
      <3>1. Done(x)' = Done(x) \cup {n} /\ n \notin Done(x)
        BY <1>1, <2>3 DEF Done, InHand
      <3>2. Cardinality(Done(x)') = Cardinality(Done(x)) + 1
        BY <2>1, <3>1, FS_AddElement
      <3>3. Len(deliveries'[x]) = Len(deliveries[x]) + 1
        BY <1>1, <1>2, <1>3, <2>3 DEF DispatchInv, DispatchTypes
      <3>4. QED
        BY <2>1, <3>2, <3>3 DEF DispatchInv, Made
    <2>4. QED
      BY <2>2, <2>3
  <1>8. QED
    BY <1>4, <1>5, <1>6, <1>7 DEF DispatchInv, Made

\* A status is set, by a pick-up, a timer or an arrival.
LEMMA DeliveryKeeps ==
  ASSUME DispatchInv, NEW o \in Orders, NEW s \in Dispatch!DeliveryStatus, Dispatch!Exists(o), Dispatch!SetStatus(o, s),
         UNCHANGED <<log, committed, position, topic>>,
         timers' \in [Orders -> Nat],
         step' # step => step' \in {"idle", "commitAgain"},
         step' = "commitAgain" => step # "idle" /\ topic = "newOrder",
         \A x \in Orders \ {o} : timers'[x] = timers[x] /\ (x \in abandoned => x \in abandoned'),
         s = "PICKED_UP" => timers'[o] > 0 \/ o \in abandoned'
  PROVE  DispatchInv'
  <1>1. /\ deliveries' \in [Orders -> Seq(Dispatch!DeliveryStatus)]
        /\ \A x \in Orders : Len(deliveries'[x]) = Len(deliveries[x])
        /\ \A x \in Orders \ {o} : deliveries'[x] = deliveries[x]
        /\ deliveries'[o][1] = s
    BY StatusIsSet DEF DispatchInv
  <1>2. DispatchTypes'
    BY <1>1 DEF DispatchInv, DispatchTypes
  <1>3. InOrder' /\ Control'
    BY DEF DispatchInv, DispatchTypes, InOrder, Control
  <1>4. Timed'
    <2>1. Dispatch!Exists(o)'
      BY <1>1 DEF DispatchInv, DispatchTypes, Dispatch!Exists
    <2>2. QED
      BY <1>1, <2>1 DEF DispatchInv, Timed, Dispatch!PickedUp, Dispatch!Exists
  <1>5. \A x \in Orders : Done(x) \subseteq Done(x)'
    BY DEF Done, InHand
  <1>6. QED
    BY <1>1, <1>2, <1>3, <1>4, <1>5, MadeKeeps DEF DispatchInv

\* An event of a pick-up is handled.
LEMMA PickUpKeeps ==
  ASSUME DispatchInv, Dispatch!PickUp \/ Dispatch!PickUpUnanswered
  PROVE  DispatchInv'
  <1>1. step = "pickUp" /\ topic = "handOvered" /\ Dispatch!order \in Orders
    BY InHandIsOrder DEF Dispatch!PickUp, Dispatch!PickUpUnanswered, DispatchInv, Control
  <1>2. /\ Dispatch!Exists(Dispatch!order) /\ Dispatch!SetStatus(Dispatch!order, "PICKED_UP")
        /\ UNCHANGED <<log, committed, position, topic>> /\ step' = "idle"
    BY <1>1
       DEF Dispatch!PickUp, Dispatch!PickUpUnanswered, Dispatch!Goes_On, Dispatch!Throws,
           Dispatch!Thrown, Dispatch!Goes, Dispatch!Then, Dispatch!handleOrderPickup,
           Dispatch!kafka
  <1>3. /\ timers' \in [Orders -> Nat]
        /\ \A x \in Orders \ {Dispatch!order} : timers'[x] = timers[x] /\ (x \in abandoned => x \in abandoned')
        /\ timers'[Dispatch!order] > 0 \/ Dispatch!order \in abandoned'
    <2>1. CASE Dispatch!PickUp
      BY <1>1, <2>1 DEF Dispatch!PickUp, DispatchInv, DispatchTypes
    <2>2. CASE Dispatch!PickUpUnanswered
      BY <1>1, <2>2 DEF Dispatch!PickUpUnanswered, DispatchInv, DispatchTypes
    <2>3. QED
      BY <2>1, <2>2
  <1>4. "PICKED_UP" \in Dispatch!DeliveryStatus
    BY DEF Dispatch!DeliveryStatus
  <1>5. QED
    BY <1>1, <1>2, <1>3, <1>4, DeliveryKeeps

\* A timer fires, or a partner says that the order has arrived.
LEMMA MoveKeeps ==
  ASSUME DispatchInv, NEW o \in Orders, Dispatch!InTransit(o) \/ Dispatch!handleOrderDelivered(o)
  PROVE  DispatchInv'
  <1>1. CASE Dispatch!handleOrderDelivered(o)
    <2>1. /\ Dispatch!Exists(o) /\ Dispatch!SetStatus(o, "DELIVERED") /\ "DELIVERED" \in Dispatch!DeliveryStatus
          /\ UNCHANGED <<log, committed, position, topic, step, timers, abandoned>>
      BY <1>1
         DEF Dispatch!handleOrderDelivered, Dispatch!kafka, Dispatch!handler,
             Dispatch!DeliveryStatus
    <2>2. timers' \in [Orders -> Nat]
      BY <2>1 DEF DispatchInv, DispatchTypes
    <2>3. step = "commitAgain" => topic = "newOrder"
      BY DEF DispatchInv, Control
    <2>4. QED
      BY <2>1, <2>2, <2>3, DeliveryKeeps
  <1>2. CASE Dispatch!InTransit(o)
    <2>1. /\ timers' \in [Orders -> Nat] /\ \A x \in Orders \ {o} : timers'[x] = timers[x]
      BY <1>2 DEF Dispatch!InTransit, DispatchInv, DispatchTypes
    <2>2. /\ Dispatch!Exists(o) /\ Dispatch!SetStatus(o, "IN_TRANSIT") /\ "IN_TRANSIT" \in Dispatch!DeliveryStatus
          /\ UNCHANGED <<log, committed, position, topic, step, abandoned>>
      BY <1>2
         DEF Dispatch!InTransit, Dispatch!kafka, Dispatch!handler, Dispatch!DeliveryStatus, DispatchInv,
             Timed
    <2>3. step = "commitAgain" => topic = "newOrder"
      BY DEF DispatchInv, Control
    <2>4. QED
      BY <2>1, <2>2, <2>3, DeliveryKeeps
  <1>3. QED
    BY <1>1, <1>2

\* The service restarts, and its timers are lost.
LEMMA RestartKeeps ==
  ASSUME DispatchInv, Dispatch!Restart
  PROVE  DispatchInv'
  <1>1. DispatchTypes' /\ InOrder' /\ Control'
    BY DEF Dispatch!Restart, DispatchInv, DispatchTypes, InOrder, Control, Dispatch!Topics, Dispatch!kafka
  <1>2. Timed'
    BY DEF Dispatch!Restart, DispatchInv, DispatchTypes, Timed, Dispatch!PickedUp, Dispatch!Exists
  <1>3. \A x \in Orders : Done(x) \subseteq Done(x)'
    BY DEF Dispatch!Restart, Done, InHand, Dispatch!kafka
  <1>4. UNCHANGED deliveries
    BY DEF Dispatch!Restart
  <1>5. QED
    BY <1>1, <1>2, <1>3, <1>4, MadeKeeps DEF DispatchInv

\* Steps that leave alone what it is about keep the invariant.
LEMMA DispatchStutters ==
  ASSUME DispatchInv,
         UNCHANGED <<log, committed, position, topic, step, deliveries, timers, abandoned>>
  PROVE  DispatchInv'
  BY DEF DispatchInv, DispatchTypes, InOrder, Control, Made, Done, InHand, Timed, Dispatch!PickedUp,
         Dispatch!Exists

\* Every step keeps the invariant.
LEMMA DispatchKeeps == ASSUME DispatchInv, Dispatch!Next PROVE DispatchInv'
  <1>1. CASE Dispatch!LocatedChanges
    BY <1>1, DispatchStutters
       DEF Dispatch!LocatedChanges, Dispatch!kafka, Dispatch!handler, Dispatch!store
  <1>2. ASSUME NEW o \in Orders, Dispatch!newOrder(o) \/ Dispatch!handleOrderHandover(o) PROVE DispatchInv'
    BY <1>2, EmitKeeps DEF Dispatch!newOrder, Dispatch!handleOrderHandover, Dispatch!Topics
  <1>3. CASE Dispatch!FindOrder \/ Dispatch!FindNearestDriver \/ Dispatch!Respond \/ Dispatch!CreateRefused \/ Dispatch!PickUpNotFound \/ Dispatch!HandlerFails
    <2>1. UNCHANGED <<log, committed, position, topic, deliveries, timers, abandoned>>
      BY <1>3
         DEF Dispatch!FindOrder, Dispatch!FindNearestDriver, Dispatch!broadcastRequest,
             Dispatch!Respond,
             Dispatch!CreateRefused, Dispatch!PickUpNotFound, Dispatch!HandlerFails,
             Dispatch!Goes_On, Dispatch!Throws, Dispatch!Thrown, Dispatch!Goes, Dispatch!kafka,
             Dispatch!store
    <2>2. step # "idle"
      BY <1>3
         DEF Dispatch!FindOrder, Dispatch!FindNearestDriver, Dispatch!Respond,
             Dispatch!CreateRefused, Dispatch!PickUpNotFound, Dispatch!HandlerFails
    <2>3. CASE Dispatch!FindOrder \/ Dispatch!FindNearestDriver
      <3>1. topic = "newOrder"
        BY <2>3 DEF Dispatch!FindOrder, Dispatch!FindNearestDriver, DispatchInv, Control
      <3>2. \/ step' \in {"idle", "respond"}
            \/ step = "findOrder" /\ step' = "create"
        BY <2>3, <3>1
           DEF Dispatch!FindOrder, Dispatch!FindNearestDriver, Dispatch!broadcastRequest,
               Dispatch!Goes_On, Dispatch!Goes,
               Dispatch!Then, Dispatch!createDelivery
      <3>3. QED
        BY <2>1, <2>2, <3>1, <3>2, WalkKeeps
    <2>4. CASE Dispatch!Respond \/ Dispatch!CreateRefused \/ Dispatch!PickUpNotFound \/ Dispatch!HandlerFails
      <3>1. step' = "idle" \/ (step' = "commitAgain" /\ topic = "newOrder")
        BY <2>4
           DEF Dispatch!Respond, Dispatch!CreateRefused, Dispatch!PickUpNotFound,
               Dispatch!HandlerFails, Dispatch!Throws, Dispatch!Thrown, Dispatch!Goes
      <3>2. QED
        BY <2>1, <2>2, <3>1, WalkKeeps
    <2>5. QED
      BY <1>3, <2>3, <2>4
  <1>4. QED
    BY <1>1, <1>2, <1>3, TakeKeeps, CommitKeeps, CreateKeeps, PickUpKeeps, MoveKeeps, RestartKeeps
       DEF Dispatch!Next, Dispatch!Dispatching, Dispatch!Handle

\* A timer starts with the event in hand, whose commit comes before.
LEMMA StartedKeeps ==
  ASSUME DispatchInv, Started, Dispatch!Next
  PROVE  Started'
  <1> DEFINE n == committed["handOvered"]
  <1>1. n \in Nat /\ timers \in [Orders -> Nat] /\ position["handOvered"] \in Nat
    BY DEF DispatchInv, DispatchTypes, Dispatch!Topics
  <1>2. ASSUME UNCHANGED <<committed, timers>>, step' # "pickUp" \/ step' = step
        PROVE  Started'
    BY <1>2 DEF Started
  <1>3. CASE Dispatch!Commit \/ Dispatch!CommitAgain
    <2>1. /\ committed' = [committed EXCEPT ![topic] = position[topic]] /\ UNCHANGED timers
          /\ step' = "pickUp" => step = "commit" /\ topic = "handOvered"
      BY <1>3 DEF DispatchInv, DispatchTypes, Dispatch!Topics, Dispatch!Commit,
                  Dispatch!CommitAgain, Dispatch!Commits, Dispatch!Goes_On, Dispatch!Thrown,
                  Dispatch!Goes, Dispatch!Then, Dispatch!createDelivery,
                  Dispatch!handleOrderPickup, Dispatch!store
    <2>2. CASE topic = "handOvered"
      <3>1. step = "commit" /\ n < position["handOvered"]
        BY <1>3, <2>2 DEF Dispatch!Commit, Dispatch!CommitAgain, DispatchInv, Control
      <3>2. committed'["handOvered"] = position["handOvered"]
        BY <2>1, <2>2 DEF DispatchInv, DispatchTypes
      <3>3. QED
        BY <1>1, <2>1, <3>1, <3>2 DEF Started
    <2>3. CASE topic # "handOvered"
      <3>1. committed'["handOvered"] = n /\ step' # "pickUp"
        BY <2>1, <2>3 DEF DispatchInv, DispatchTypes
      <3>2. QED
        BY <2>1, <3>1 DEF Started
    <2>4. QED
      BY <2>2, <2>3
  <1>4. CASE Dispatch!PickUp
    <2>1. /\ step = "pickUp" /\ topic = "handOvered" /\ step' = "idle" /\ UNCHANGED committed
          /\ timers' = [timers EXCEPT ![Dispatch!order] = timers[Dispatch!order] + 1]
      BY <1>4 DEF Dispatch!PickUp, DispatchInv, Control, Dispatch!Goes_On, Dispatch!Goes,
                  Dispatch!Then, Dispatch!handleOrderPickup, Dispatch!kafka
    <2>2. QED
      BY <1>1, <2>1 DEF Started
  <1>5. ASSUME NEW o \in Orders, Dispatch!InTransit(o) PROVE Started'
    <2>1. /\ timers[o] > 0 /\ timers' = [timers EXCEPT ![o] = timers[o] - 1]
          /\ UNCHANGED <<committed, step>>
      BY <1>5 DEF Dispatch!InTransit, Dispatch!kafka, Dispatch!handler
    <2>2. QED
      BY <1>1, <2>1 DEF Started
  <1>6. CASE Dispatch!Restart
    <2>1. timers' = [o \in Orders |-> 0] /\ step' = "idle" /\ UNCHANGED committed
      BY <1>6 DEF Dispatch!Restart, Dispatch!kafka
    <2>2. QED
      BY <1>1, <2>1 DEF Started
  <1>7. ASSUME NEW t \in Dispatch!Topics, Dispatch!Take(t) PROVE Started'
    BY <1>2, <1>7 DEF Dispatch!Take, Dispatch!kafka, Dispatch!store, Dispatch!Then,
                      Dispatch!createDelivery, Dispatch!handleOrderPickup, Dispatch!Topics
  <1>8. CASE \/ Dispatch!FindOrder \/ Dispatch!Create \/ Dispatch!CreateRefused
             \/ Dispatch!FindNearestDriver \/ Dispatch!Respond \/ Dispatch!PickUpNotFound
             \/ Dispatch!HandlerFails \/ Dispatch!PickUpUnanswered
    <2>1. UNCHANGED <<committed, timers>>
      BY <1>8 DEF Dispatch!FindOrder, Dispatch!Create, Dispatch!CreateRefused,
                  Dispatch!FindNearestDriver, Dispatch!Respond, Dispatch!PickUpNotFound,
                  Dispatch!HandlerFails, Dispatch!PickUpUnanswered, Dispatch!kafka,
                  Dispatch!store
    <2>2. step \in {"findOrder", "create", "findNearestDriver"} => topic = "newOrder"
      BY DEF DispatchInv, Control
    <2>3. step' # "pickUp"
      BY <1>8, <2>2
         DEF Dispatch!FindOrder, Dispatch!Create, Dispatch!CreateRefused,
             Dispatch!FindNearestDriver, Dispatch!broadcastRequest,
             Dispatch!Respond, Dispatch!PickUpNotFound,
             Dispatch!HandlerFails, Dispatch!PickUpUnanswered, Dispatch!Goes_On,
             Dispatch!Throws, Dispatch!Thrown, Dispatch!Goes, Dispatch!Then,
             Dispatch!createDelivery
    <2>4. QED
      BY <1>2, <2>1, <2>3
  <1>9. ASSUME NEW o \in Orders,
               \/ Dispatch!newOrder(o) \/ Dispatch!handleOrderHandover(o)
               \/ Dispatch!handleOrderDelivered(o)
        PROVE  Started'
    BY <1>2, <1>9
       DEF Dispatch!newOrder, Dispatch!handleOrderHandover, Dispatch!Emit,
           Dispatch!handleOrderDelivered, Dispatch!kafka, Dispatch!handler, Dispatch!store
  <1>10. CASE Dispatch!LocatedChanges
    BY <1>2, <1>10 DEF Dispatch!LocatedChanges, Dispatch!kafka, Dispatch!handler, Dispatch!store
  <1>11. QED
    BY <1>3, <1>4, <1>5, <1>6, <1>7, <1>8, <1>9, <1>10
       DEF Dispatch!Next, Dispatch!Dispatching, Dispatch!Handle

----------------------------------------------------------------------------
(* The tracking *)

\* A partner's status changes, during updates or not.
LEMMA StatusKeeps ==
  ASSUME TrackingInv, NEW p \in Partners,
         NEW new \in Tracking!DeliveryPartnerStatus \cup {"removed"}, Tracking!SetStatus(p, new)
  PROVE  TrackingInv'
  <1>1. /\ status' = [status EXCEPT ![p] = new]
        /\ sawOnline' = sawOnline \cup
             {s \in Sockets : new = "ONLINE" /\ owner[s] = p /\ update[s] # "idle"}
        /\ UNCHANGED <<owner, open, update>>
    BY DEF Tracking!SetStatus, Tracking!sockets
  <1>2. ASSUME NEW s \in Sockets PROVE Watched(s)'
    <2>1. update[s] # "idle" => owner[s] \in Partners
      BY DEF TrackingInv, Watched
    <2>2. QED
      BY <1>1, <2>1 DEF TrackingInv, Watched
  <1>3. status' \in [Partners -> Tracking!DeliveryPartnerStatus \cup {"removed"}]
    BY <1>1 DEF TrackingInv
  <1>4. QED
    BY <1>1, <1>2, <1>3 DEF TrackingInv

\* An update of a location goes on by a step.
LEMMA UpdateKeeps ==
  ASSUME TrackingInv, NEW s \in Sockets, Tracking!Located(s)
  PROVE  TrackingInv' /\ Tracking!LocatedOnline
  <1>1. CASE Tracking!handleAvailableLocationUpdate(s)
    BY <1>1 DEF Tracking!handleAvailableLocationUpdate, Tracking!redis, Tracking!sockets,
                Tracking!Updates, TrackingInv, Watched, Tracking!LocatedOnline
  <1>2. CASE Tracking!findStatus(s)
    BY <1>2 DEF Tracking!findStatus, Tracking!Goes, Tracking!redis, Tracking!sockets,
                Tracking!Updates, TrackingInv, Watched, Tracking!LocatedOnline
  <1>3. CASE Tracking!GeoAdd(s)
    BY <1>3 DEF Tracking!GeoAdd, Tracking!Goes, Tracking!sockets,
                Tracking!Updates, TrackingInv, Watched, Tracking!LocatedOnline
  <1>4. CASE Tracking!SetActive(s) \/ Tracking!UpdateFails(s)
    BY <1>4 DEF Tracking!SetActive, Tracking!UpdateFails, Tracking!Goes, Tracking!redis,
                Tracking!sockets, Tracking!Updates, TrackingInv, Watched, Tracking!LocatedOnline
  <1>5. QED
    BY <1>1, <1>2, <1>3, <1>4 DEF Tracking!Located

\* Every step of the tracking keeps its invariant, and lists those who were ONLINE.
LEMMA TrackingKeeps ==
  ASSUME TrackingInv, Tracking!Next
  PROVE  TrackingInv' /\ Tracking!LocatedOnline
  <1>1. ASSUME NEW s \in Sockets, NEW p \in Partners, Tracking!handleConnection(s, p)
        PROVE  TrackingInv' /\ Tracking!LocatedOnline
    BY <1>1, OperationsAssumption
       DEF Tracking!handleConnection, Tracking!redis, TrackingInv, Watched, Tracking!LocatedOnline
  <1>2. ASSUME NEW s \in Sockets, Tracking!handleDisconnect(s) \/ Tracking!handleDeliveryResponse(s)
        PROVE  TrackingInv' /\ Tracking!LocatedOnline
    BY <1>2 DEF Tracking!handleDisconnect, Tracking!handleDeliveryResponse, Tracking!redis,
                Tracking!sockets, TrackingInv, Watched, Tracking!LocatedOnline
  <1>3. ASSUME NEW p \in Partners, Tracking!updateStatus(p) \/ Tracking!remove(p)
        PROVE  TrackingInv' /\ Tracking!LocatedOnline
    <2>1. PICK new \in Tracking!DeliveryPartnerStatus \cup {"removed"} : Tracking!SetStatus(p, new)
      BY <1>3 DEF Tracking!updateStatus, Tracking!remove
    <2>2. located' = located
      BY <2>1 DEF Tracking!SetStatus, Tracking!redis
    <2>3. QED
      BY <2>1, <2>2, StatusKeeps DEF Tracking!LocatedOnline
  <1>4. ASSUME NEW p \in Partners, Tracking!ActiveExpires(p)
        PROVE  TrackingInv' /\ Tracking!LocatedOnline
    BY <1>4
       DEF Tracking!ActiveExpires, Tracking!sockets, TrackingInv, Watched, Tracking!LocatedOnline
  <1>5. CASE Tracking!Restart
    BY <1>5 DEF Tracking!Restart, Tracking!redis, Tracking!Updates, TrackingInv, Watched,
                Tracking!LocatedOnline
  <1>6. QED
    BY <1>1, <1>2, <1>3, <1>4, <1>5, UpdateKeeps DEF Tracking!Next

----------------------------------------------------------------------------
(* Complaints *)

\* What the step of an update says of its other fields.
LEMMA UpdatingTypes ==
  ASSUME ComplaintInv, NEW r \in Requests, request[r].step # "idle"
  PROVE  request[r] \in Complaint!Updating
  BY DEF ComplaintInv, Complaint!Idle

\* The record of an update that goes on.
LEMMA UpdatingContinued ==
  ASSUME ComplaintInv, NEW r \in Requests, request[r].step # "idle",
         NEW next \in Complaint!Steps, Complaint!Continue(r, next)
  PROVE  /\ request' \in [Requests -> Complaint!Updating \cup {Complaint!Idle}]
         /\ \A q \in Requests \ {r} : request'[q] = request[q]
         /\ request'[r].step = next /\ request'[r].status = request[r].status
  <1> DEFINE n == [request[r] EXCEPT !.step = next]
  <1>1. n \in Complaint!Updating /\ n.step = next /\ n.status = request[r].status
    BY UpdatingTypes DEF Complaint!Updating
  <1>2. request' = [request EXCEPT ![r] = n]
    BY DEF Complaint!Continue
  <1> HIDE DEF n
  <1>3. QED
    BY <1>1, <1>2 DEF ComplaintInv

\* A request that ends leaves the others alone.
LEMMA UpdatingFinished ==
  ASSUME ComplaintInv, NEW r \in Requests, Complaint!Finish(r)
  PROVE  /\ request' \in [Requests -> Complaint!Updating \cup {Complaint!Idle}]
         /\ \A q \in Requests \ {r} : request'[q] = request[q]
         /\ request'[r].step \notin Complaint!EmitSteps
  BY DEF Complaint!Finish, Complaint!Idle, Complaint!EmitSteps, ComplaintInv

\* A status is stored, and the ones before are remembered.
LEMMA StoreKeeps ==
  ASSUME ComplaintInv, NEW c \in Complaints, NEW s \in Status \cup {"pending"}, Complaint!Store(c, s)
  PROVE  /\ stored' \in [Requests -> SUBSET (Status \cup {"pending"})]
         /\ \A q \in Requests : stored[q] \subseteq stored'[q]
         /\ \A q \in Complaint!About(c) : s \in stored'[q]
  BY DEF Complaint!Store, Complaint!About, ComplaintInv

\* Steps after which no request but those that were so is past its update.
LEMMA QuietComplaint ==
  ASSUME ComplaintInv,
         request' \in [Requests -> Complaint!Updating \cup {Complaint!Idle}],
         stored' \in [Requests -> SUBSET (Status \cup {"pending"})],
         \A q \in Requests : request'[q].step \in Complaint!EmitSteps =>
           /\ request[q].step \in Complaint!EmitSteps
           /\ request'[q].status = request[q].status
           /\ stored[q] \subseteq stored'[q]
  PROVE  ComplaintInv'
  BY DEF ComplaintInv, Complaint!UpdatedWasStored

\* Every step of the complaints keeps their invariant.
LEMMA ComplaintKeeps ==
  ASSUME ComplaintInv, Complaint!Next
  PROVE  ComplaintInv'
  <1>1. ASSUME NEW c \in Complaints, Complaint!createComplaint(c) PROVE ComplaintInv'
    <2>1. Complaint!Store(c, "pending") /\ UNCHANGED request
      BY <1>1 DEF Complaint!createComplaint
    <2>2. QED
      BY <2>1, StoreKeeps, QuietComplaint DEF ComplaintInv
  <1>2. ASSUME NEW r \in Requests, NEW c \in Complaints, NEW s \in Status,
               Complaint!updateComplaintStatus(r, c, s)
        PROVE  ComplaintInv'
    <2> DEFINE q == [step |-> "findComplaint", complaint |-> c, status |-> s]
    <2>1. q \in Complaint!Updating /\ q.step \notin Complaint!EmitSteps
      BY DEF Complaint!Updating, Complaint!Steps, Complaint!EmitSteps
    <2>2. request' = [request EXCEPT ![r] = q] /\ stored' = [stored EXCEPT ![r] = {}]
      BY <1>2 DEF Complaint!updateComplaintStatus, Complaint!Start
    <2> HIDE DEF q
    <2>3. request' \in [Requests -> Complaint!Updating \cup {Complaint!Idle}]
      BY <2>1, <2>2 DEF ComplaintInv
    <2>4. stored' \in [Requests -> SUBSET (Status \cup {"pending"})]
      BY <2>2 DEF ComplaintInv
    <2>5. ASSUME NEW p \in Requests, request'[p].step \in Complaint!EmitSteps
          PROVE  request'[p] = request[p] /\ stored'[p] = stored[p]
      BY <2>1, <2>2, <2>5 DEF ComplaintInv
    <2>6. QED
      BY <2>3, <2>4, <2>5, QuietComplaint
  <1>3. ASSUME NEW r \in Requests,
               \/ Complaint!FindComplaint(r) \/ Complaint!FindOrder(r) \/ Complaint!FindManager(r)
               \/ Complaint!FindRestaurant(r) \/ Complaint!RequestFails(r)
        PROVE  ComplaintInv'
    <2>1. stored' = stored /\ stored' \in [Requests -> SUBSET (Status \cup {"pending"})]
      BY <1>3 DEF Complaint!FindComplaint, Complaint!FindOrder, Complaint!FindManager,
                  Complaint!FindRestaurant, Complaint!RequestFails, ComplaintInv
    <2>2. CASE Complaint!Finish(r)
      BY <2>1, <2>2, UpdatingFinished, QuietComplaint
    <2>3. CASE /\ request[r].step \in {"findComplaint", "findOrder"}
               /\ \E next \in {"findOrder", "update"} : Complaint!Continue(r, next)
      <3>1. PICK next \in {"findOrder", "update"} : Complaint!Continue(r, next)
        BY <2>3
      <3>2. next \in Complaint!Steps /\ next \notin Complaint!EmitSteps
        BY DEF Complaint!Steps, Complaint!EmitSteps
      <3>3. QED
        BY <2>1, <2>3, <3>1, <3>2, UpdatingContinued, QuietComplaint
    <2>4. CASE request[r].step = "readManager" /\ Complaint!Continue(r, "readRestaurant")
      <3>1. "readRestaurant" \in Complaint!Steps /\ request[r].step \in Complaint!EmitSteps
        BY <2>4 DEF Complaint!Steps, Complaint!EmitSteps
      <3>2. QED
        BY <2>1, <2>4, <3>1, UpdatingContinued, QuietComplaint
    <2>5. QED
      BY <1>3, <2>2, <2>3, <2>4
         DEF Complaint!FindComplaint, Complaint!FindOrder, Complaint!FindManager,
             Complaint!FindRestaurant, Complaint!RequestFails, Complaint!Failure
  <1>4. ASSUME NEW r \in Requests, Complaint!Update(r) PROVE ComplaintInv'
    <2>1. /\ request[r].step # "idle" /\ Complaint!Continue(r, "readManager")
          /\ Complaint!Store(request[r].complaint, request[r].status)
      BY <1>4 DEF Complaint!Update
    <2>2. /\ request[r].complaint \in Complaints /\ request[r].status \in Status
          /\ r \in Complaint!About(request[r].complaint)
      BY <2>1, UpdatingTypes DEF Complaint!Updating, Complaint!About, Complaint!Idle
    <2>3. /\ stored' \in [Requests -> SUBSET (Status \cup {"pending"})]
          /\ \A q \in Requests : stored[q] \subseteq stored'[q]
          /\ request[r].status \in stored'[r]
      BY <2>1, <2>2, StoreKeeps
    <2>4. "readManager" \in Complaint!Steps
      BY DEF Complaint!Steps, Complaint!EmitSteps
    <2>5. /\ request' \in [Requests -> Complaint!Updating \cup {Complaint!Idle}]
          /\ \A q \in Requests \ {r} : request'[q] = request[q]
          /\ request'[r].status = request[r].status
      BY <2>1, <2>4, UpdatingContinued
    <2>6. Complaint!UpdatedWasStored'
      BY <2>3, <2>5 DEF ComplaintInv, Complaint!UpdatedWasStored
    <2>7. QED
      BY <2>3, <2>5, <2>6 DEF ComplaintInv
  <1>5. ASSUME NEW r \in Requests, Complaint!UpdateUnanswered(r) PROVE ComplaintInv'
    <2>1. /\ request[r].step = "update" /\ Complaint!Finish(r)
          /\ Complaint!Store(request[r].complaint, request[r].status)
      BY <1>5 DEF Complaint!UpdateUnanswered, Complaint!Failure
    <2>2. request[r].complaint \in Complaints /\ request[r].status \in Status
      BY <2>1, UpdatingTypes DEF Complaint!Updating
    <2>3. /\ stored' \in [Requests -> SUBSET (Status \cup {"pending"})]
          /\ \A q \in Requests : stored[q] \subseteq stored'[q]
      BY <2>1, <2>2, StoreKeeps
    <2>4. QED
      BY <2>1, <2>3, UpdatingFinished, QuietComplaint
  <1>6. QED
    BY <1>1, <1>2, <1>3, <1>4, <1>5 DEF Complaint!Next

----------------------------------------------------------------------------
(* The administrator's decisions *)

\* Steps after which a request has seen that what it says is so.
Sure == {"reply", "findRestaurant", "save"}

\* What the step of a request says of its other fields.
LEMMA OfficeTypes ==
  ASSUME OfficeInv, NEW r \in Requests
  PROVE  /\ request[r].step \in {"find", "update", "reply"} => request[r] \in Office!Deciding
         /\ request[r].step \in {"findManager", "findRestaurant", "save"}
              => request[r] \in Office!Creating
  BY DEF OfficeInv, Office!Deciding, Office!Creating, Office!Idle

\* The record of a request that goes on.
LEMMA NextRecord ==
  /\ \A q \in Office!Deciding, next \in {"find", "update", "reply"} :
       /\ [q EXCEPT !.step = next] \in Office!Deciding
       /\ [q EXCEPT !.step = next].change = q.change
  /\ \A q \in Office!Creating, next \in {"findManager", "findRestaurant", "save"} :
       /\ [q EXCEPT !.step = next] \in Office!Creating
       /\ [q EXCEPT !.step = next].manager = q.manager
  BY DEF Office!Deciding, Office!Creating

\* A request moves by itself; if it is sure, it sees what it says, or has seen it.
LEMMA OneMoves ==
  ASSUME OfficeInv, NEW r \in Requests, Office!Watch,
         request' \in [Requests -> Office!Deciding \cup Office!Creating \cup {Office!Idle}],
         \A q \in Requests \ {r} : request'[q] = request[q],
         request'[r].step \in Sure =>
           Office!True(r)' \/ (r \in seen /\ request[r].step # "idle")
  PROVE  OfficeInv'
  <1>1. ASSUME NEW q \in Requests, request'[q].step \in Sure PROVE q \in seen'
    <2>1. request'[q] # Office!Idle
      BY <1>1 DEF Office!Idle, Sure
    <2>2. CASE q = r
      BY <1>1, <2>1, <2>2 DEF Office!Watch, Office!Idle
    <2>3. CASE q # r
      <3>1. request[q] = request'[q] /\ q \in seen
        BY <1>1, <2>3 DEF OfficeInv, Sure
      <3>2. QED
        BY <2>1, <3>1 DEF Office!Watch
    <2>4. QED
      BY <2>2, <2>3
  <1>2. QED
    BY <1>1 DEF OfficeInv, Sure

\* A request starts: it is not sure yet.
LEMMA OfficeStarts ==
  ASSUME OfficeInv, NEW r \in Requests, Office!Watch,
         NEW q \in Office!Deciding \cup Office!Creating, q.step \notin Sure, Office!Start(r, q)
  PROVE  OfficeInv'
  <1>1. /\ request' = [request EXCEPT ![r] = q]
    BY DEF Office!Start
  <1>2. /\ request' \in [Requests -> Office!Deciding \cup Office!Creating \cup {Office!Idle}]
        /\ \A x \in Requests \ {r} : request'[x] = request[x]
        /\ request'[r].step \notin Sure
    BY <1>1 DEF OfficeInv
  <1>3. QED
    BY <1>2, OneMoves

\* A request ends.
LEMMA OfficeEnds ==
  ASSUME OfficeInv, NEW r \in Requests, Office!Watch, Office!Finish(r)
  PROVE  OfficeInv'
  <1>1. /\ request' = [request EXCEPT ![r] = Office!Idle]
    BY DEF Office!Finish
  <1>2. /\ request' \in [Requests -> Office!Deciding \cup Office!Creating \cup {Office!Idle}]
        /\ \A x \in Requests \ {r} : request'[x] = request[x]
        /\ request'[r].step \notin Sure
    BY <1>1 DEF OfficeInv, Office!Idle, Sure
  <1>3. QED
    BY <1>2, OneMoves

\* A flag that was set is as the request says.
LEMMA SetHolds ==
  ASSUME NEW c \in Office!Change, Office!Set(c)
  PROVE  Office!Holds(c)'
  <1>1. c.value \in BOOLEAN
    BY DEF Office!Change
  <1>2. CASE c.value = TRUE
    BY <1>2 DEF Office!Set, Office!Holds
  <1>3. CASE c.value = FALSE
    <2>1. [flag |-> c.flag, of |-> c.of] \notin flagged'
      BY <1>3 DEF Office!Set, Office!FlagOf
    <2>2. ([flag |-> c.flag, of |-> c.of] \in flagged') = FALSE
      BY <2>1
    <2>3. QED
      BY <1>3, <2>2, Zenon DEF Office!Holds, Office!FlagOf
  <1>4. QED
    BY <1>1, <1>2, <1>3

\* A decision is looked up, written and answered.
LEMMA DecidingKeeps ==
  ASSUME OfficeInv, NEW r \in Requests, Office!Administer(r)
  PROVE  OfficeInv'
  <1>1. ASSUME NEW c \in Office!Change, Office!Decide(r, c) PROVE OfficeInv'
    <2> DEFINE q == [step |-> "find", change |-> c]
    <2>1. q \in Office!Deciding /\ q.step \notin Sure
      BY DEF Office!Deciding, Sure
    <2>2. Office!Watch /\ Office!Start(r, q)
      BY <1>1 DEF Office!Decide
    <2> HIDE DEF q
    <2>3. QED
      BY <2>1, <2>2, OfficeStarts
  <1>2. ASSUME NEW m \in Managers, Office!ValidateManager(r, m) \/ Office!InValidateManager(r, m)
        PROVE  OfficeInv'
    <2>1. PICK v \in BOOLEAN : Office!Decide(r, [flag |-> "isActiveManager", of |-> m, value |-> v])
      BY <1>2 DEF Office!ValidateManager, Office!InValidateManager
    <2>2. [flag |-> "isActiveManager", of |-> m, value |-> v] \in Office!Change
      BY DEF Office!Change
    <2>3. QED
      BY <1>1, <2>1, <2>2
  <1>3. ASSUME NEW x \in Restaurants, Office!blockRestaurant(r, x) \/ Office!softDeleteRestaurant(r, x)
        PROVE  OfficeInv'
    <2>1. PICK f \in {"isBlocked", "isDeleted"} : Office!Decide(r, [flag |-> f, of |-> x, value |-> TRUE])
      BY <1>3 DEF Office!blockRestaurant, Office!softDeleteRestaurant
    <2>2. [flag |-> f, of |-> x, value |-> TRUE] \in Office!Change
      BY DEF Office!Change
    <2>3. QED
      BY <1>1, <2>1, <2>2
  <1>4. ASSUME NEW u \in Users, Office!blockUser(r, u) \/ Office!unblockUser(r, u)
        PROVE  OfficeInv'
    <2>1. PICK v \in BOOLEAN : Office!Decide(r, [flag |-> "is_active", of |-> u, value |-> v])
      BY <1>4 DEF Office!blockUser, Office!unblockUser
    <2>2. [flag |-> "is_active", of |-> u, value |-> v] \in Office!Change
      BY DEF Office!Change
    <2>3. QED
      BY <1>1, <2>1, <2>2
  <1>5. ASSUME NEW u \in Users, Office!remove(r, u) PROVE OfficeInv'
    <2> DEFINE c == [flag |-> "is_deleted", of |-> u, value |-> TRUE]
    <2> DEFINE q == [step |-> "update", change |-> c]
    <2>1. c \in Office!Change
      BY DEF Office!Change
    <2>2. q \in Office!Deciding /\ q.step \notin Sure
      BY <2>1 DEF Office!Deciding, Sure
    <2>3. Office!Watch /\ Office!Start(r, q)
      BY <1>5 DEF Office!remove
    <2> HIDE DEF q
    <2>4. QED
      BY <2>2, <2>3, OfficeStarts
  <1>6. CASE Office!Refused(r) \/ Office!Reply(r) \/ Office!UpdateUnanswered(r)
    BY <1>6, OfficeEnds
       DEF Office!Refused, Office!Reply, Office!UpdateUnanswered, Office!Failure, Office!Finish
  <1>7. CASE Office!FindDocument(r)
    <2>1. /\ request[r].step = "find" /\ Office!Watch
          /\ Office!Finish(r) \/ Office!Continue(r, "update")
      BY <1>7 DEF Office!FindDocument, Office!Found
    <2> DEFINE n == [request[r] EXCEPT !.step = "update"]
    <2>2. n \in Office!Deciding /\ n.step \notin Sure
      BY <2>1, OfficeTypes, NextRecord DEF Office!Deciding, Sure
    <2>3. CASE Office!Continue(r, "update")
      <3>1. request' = [request EXCEPT ![r] = n]
        BY <2>3 DEF Office!Continue
      <3> HIDE DEF n
      <3>2. /\ request' \in [Requests -> Office!Deciding \cup Office!Creating \cup {Office!Idle}]
            /\ \A x \in Requests \ {r} : request'[x] = request[x]
            /\ request'[r].step \notin Sure
        BY <2>2, <3>1 DEF OfficeInv
      <3>3. QED
        BY <2>1, <3>2, OneMoves
    <2>4. QED
      BY <2>1, <2>3, OfficeEnds
  <1>8. CASE Office!Update(r)
    <2>1. /\ request[r].step = "update" /\ Office!Watch
          /\ Office!Set(request[r].change) /\ Office!Continue(r, "reply")
      BY <1>8 DEF Office!Update
    <2> DEFINE n == [request[r] EXCEPT !.step = "reply"]
    <2>2. request[r] \in Office!Deciding /\ request[r].change \in Office!Change
      BY <2>1, OfficeTypes DEF Office!Deciding
    <2>3. PICK c \in Office!Change : c = request[r].change
      BY <2>2
    <2>4. n \in Office!Deciding /\ n.change = c
      BY <2>2, <2>3, NextRecord
    <2>5. request' = [request EXCEPT ![r] = n]
      BY <2>1 DEF Office!Continue
    <2>6. Office!Holds(c)'
      BY <2>1, <2>3, SetHolds
    <2> HIDE DEF n
    <2>7. /\ request' \in [Requests -> Office!Deciding \cup Office!Creating \cup {Office!Idle}]
          /\ \A x \in Requests \ {r} : request'[x] = request[x]
          /\ request'[r] = n
      BY <2>4, <2>5 DEF OfficeInv
    <2>8. Office!True(r)'
      <3>1. request'[r] \in Office!Deciding /\ request'[r].change = c
        BY <2>4, <2>7
      <3>2. (Office!FlagOf(request[r].change) \in flagged)' = request'[r].change.value
        BY <2>6, <3>1 DEF Office!Holds, Office!FlagOf
      <3>3. QED
        BY <3>1, <3>2 DEF Office!True, Office!Holds, Office!Deciding
    <2>9. QED
      BY <2>1, <2>7, <2>8, OneMoves
  <1>9. QED
    BY <1>2, <1>3, <1>4, <1>5, <1>6, <1>7, <1>8 DEF Office!Administer

\* A manager is looked up, and a restaurant saved.
LEMMA CreatingKeeps ==
  ASSUME OfficeInv, NEW r \in Requests, Office!OpenRestaurant(r)
  PROVE  OfficeInv'
  <1>1. ASSUME NEW m \in Managers, Office!createRestaurant(r, m) PROVE OfficeInv'
    <2> DEFINE q == [step |-> "findManager", manager |-> m]
    <2>1. q \in Office!Creating /\ q.step \notin Sure
      BY DEF Office!Creating, Sure
    <2>2. Office!Watch /\ Office!Start(r, q)
      BY <1>1 DEF Office!createRestaurant
    <2> HIDE DEF q
    <2>3. QED
      BY <2>1, <2>2, OfficeStarts
  <1>2. ASSUME NEW next \in {"findRestaurant", "save"}, Office!Continue(r, next), Office!Watch,
               request[r] \in Office!Creating,
               (Office!IsValid(request[r].manager) /\ UNCHANGED flagged)
                 \/ (r \in seen /\ request[r].step # "idle")
        PROVE  OfficeInv'
    <2> DEFINE n == [request[r] EXCEPT !.step = next]
    <2>1. n \in Office!Creating /\ n.manager = request[r].manager
      BY <1>2, NextRecord
    <2>2. request' = [request EXCEPT ![r] = n]
      BY <1>2 DEF Office!Continue
    <2> HIDE DEF n
    <2>3. /\ request' \in [Requests -> Office!Deciding \cup Office!Creating \cup {Office!Idle}]
          /\ \A x \in Requests \ {r} : request'[x] = request[x]
          /\ request'[r] = n
      BY <2>1, <2>2 DEF OfficeInv
    <2>4. Office!True(r)' \/ (r \in seen /\ request[r].step # "idle")
      BY <1>2, <2>1, <2>3 DEF Office!True, Office!IsValid
    <2>5. QED
      BY <1>2, <2>3, <2>4, OneMoves
  <1>3. CASE Office!FindManager(r)
    <2>1. /\ request[r] \in Office!Creating /\ Office!Watch /\ UNCHANGED flagged
          /\ \/ Office!IsValid(request[r].manager) /\ Office!Continue(r, "findRestaurant")
             \/ Office!Finish(r)
      BY <1>3, OfficeTypes DEF Office!FindManager, Office!store
    <2>2. QED
      BY <1>2, <2>1, OfficeEnds
  <1>4. CASE Office!FindRestaurant(r)
    <2>1. /\ request[r] \in Office!Creating /\ Office!Watch /\ Office!Continue(r, "save")
          /\ r \in seen /\ request[r].step # "idle"
      BY <1>4, OfficeTypes DEF Office!FindRestaurant, OfficeInv
    <2>2. QED
      BY <1>2, <2>1
  <1>5. ASSUME NEW x \in Restaurants, Office!SaveRestaurant(r, x) PROVE OfficeInv'
    BY <1>5, OfficeEnds DEF Office!SaveRestaurant
  <1>6. QED
    BY <1>1, <1>3, <1>4, <1>5 DEF Office!OpenRestaurant

\* Every step of the office keeps its invariant.
LEMMA OfficeKeeps ==
  ASSUME OfficeInv, Office!Next
  PROVE  OfficeInv'
  <1>1. ASSUME NEW r \in Requests, Office!RequestFails(r) PROVE OfficeInv'
    BY <1>1, OfficeEnds DEF Office!RequestFails, Office!Failure
  <1>2. ASSUME NEW c \in unawaited, Office!UserUpdated(c) PROVE OfficeInv'
    <2>1. UNCHANGED request /\ Office!Watch
      BY <1>2 DEF Office!UserUpdated
    <2>2. QED
      BY <2>1 DEF OfficeInv, Office!Watch, Office!Idle
  <1>3. ASSUME NEW c \in unawaited, Office!UserUpdateFails(c) PROVE OfficeInv'
    BY <1>3 DEF Office!UserUpdateFails, Office!Restarted, Office!Idle, OfficeInv
  <1>4. QED
    BY <1>1, <1>2, <1>3, DecidingKeeps, CreatingKeeps DEF Office!Next

\* Who replies is sure.
LEMMA OfficeDecides == ASSUME OfficeInv PROVE Office!Decided
  BY DEF OfficeInv, Office!Decided

\* Restaurants are those that are saved.
LEMMA OwnersMove ==
  ASSUME Office!Next, restaurantOwner' # restaurantOwner
  PROVE  \E r \in Requests, x \in Restaurants : Office!SaveRestaurant(r, x)
  BY DEF Office!Next, Office!Administer, Office!OpenRestaurant, Office!store, Office!RequestFails,
         Office!UserUpdated, Office!UserUpdateFails, Office!ValidateManager, Office!InValidateManager,
         Office!blockRestaurant, Office!softDeleteRestaurant, Office!blockUser, Office!unblockUser,
         Office!Decide, Office!Refused, Office!FindDocument, Office!Update, Office!Reply,
         Office!remove, Office!UpdateUnanswered, Office!createRestaurant, Office!FindManager, Office!FindRestaurant

\* Who saves a restaurant is sure of its manager.
LEMMA OfficeCreates ==
  ASSUME OfficeInv, OwnerType, Office!Next
  PROVE  OwnerType' /\ Office!OwnerWasValid
  <1>1. CASE restaurantOwner' = restaurantOwner
    BY <1>1 DEF OwnerType, Office!OwnerWasValid
  <1>2. CASE restaurantOwner' # restaurantOwner
    <2>1. PICK r \in Requests, y \in Restaurants : Office!SaveRestaurant(r, y)
      BY <1>2, OwnersMove
    <2>2. /\ request[r].step = "save" /\ r \in seen
          /\ restaurantOwner' = [restaurantOwner EXCEPT ![y] = request[r].manager]
      BY <2>1 DEF Office!SaveRestaurant, OfficeInv
    <2>3. request[r].manager \in Managers
      BY <2>2, OfficeTypes DEF Office!Creating
    <2>4. OwnerType'
      BY <2>2, <2>3 DEF OwnerType
    <2>5. \A x \in Restaurants :
            restaurantOwner'[x] # restaurantOwner[x] => restaurantOwner'[x] = request[r].manager
      BY <2>2 DEF OwnerType
    <2>6. QED
      BY <2>2, <2>4, <2>5 DEF Office!OwnerWasValid
  <1>3. QED
    BY <1>1, <1>2

----------------------------------------------------------------------------
(* Addresses, coupons, menu items and ratings *)

\* What the step of a request says of its other fields.
LEMMA RecordTypes ==
  ASSUME RecordInv, NEW r \in Requests
  PROVE  /\ request[r].step \in {"findAddress", "saveAddress"} => request[r] \in Records!CreateAddress
         /\ request[r].step \in {"findRestaurant", "saveCoupon"} => request[r] \in Records!CreateCoupon
         /\ request[r].step = "updateCoupon" => request[r] \in Records!UpdateCoupon
         /\ request[r].step \in {"findById", "saveMenuItem"} => request[r] \in Records!CreateMenuItem
         /\ request[r].step = "saveRating" => request[r] \in Records!CreateRating
  BY DEF RecordInv, Records!Request, Records!CreateAddress, Records!ByCustomer,
         Records!CreateCoupon, Records!UpdateCoupon, Records!CreateMenuItem,
         Records!CreateRating, Records!Idle

\* A request starts, ends, or goes on to its write.
LEMMA RequestMoves ==
  ASSUME RecordInv, NEW r \in Requests,
         \/ \E q \in Records!Request : Records!Start(r, q)
         \/ request[r].step = "findAddress" /\ Records!Continue(r, "saveAddress")
         \/ request[r].step = "findRestaurant" /\ Records!Continue(r, "saveCoupon")
         \/ request[r].step = "findById" /\ Records!Continue(r, "saveMenuItem")
         \/ Records!Finish(r)
  PROVE  request' \in [Requests -> Records!Request \cup {Records!Idle}]
  <1>1. CASE \E q \in Records!Request : Records!Start(r, q)
    BY <1>1 DEF Records!Start, RecordInv
  <1>2. CASE Records!Finish(r)
    BY <1>2 DEF Records!Finish, RecordInv
  <1>3. ASSUME NEW next, [request[r] EXCEPT !.step = next] \in Records!Request,
               Records!Continue(r, next)
        PROVE  request' \in [Requests -> Records!Request \cup {Records!Idle}]
    BY <1>3 DEF Records!Continue, RecordInv
  <1>4. CASE request[r].step = "findAddress" /\ Records!Continue(r, "saveAddress")
    <2>1. [request[r] EXCEPT !.step = "saveAddress"] \in Records!CreateAddress
      BY <1>4, RecordTypes DEF Records!CreateAddress
    <2>2. QED
      BY <1>3, <1>4, <2>1 DEF Records!Request
  <1>5. CASE request[r].step = "findRestaurant" /\ Records!Continue(r, "saveCoupon")
    <2>1. [request[r] EXCEPT !.step = "saveCoupon"] \in Records!CreateCoupon
      BY <1>5, RecordTypes DEF Records!CreateCoupon
    <2>2. QED
      BY <1>3, <1>5, <2>1 DEF Records!Request
  <1>6. CASE request[r].step = "findById" /\ Records!Continue(r, "saveMenuItem")
    <2>1. [request[r] EXCEPT !.step = "saveMenuItem"] \in Records!CreateMenuItem
      BY <1>6, RecordTypes DEF Records!CreateMenuItem
    <2>2. QED
      BY <1>3, <1>6, <2>1 DEF Records!Request
  <1>7. QED
    BY <1>1, <1>2, <1>4, <1>5, <1>6

\* A write leaves the keys unique.
LEMMA WriteKeeps ==
  ASSUME RecordInv, NEW r \in Requests, Records!Write(r)
  PROVE  /\ address' \in [Addresses -> Places \cup {"none"}]
         /\ coupon' \in [Coupons -> Codes \cup {"none"}]
         /\ rating' \in [Ratings -> Rated \cup {"none"}]
         /\ KeysAreUnique'
  <1>1. CASE Records!SaveAddress(r)
    <2>1. /\ Records!Uses(address, request[r].place) = {}
          /\ address' \in Records!Insert(address, request[r].place)
          /\ UNCHANGED <<coupon, rating>> /\ request[r].place \in Places
      BY <1>1, RecordTypes DEF Records!SaveAddress, Records!CreateAddress
    <2>2. PICK i \in Addresses : address' = [address EXCEPT ![i] = request[r].place]
      BY <2>1 DEF Records!Insert, Records!Uses, RecordInv
    <2>3. \A d \in Addresses : address[d] # request[r].place
      BY <2>1 DEF Records!Uses, RecordInv
    <2>4. QED
      BY <2>1, <2>2, <2>3 DEF RecordInv, KeysAreUnique, Records!KeysAreUnique
  <1>2. CASE Records!SaveCoupon(r)
    <2>1. /\ Records!Uses(coupon, request[r].code) = {}
          /\ coupon' \in Records!Insert(coupon, request[r].code)
          /\ UNCHANGED <<address, rating>> /\ request[r].code \in Codes
      BY <1>2, RecordTypes DEF Records!SaveCoupon, Records!CreateCoupon
    <2>2. PICK i \in Coupons : coupon' = [coupon EXCEPT ![i] = request[r].code]
      BY <2>1 DEF Records!Insert, Records!Uses, RecordInv
    <2>3. \A d \in Coupons : coupon[d] # request[r].code
      BY <2>1 DEF Records!Uses, RecordInv
    <2>4. QED
      BY <2>1, <2>2, <2>3 DEF RecordInv, KeysAreUnique, Records!KeysAreUnique
  <1>3. CASE Records!FindCouponAndUpdate(r)
    <2> DEFINE c == request[r].coupon
               code == request[r].code
    <2>1. /\ c \in Coupons /\ code \in Codes
          /\ coupon' = [coupon EXCEPT ![c] = code] /\ UNCHANGED <<address, rating>>
          /\ \A d \in Coupons : coupon[d] = code => d = c
      BY <1>3, RecordTypes
         DEF Records!FindCouponAndUpdate, Records!UpdateCoupon, Records!Uses, RecordInv
    <2> HIDE DEF c, code
    <2>2. QED
      BY <2>1 DEF RecordInv, KeysAreUnique, Records!KeysAreUnique
  <1>4. CASE Records!SaveMenuItem(r)
    BY <1>4 DEF Records!SaveMenuItem, RecordInv, KeysAreUnique, Records!KeysAreUnique
  <1>5. CASE Records!SaveRating(r)
    <2>1. /\ Records!Uses(rating, request[r].order) = {}
          /\ rating' \in Records!Insert(rating, request[r].order)
          /\ UNCHANGED <<address, coupon>> /\ request[r].order \in Rated
      BY <1>5, RecordTypes DEF Records!SaveRating, Records!CreateRating
    <2>2. PICK i \in Ratings : rating' = [rating EXCEPT ![i] = request[r].order]
      BY <2>1 DEF Records!Insert, Records!Uses, RecordInv
    <2>3. \A d \in Ratings : rating[d] # request[r].order
      BY <2>1 DEF Records!Uses, RecordInv
    <2>4. QED
      BY <2>1, <2>2, <2>3 DEF RecordInv, KeysAreUnique, Records!KeysAreUnique
  <1>6. QED
    BY <1>1, <1>2, <1>3, <1>4, <1>5 DEF Records!Write

\* Every step of the records keeps their invariant.
LEMMA RecordsKeep ==
  ASSUME RecordInv, Records!Next
  PROVE  RecordInv'
  <1>1. ASSUME NEW r \in Requests, Records!Write(r), Records!Finish(r) PROVE RecordInv'
    BY <1>1, WriteKeeps, RequestMoves DEF RecordInv
  <1>2. ASSUME request' \in [Requests -> Records!Request \cup {Records!Idle}],
               UNCHANGED <<address, coupon, rating>>
        PROVE  RecordInv'
    BY <1>2 DEF RecordInv, KeysAreUnique, Records!KeysAreUnique
  <1>3. ASSUME NEW r \in Requests, Records!AddressController(r) PROVE RecordInv'
    <2>1. CASE \E p \in Places : Records!addressCreateService(r, p)
      <3>1. PICK p \in Places : Records!addressCreateService(r, p)
        BY <2>1
      <3>2. [step |-> "findAddress", place |-> p] \in Records!Request
        BY DEF Records!Request, Records!CreateAddress
      <3>3. QED
        BY <1>2, <3>1, <3>2, RequestMoves DEF Records!addressCreateService, Records!store
    <2>2. CASE Records!FindAddress(r) \/ Records!FindByCustomer(r)
      BY <1>2, <2>2, RequestMoves DEF Records!FindAddress, Records!FindByCustomer, Records!store
    <2>3. CASE Records!updateAddressService(r) \/ Records!deleteAddressService(r)
      <3>1. /\ [step |-> "updateAddress"] \in Records!Request
            /\ [step |-> "deleteAddress"] \in Records!Request
        BY DEF Records!Request, Records!ByCustomer
      <3>2. QED
        BY <1>2, <2>3, <3>1, RequestMoves
           DEF Records!updateAddressService, Records!deleteAddressService, Records!store
    <2>4. QED
      BY <1>3, <2>1, <2>2, <2>3 DEF Records!AddressController
  <1>4. ASSUME NEW r \in Requests, Records!RestaurantController(r) PROVE RecordInv'
    <2>1. ASSUME NEW x \in Restaurants, Records!createMenuItem(r, x) PROVE RecordInv'
      <3>1. [step |-> "findById", restaurant |-> x] \in Records!Request
        BY DEF Records!Request, Records!CreateMenuItem
      <3>2. QED
        BY <1>2, <2>1, <3>1, RequestMoves DEF Records!createMenuItem, Records!store
    <2>2. ASSUME NEW d \in Codes, Records!createCoupon(r, d) PROVE RecordInv'
      <3>1. [step |-> "findRestaurant", code |-> d] \in Records!Request
        BY DEF Records!Request, Records!CreateCoupon
      <3>2. QED
        BY <1>2, <2>2, <3>1, RequestMoves DEF Records!createCoupon, Records!store
    <2>3. ASSUME NEW c \in Coupons, NEW d \in Codes, Records!updateCoupon(r, c, d) PROVE RecordInv'
      <3>1. [step |-> "updateCoupon", coupon |-> c, code |-> d] \in Records!Request
        BY DEF Records!Request, Records!UpdateCoupon
      <3>2. QED
        BY <1>2, <2>3, <3>1, RequestMoves DEF Records!updateCoupon, Records!store
    <2>4. CASE Records!FindRestaurant(r)
      BY <1>2, <2>4, RequestMoves DEF Records!FindRestaurant, Records!store
    <2>5. QED
      BY <1>4, <2>1, <2>2, <2>3, <2>4 DEF Records!RestaurantController
  <1>5. ASSUME NEW r \in Requests, Records!RatingController(r) PROVE RecordInv'
    <2>1. PICK o \in Rated : Records!addRatingService(r, o)
      BY <1>5 DEF Records!RatingController
    <2>2. [step |-> "saveRating", order |-> o] \in Records!Request
      BY DEF Records!Request, Records!CreateRating
    <2>3. QED
      BY <1>2, <2>1, <2>2, RequestMoves DEF Records!addRatingService, Records!store
  <1>6. ASSUME NEW r \in Requests, Records!Refused(r) \/ Records!RequestFails(r) PROVE RecordInv'
    BY <1>2, <1>6, RequestMoves
       DEF Records!Refused, Records!RequestFails, Records!Failure, Records!store
  <1>7. ASSUME NEW r \in Requests, Records!Answered(r) \/ Records!Unanswered(r) PROVE RecordInv'
    BY <1>1, <1>7 DEF Records!Answered, Records!Unanswered, Records!Failure
  <1>8. QED
    BY <1>3, <1>4, <1>5, <1>6, <1>7 DEF Records!Next

----------------------------------------------------------------------------
(* All parts together *)

Parts == {"gateway", "dispatch", "tracking", "office", "complaint", "records"}
IInv ==
  /\ part \in Parts
  /\ GatewayInv /\ DispatchInv /\ Started /\ TrackingInv /\ OwnerType /\ KeysAreUnique
  /\ part = "office" => OfficeInv
  /\ part = "complaint" => ComplaintInv
  /\ part = "records" => RecordInv
  /\ part \notin {"office", "complaint", "records"} => request = [r \in Requests |-> Idle]

\* What every step is, as far as the properties are concerned.
Acts ==
  /\ Gateway!Answered
  /\ part = "tracking" => Tracking!LocatedOnline
  /\ Office!Decided
  /\ Office!OwnerWasValid

\* The invariant holds at the start.
LEMMA InitIInv == Init => IInv
  <1> SUFFICES ASSUME Init PROVE IInv
    OBVIOUS
  <1>1. part \in Parts /\ request = [r \in Requests |-> Idle] /\ Office!Idle = Idle /\ Complaint!Idle = Idle
          /\ Records!Idle = Idle
    BY DEF Init, Parts, Office!Init, Office!NoRequests, Idle, Office!Idle, Complaint!Idle,
           Records!Idle
  <1>2. GatewayInv
    BY DEF Init, Gateway!Init, GatewayInv, Pending
  <1>3. TrackingInv
    BY DEF Init, Tracking!Init, TrackingInv, Watched, Tracking!DeliveryPartnerStatus,
           Tracking!Updates
  <1>4. OwnerType
    BY DEF Init, Office!Init, OwnerType
  <1>5. OfficeInv
    BY <1>1 DEF OfficeInv, Idle
  <1>6. ComplaintInv
    BY <1>1
       DEF Init, Complaint!Init, ComplaintInv, Complaint!UpdatedWasStored, Complaint!EmitSteps, Idle
  <1>7. RecordInv /\ KeysAreUnique
    BY <1>1 DEF Init, Records!Init, RecordInv, KeysAreUnique, Records!KeysAreUnique, Idle
  <1>8. DispatchInv /\ Started
    BY DispatchStarts DEF Init, Dispatch!Init, Started, Dispatch!Topics
  <1>9. QED
    BY <1>1, <1>2, <1>3, <1>4, <1>5, <1>6, <1>7, <1>8 DEF IInv

\* What a part says holds while the others are at work.
LEMMA Untouched ==
  /\ GatewayInv /\ UNCHANGED gatewayState => GatewayInv' /\ Gateway!Answered
  /\ DispatchInv /\ Started /\ UNCHANGED dispatchState => DispatchInv' /\ Started'
  /\ TrackingInv /\ UNCHANGED trackingState => TrackingInv'
  /\ OwnerType /\ UNCHANGED officeState => OwnerType' /\ Office!OwnerWasValid
  /\ OfficeInv /\ UNCHANGED <<officeState, request>> => OfficeInv'
  /\ ComplaintInv /\ UNCHANGED <<complaintState, request>> => ComplaintInv'
  /\ KeysAreUnique /\ UNCHANGED recordState => KeysAreUnique'
  /\ RecordInv /\ UNCHANGED <<recordState, request>> => RecordInv'
  <1>1. GatewayInv /\ UNCHANGED gatewayState => GatewayInv' /\ Gateway!Answered
    BY DEF gatewayState, GatewayInv, Pending, Gateway!Answered
  <1>2. TrackingInv /\ UNCHANGED trackingState => TrackingInv'
    BY DEF trackingState, TrackingInv, Watched
  <1>3. OwnerType /\ UNCHANGED officeState => OwnerType' /\ Office!OwnerWasValid
    BY DEF officeState, OwnerType, Office!OwnerWasValid
  <1>4. OfficeInv /\ UNCHANGED <<officeState, request>> => OfficeInv'
    BY DEF officeState, OfficeInv
  <1>5. ComplaintInv /\ UNCHANGED <<complaintState, request>> => ComplaintInv'
    BY DEF complaintState, ComplaintInv, Complaint!UpdatedWasStored
  <1>6. KeysAreUnique /\ UNCHANGED recordState => KeysAreUnique'
    BY DEF recordState, KeysAreUnique, Records!KeysAreUnique
  <1>7. RecordInv /\ UNCHANGED <<recordState, request>> => RecordInv'
    BY <1>6 DEF recordState, RecordInv
  <1>8. DispatchInv /\ Started /\ UNCHANGED dispatchState => DispatchInv' /\ Started'
    <2> SUFFICES ASSUME DispatchInv, Started, UNCHANGED dispatchState PROVE DispatchInv' /\ Started'
      OBVIOUS
    <2>1. UNCHANGED <<log, committed, position, topic, step, deliveries, timers, abandoned>>
      BY DEF dispatchState
    <2>2. QED
      BY <2>1, DispatchStutters DEF Started
  <1>9. QED
    BY <1>1, <1>2, <1>3, <1>4, <1>5, <1>6, <1>7, <1>8

\* Nobody replies who is no request of the office.
LEMMA OnlyOfficeDecides == ASSUME IInv PROVE Office!Decided
  <1>1. CASE part = "office"
    BY <1>1, OfficeDecides DEF IInv
  <1>2. CASE part = "complaint"
    BY <1>2
       DEF IInv, ComplaintInv, Complaint!Updating, Complaint!Steps, Complaint!EmitSteps,
           Complaint!Idle, Office!Decided
  <1>3. CASE part = "records"
    BY <1>3 DEF IInv, RecordInv, Records!Request, Records!CreateAddress, Records!ByCustomer,
                Records!CreateCoupon, Records!UpdateCoupon, Records!CreateMenuItem,
                Records!CreateRating, Records!Idle, Office!Decided
  <1>4. CASE part \notin {"office", "complaint", "records"}
    BY <1>4 DEF IInv, Idle, Office!Decided
  <1>5. QED
    BY <1>1, <1>2, <1>3, <1>4

\* Every step keeps the invariant and is as the properties say.
LEMMA NextKeeps == IInv /\ [Next]_vars => IInv' /\ Acts
  <1> SUFFICES ASSUME IInv, [Next]_vars PROVE IInv' /\ Acts
    OBVIOUS
  <1>1. Office!Decided
    BY OnlyOfficeDecides
  <1>2. CASE UNCHANGED vars
    <2>1. UNCHANGED <<part, gatewayState, dispatchState, located, trackingState, officeState, complaintState,
                   recordState, request>>
      BY <1>2 DEF vars
    <2>2. QED
      BY <1>1, <2>1, Untouched DEF IInv, Acts, Tracking!LocatedOnline
  <1>3. CASE GatewayNext
    BY <1>1, <1>3, Untouched, GatewayKeeps DEF GatewayNext, IInv, Acts
  <1>4. CASE DispatchNext
    BY <1>1, <1>4, Untouched, DispatchKeeps, StartedKeeps DEF DispatchNext, IInv, Acts
  <1>5. CASE TrackingNext
    BY <1>1, <1>5, Untouched, TrackingKeeps DEF TrackingNext, IInv, Acts
  <1>6. CASE OfficeNext
    BY <1>1, <1>6, Untouched, OfficeKeeps, OfficeCreates DEF OfficeNext, IInv, Acts
  <1>7. CASE ComplaintNext
    <2>1. ComplaintInv'
      BY <1>7, ComplaintKeeps DEF ComplaintNext, IInv, ComplaintInv
    <2>2. QED
      BY <1>1, <1>7, <2>1, Untouched DEF ComplaintNext, IInv, Acts
  <1>8. CASE RecordsNext
    <2>1. RecordInv' /\ KeysAreUnique'
      BY <1>8, RecordsKeep DEF RecordsNext, IInv, RecordInv
    <2>2. QED
      BY <1>1, <1>8, <2>1, Untouched DEF RecordsNext, IInv, Acts
  <1>9. QED
    BY <1>2, <1>3, <1>4, <1>5, <1>6, <1>7, <1>8 DEF Next

----------------------------------------------------------------------------
(* The types *)

\* Connections and calls of the gateway.
LEMMA GatewayTyped ==
  ASSUME Gateway!TypeOK, GatewayInv', Gateway!Next
  PROVE  Gateway!TypeOK'
  <1>1. faults' \in 0..MaxFaults
    <2>1. faults' = faults \/ Gateway!Fault
      BY DEF Gateway!Next, Gateway!Connection, Gateway!handleConnection, Gateway!Verified,
             Gateway!NotVerified, Gateway!handleDisconnect, Gateway!orderResponse,
             Gateway!handleIsFoodAvailable, Gateway!Timeout, Gateway!Restart
    <2>2. QED
      BY <2>1, FaultsAssumption DEF Gateway!TypeOK, Gateway!Fault
  <1>2. socket' \in [Sockets -> {"none", "verifying", "open", "closed", "closedVerifying"}]
    <2>1. \/ socket' = socket
          \/ \E s \in Sockets, v \in {"verifying", "open", "closed", "closedVerifying"} :
               socket' = [socket EXCEPT ![s] = v]
          \/ socket' = [s \in Sockets |-> IF socket[s] = "none" THEN "none" ELSE "closed"]
      BY DEF Gateway!Next, Gateway!Connection, Gateway!handleConnection, Gateway!Verified,
             Gateway!NotVerified, Gateway!handleDisconnect, Gateway!orderResponse,
             Gateway!handleIsFoodAvailable, Gateway!Timeout, Gateway!Restart, Gateway!TypeOK
    <2>2. QED
      BY <2>1 DEF Gateway!TypeOK
  <1>3. listening' \subseteq Questions
    BY DEF Gateway!Next, Gateway!Connection, Gateway!handleConnection, Gateway!Verified,
           Gateway!NotVerified, Gateway!handleDisconnect, Gateway!orderResponse,
           Gateway!handleIsFoodAvailable, Gateway!Timeout, Gateway!Restart, Gateway!calls,
           Gateway!TypeOK
  <1>4. QED
    BY <1>1, <1>2, <1>3 DEF Gateway!TypeOK, GatewayInv

\* Topics, deliveries and timers: there are no more timers than events.
LEMMA DispatchTyped ==
  ASSUME Dispatch!TypeOK, DispatchInv, DispatchInv', Started', Dispatch!Next
  PROVE  Dispatch!TypeOK'
  <1>1. faults' \in 0..MaxFaults
    <2>1. faults' = faults \/ Dispatch!Fault
      BY DEF Dispatch!Next, Dispatch!Dispatching, Dispatch!Handle, Dispatch!LocatedChanges,
             Dispatch!newOrder, Dispatch!handleOrderHandover, Dispatch!Emit, Dispatch!Take,
             Dispatch!Commit, Dispatch!CommitAgain, Dispatch!FindOrder, Dispatch!Create,
             Dispatch!CreateRefused, Dispatch!FindNearestDriver, Dispatch!broadcastRequest,
             Dispatch!Respond,
             Dispatch!PickUp, Dispatch!PickUpNotFound, Dispatch!InTransit,
             Dispatch!handleOrderDelivered, Dispatch!HandlerFails, Dispatch!PickUpUnanswered,
             Dispatch!Restart
    <2>2. QED
      BY <2>1, FaultsAssumption DEF Dispatch!TypeOK, Dispatch!Fault
  <1>2. located' \subseteq Partners
    BY DEF Dispatch!Next, Dispatch!Dispatching, Dispatch!Handle, Dispatch!LocatedChanges,
           Dispatch!newOrder, Dispatch!handleOrderHandover, Dispatch!Emit, Dispatch!Take,
           Dispatch!Commit, Dispatch!CommitAgain, Dispatch!FindOrder, Dispatch!Create,
           Dispatch!CreateRefused, Dispatch!FindNearestDriver, Dispatch!broadcastRequest,
           Dispatch!Respond,
           Dispatch!PickUp, Dispatch!PickUpNotFound, Dispatch!InTransit,
           Dispatch!handleOrderDelivered, Dispatch!HandlerFails, Dispatch!PickUpUnanswered,
           Dispatch!Restart, Dispatch!TypeOK
  <1>3. \A t \in Dispatch!Topics : Len(log'[t]) <= MaxEvents
    <2>1. ASSUME NEW t \in Dispatch!Topics, NEW o \in Orders, Dispatch!Emit(t, o)
          PROVE  \A x \in Dispatch!Topics : Len(log'[x]) <= MaxEvents
      <3>1. /\ log' = [log EXCEPT ![t] = Append(log[t], o)] /\ Len(log[t]) < MaxEvents
            /\ log[t] \in Seq(Orders) /\ log \in [Dispatch!Topics -> Seq(Orders)]
        BY <2>1 DEF Dispatch!Emit, Dispatch!TypeOK
      <3>2. Len(Append(log[t], o)) = Len(log[t]) + 1 /\ Len(log[t]) \in Nat
        BY <3>1
      <3>3. Len(Append(log[t], o)) <= MaxEvents
        BY <3>1, <3>2, OperationsAssumption
      <3>4. QED
        BY <3>1, <3>3 DEF Dispatch!TypeOK
    <2>2. \/ log' = log
          \/ \E o \in Orders : Dispatch!newOrder(o) \/ Dispatch!handleOrderHandover(o)
      BY DEF Dispatch!Next, Dispatch!Dispatching, Dispatch!Handle, Dispatch!LocatedChanges,
             Dispatch!Take, Dispatch!Commit, Dispatch!CommitAgain, Dispatch!FindOrder,
             Dispatch!Create, Dispatch!CreateRefused, Dispatch!FindNearestDriver, Dispatch!broadcastRequest,
             Dispatch!Respond, Dispatch!PickUp, Dispatch!PickUpNotFound, Dispatch!InTransit,
             Dispatch!handleOrderDelivered, Dispatch!HandlerFails, Dispatch!PickUpUnanswered,
             Dispatch!Restart, Dispatch!kafka
    <2>3. QED
      BY <2>1, <2>2
         DEF Dispatch!newOrder, Dispatch!handleOrderHandover, Dispatch!Topics, Dispatch!TypeOK
  <1>4. answered' \subseteq Orders /\ abandoned' \subseteq Orders
    <2>1. step # "idle" => Dispatch!order \in Orders
      BY InHandIsOrder
    <2>2. QED
      BY <2>1
         DEF Dispatch!Next, Dispatch!Dispatching, Dispatch!Handle, Dispatch!LocatedChanges,
             Dispatch!newOrder, Dispatch!handleOrderHandover, Dispatch!Emit, Dispatch!Take,
             Dispatch!Commit, Dispatch!CommitAgain, Dispatch!FindOrder, Dispatch!Create,
             Dispatch!CreateRefused, Dispatch!FindNearestDriver, Dispatch!broadcastRequest,
             Dispatch!Respond,
             Dispatch!PickUp, Dispatch!PickUpNotFound, Dispatch!InTransit,
             Dispatch!handleOrderDelivered, Dispatch!HandlerFails, Dispatch!PickUpUnanswered,
             Dispatch!Restart, Dispatch!store, Dispatch!TypeOK
  <1>5. /\ log' \in [Dispatch!Topics -> Seq(Orders)]
        /\ \A t \in Dispatch!Topics :
             committed'[t] \in 0..Len(log'[t]) /\ position'[t] \in 0..Len(log'[t])
        /\ DOMAIN committed' = Dispatch!Topics /\ DOMAIN position' = Dispatch!Topics
        /\ topic' \in Dispatch!Topics /\ deliveries' \in [Orders -> Seq(Dispatch!DeliveryStatus)]
    <2>1. DispatchTypes' /\ InOrder'
      BY DEF DispatchInv
    <2>2. ASSUME NEW t \in Dispatch!Topics
          PROVE  committed'[t] \in 0..Len(log'[t]) /\ position'[t] \in 0..Len(log'[t])
      <3>1. Len(log'[t]) \in Nat /\ committed'[t] \in Nat /\ position'[t] \in Nat
        BY <2>1 DEF DispatchTypes
      <3>2. committed'[t] <= position'[t] /\ position'[t] <= Len(log'[t])
        BY <2>1 DEF InOrder
      <3>3. QED
        BY <3>1, <3>2
    <2>3. QED
      BY <2>1, <2>2 DEF DispatchTypes
  <1>6. step' \in {"idle", "commit", "findOrder", "create", "findNearestDriver", "pickUp",
                   "respond", "commitAgain"}
    BY DEF DispatchInv, Control
  <1>7. timers' \in [Orders -> 0..MaxEvents]
    <2>1. "handOvered" \in Dispatch!Topics
      BY DEF Dispatch!Topics
    <2>2. /\ timers' \in [Orders -> Nat] /\ committed'["handOvered"] \in Nat
          /\ Len(log'["handOvered"]) \in Nat
          /\ \A o \in Orders : timers'[o] <= committed'["handOvered"]
          /\ committed'["handOvered"] <= Len(log'["handOvered"])
      <3>1. DispatchTypes' /\ Started'
        BY DEF DispatchInv
      <3>2. /\ timers' \in [Orders -> Nat] /\ committed'["handOvered"] \in Nat
            /\ Len(log'["handOvered"]) \in Nat
        BY <2>1, <3>1 DEF DispatchTypes
      <3>3. committed'["handOvered"] <= Len(log'["handOvered"])
        BY <1>5, <2>1, <3>2
      <3>4. QED
        BY <3>1, <3>2, <3>3 DEF Started
    <2>3. Len(log'["handOvered"]) <= MaxEvents
      BY <1>3, <2>1
    <2>4. QED
      BY <2>2, <2>3, OperationsAssumption
  <1>8. QED
    BY <1>1, <1>2, <1>3, <1>4, <1>5, <1>6, <1>7 DEF Dispatch!TypeOK

\* Partners' locations, and their connections.
LEMMA TrackingTyped ==
  ASSUME Tracking!TypeOK, TrackingInv, TrackingInv', Tracking!Next
  PROVE  Tracking!TypeOK'
  <1>1. faults' \in 0..MaxFaults
    <2>1. faults' = faults \/ Tracking!Fault
      BY DEF Tracking!Next, Tracking!Located, Tracking!handleConnection,
             Tracking!handleDisconnect, Tracking!handleAvailableLocationUpdate,
             Tracking!findStatus, Tracking!GeoAdd, Tracking!SetActive, Tracking!UpdateFails,
             Tracking!handleDeliveryResponse, Tracking!ActiveExpires, Tracking!updateStatus,
             Tracking!remove, Tracking!SetStatus, Tracking!Restart
    <2>2. QED
      BY <2>1, FaultsAssumption DEF Tracking!TypeOK, Tracking!Fault
  <1>2. \A s \in Sockets : update[s] # "idle" => owner[s] \in Partners
    BY DEF TrackingInv, Watched
  <1>3. located' \subseteq Partners /\ active' \subseteq Partners
    BY <1>2
       DEF Tracking!Next, Tracking!Located, Tracking!handleConnection,
           Tracking!handleDisconnect, Tracking!handleAvailableLocationUpdate,
           Tracking!findStatus, Tracking!GeoAdd, Tracking!SetActive, Tracking!UpdateFails,
           Tracking!handleDeliveryResponse, Tracking!ActiveExpires, Tracking!updateStatus,
           Tracking!remove, Tracking!SetStatus, Tracking!Restart, Tracking!redis,
           Tracking!TypeOK
  <1>4. sawOnline' \subseteq Sockets /\ rejected' \subseteq Sockets
    BY DEF Tracking!Next, Tracking!Located, Tracking!handleConnection,
           Tracking!handleDisconnect, Tracking!handleAvailableLocationUpdate,
           Tracking!findStatus, Tracking!GeoAdd, Tracking!SetActive, Tracking!UpdateFails,
           Tracking!handleDeliveryResponse, Tracking!ActiveExpires, Tracking!updateStatus,
           Tracking!remove, Tracking!SetStatus, Tracking!Restart, Tracking!TypeOK
  <1>5. QED
    BY <1>1, <1>3, <1>4 DEF Tracking!TypeOK, TrackingInv

\* Flags of documents, and the updates that nobody waits for.
LEMMA OfficeTyped ==
  ASSUME Office!TypeOK, OfficeInv, OfficeInv', OwnerType', Office!Next
  PROVE  Office!TypeOK'
  <1>1. faults' \in 0..MaxFaults
    <2>1. faults' = faults \/ Office!Fault
      BY DEF Office!Next, Office!Administer, Office!OpenRestaurant, Office!RequestFails,
             Office!UserUpdated, Office!UserUpdateFails, Office!ValidateManager,
             Office!InValidateManager, Office!blockRestaurant, Office!softDeleteRestaurant,
             Office!blockUser, Office!unblockUser, Office!remove, Office!Decide, Office!Refused,
             Office!FindDocument, Office!Update, Office!Reply, Office!UpdateUnanswered,
             Office!createRestaurant, Office!FindManager, Office!FindRestaurant,
             Office!SaveRestaurant, Office!Failure, Office!Restarted
    <2>2. QED
      BY <2>1, FaultsAssumption DEF Office!TypeOK, Office!Fault
  <1>2. seen' \subseteq Requests
    <2>1. Office!Watch
      BY DEF Office!Next, Office!Administer, Office!OpenRestaurant, Office!RequestFails,
             Office!UserUpdated, Office!UserUpdateFails, Office!ValidateManager,
             Office!InValidateManager, Office!blockRestaurant, Office!softDeleteRestaurant,
             Office!blockUser, Office!unblockUser, Office!remove, Office!Decide, Office!Refused,
             Office!FindDocument, Office!Update, Office!Reply, Office!UpdateUnanswered,
             Office!createRestaurant, Office!FindManager, Office!FindRestaurant,
             Office!SaveRestaurant
    <2>2. QED
      BY <2>1 DEF Office!Watch
  <1>3. unawaited' \subseteq Office!Change
    BY DEF Office!Next, Office!Administer, Office!OpenRestaurant, Office!RequestFails,
           Office!UserUpdated, Office!UserUpdateFails, Office!ValidateManager,
           Office!InValidateManager, Office!blockRestaurant, Office!softDeleteRestaurant,
           Office!blockUser, Office!unblockUser, Office!remove, Office!Decide, Office!Refused,
           Office!FindDocument, Office!Update, Office!Reply, Office!UpdateUnanswered,
           Office!createRestaurant, Office!FindManager, Office!FindRestaurant,
           Office!SaveRestaurant, Office!store, Office!TypeOK
  <1>4. flagged' \subseteq Office!Flags
    <2>1. ASSUME NEW c \in Office!Change, Office!Set(c) PROVE flagged' \subseteq Office!Flags
      BY <2>1 DEF Office!Set, Office!Flags, Office!TypeOK
    <2>2. \A r \in Requests : request[r].step = "update" => request[r].change \in Office!Change
      BY OfficeTypes DEF Office!Deciding
    <2>3. \/ flagged' = flagged
          \/ \E c \in unawaited : Office!Set(c)
          \/ \E r \in Requests : request[r].step = "update" /\ Office!Set(request[r].change)
      BY DEF Office!Next, Office!Administer, Office!OpenRestaurant, Office!RequestFails,
             Office!UserUpdated, Office!UserUpdateFails, Office!ValidateManager,
             Office!InValidateManager, Office!blockRestaurant, Office!softDeleteRestaurant,
             Office!blockUser, Office!unblockUser, Office!remove, Office!Decide, Office!Refused,
             Office!FindDocument, Office!Update, Office!Reply, Office!UpdateUnanswered,
             Office!createRestaurant, Office!FindManager, Office!FindRestaurant,
             Office!SaveRestaurant, Office!store
    <2>4. QED
      BY <2>1, <2>2, <2>3 DEF Office!TypeOK
  <1>5. QED
    BY <1>1, <1>2, <1>3, <1>4 DEF Office!TypeOK, OfficeInv, OwnerType

\* The status of complaints.
LEMMA ComplaintTyped ==
  ASSUME Complaint!TypeOK, ComplaintInv, ComplaintInv', Complaint!Next
  PROVE  Complaint!TypeOK'
  <1>1. faults' \in 0..MaxFaults
    <2>1. faults' = faults \/ Complaint!Fault
      BY DEF Complaint!Next, Complaint!createComplaint, Complaint!updateComplaintStatus,
             Complaint!FindComplaint, Complaint!FindOrder, Complaint!Update,
             Complaint!FindManager, Complaint!FindRestaurant, Complaint!UpdateUnanswered,
             Complaint!RequestFails, Complaint!Failure
    <2>2. QED
      BY <2>1, FaultsAssumption DEF Complaint!TypeOK, Complaint!Fault
  <1>2. complaint' \in [Complaints -> Status \cup {"none", "pending"}]
    <2>1. ASSUME NEW c \in Complaints, NEW x \in Status \cup {"pending"}, Complaint!Store(c, x)
          PROVE  complaint' \in [Complaints -> Status \cup {"none", "pending"}]
      BY <2>1 DEF Complaint!Store, Complaint!TypeOK
    <2>2. \A r \in Requests : request[r].step = "update" =>
            request[r].complaint \in Complaints /\ request[r].status \in Status
      BY UpdatingTypes DEF Complaint!Updating
    <2>3. \/ complaint' = complaint
          \/ \E c \in Complaints : Complaint!Store(c, "pending")
          \/ \E r \in Requests : /\ request[r].step = "update"
                                 /\ Complaint!Store(request[r].complaint, request[r].status)
      BY DEF Complaint!Next, Complaint!createComplaint, Complaint!updateComplaintStatus,
             Complaint!FindComplaint, Complaint!FindOrder, Complaint!Update,
             Complaint!FindManager, Complaint!FindRestaurant, Complaint!UpdateUnanswered,
             Complaint!RequestFails
    <2>4. QED
      BY <2>1, <2>2, <2>3 DEF Complaint!TypeOK
  <1>3. QED
    BY <1>1, <1>2 DEF Complaint!TypeOK, ComplaintInv

\* Menu items.
LEMMA RecordsTyped ==
  ASSUME Records!TypeOK, RecordInv, RecordInv', Records!Next
  PROVE  Records!TypeOK'
  <1>1. faults' \in 0..MaxFaults
    <2>1. faults' = faults \/ Records!Fault
      BY DEF Records!Next, Records!AddressController, Records!RestaurantController,
             Records!RatingController, Records!addRatingService,
             Records!addressCreateService, Records!FindAddress, Records!updateAddressService,
             Records!deleteAddressService, Records!FindByCustomer, Records!createMenuItem,
             Records!createCoupon, Records!updateCoupon, Records!FindRestaurant,
             Records!Answered, Records!Refused, Records!Unanswered, Records!RequestFails,
             Records!Failure
    <2>2. QED
      BY <2>1, FaultsAssumption DEF Records!TypeOK, Records!Fault
  <1>2. menuItem' \in [MenuItems -> Restaurants \cup {"none"}]
    <2>1. ASSUME NEW r \in Requests, Records!SaveMenuItem(r)
          PROVE  menuItem' \in [MenuItems -> Restaurants \cup {"none"}]
      <3>1. request[r].restaurant \in Restaurants
        BY <2>1, RecordTypes DEF Records!SaveMenuItem, Records!CreateMenuItem
      <3>2. PICK d \in Records!Uses(menuItem, "none") :
              menuItem' = [menuItem EXCEPT ![d] = request[r].restaurant]
        BY <2>1 DEF Records!SaveMenuItem, Records!Insert
      <3>3. QED
        BY <3>1, <3>2 DEF Records!TypeOK
    <2>2. menuItem' = menuItem \/ \E r \in Requests : Records!SaveMenuItem(r)
      BY DEF Records!Next, Records!AddressController, Records!RestaurantController,
             Records!RatingController, Records!addRatingService,
             Records!addressCreateService, Records!FindAddress, Records!updateAddressService,
             Records!deleteAddressService, Records!FindByCustomer, Records!createMenuItem,
             Records!createCoupon, Records!updateCoupon, Records!FindRestaurant,
             Records!Answered, Records!Refused, Records!Unanswered, Records!RequestFails,
             Records!Write, Records!SaveAddress, Records!SaveCoupon,
             Records!FindCouponAndUpdate, Records!SaveRating, Records!store
    <2>3. QED
      BY <2>1, <2>2 DEF Records!TypeOK
  <1>3. QED
    BY <1>1, <1>2 DEF Records!TypeOK, RecordInv

\* The types of the parts that are not at work: they share the count of faults,
\* and the dispatch and the tracking the partners who are located.
LEMMA OthersTyped ==
  ASSUME faults' \in 0..MaxFaults
  PROVE  /\ Gateway!TypeOK /\ UNCHANGED gatewayState => Gateway!TypeOK'
         /\ Dispatch!TypeOK /\ UNCHANGED dispatchState /\ located' \subseteq Partners
              => Dispatch!TypeOK'
         /\ Tracking!TypeOK /\ UNCHANGED trackingState /\ located' \subseteq Partners
              => Tracking!TypeOK'
  <1>1. Gateway!TypeOK /\ UNCHANGED gatewayState => Gateway!TypeOK'
    BY DEF gatewayState, Gateway!TypeOK
  <1>2. Dispatch!TypeOK /\ UNCHANGED dispatchState /\ located' \subseteq Partners => Dispatch!TypeOK'
    BY DEF dispatchState, Dispatch!TypeOK
  <1>3. Tracking!TypeOK /\ UNCHANGED trackingState /\ located' \subseteq Partners => Tracking!TypeOK'
    BY DEF trackingState, Tracking!TypeOK
  <1>4. QED
    BY <1>1, <1>2, <1>3

\* Every step keeps the types.
LEMMA TypesKept ==
  ASSUME TypeOK, IInv, IInv', [Next]_vars
  PROVE  TypeOK'
  <1>1. part' = part
    BY DEF Next, vars, GatewayNext, DispatchNext, TrackingNext, OfficeNext, ComplaintNext,
           RecordsNext
  <1>2. CASE UNCHANGED vars
    BY <1>2
       DEF vars, gatewayState, dispatchState, trackingState, officeState, complaintState,
           recordState, TypeOK, Gateway!TypeOK, Dispatch!TypeOK, Tracking!TypeOK,
           Office!TypeOK, Complaint!TypeOK, Records!TypeOK
  <1>3. CASE GatewayNext
    <2>1. Gateway!TypeOK'
      BY <1>3, GatewayTyped DEF GatewayNext, TypeOK, IInv
    <2>2. faults' \in 0..MaxFaults
      BY <2>1 DEF Gateway!TypeOK
    <2>3. located' \subseteq Partners
      BY <1>3 DEF GatewayNext, TypeOK, Tracking!TypeOK
    <2>4. QED
      BY <1>1, <1>3, <2>1, <2>2, <2>3, OthersTyped DEF GatewayNext, TypeOK
  <1>4. CASE DispatchNext
    <2>1. Dispatch!TypeOK'
      BY <1>4, DispatchTyped DEF DispatchNext, TypeOK, IInv
    <2>2. faults' \in 0..MaxFaults /\ located' \subseteq Partners
      BY <2>1 DEF Dispatch!TypeOK
    <2>3. QED
      BY <1>1, <1>4, <2>1, <2>2, OthersTyped DEF DispatchNext, TypeOK
  <1>5. CASE TrackingNext
    <2>1. Tracking!TypeOK'
      BY <1>5, TrackingTyped DEF TrackingNext, TypeOK, IInv
    <2>2. faults' \in 0..MaxFaults /\ located' \subseteq Partners
      BY <2>1 DEF Tracking!TypeOK
    <2>3. QED
      BY <1>1, <1>5, <2>1, <2>2, OthersTyped DEF TrackingNext, TypeOK
  <1>6. CASE OfficeNext
    <2>1. Office!TypeOK'
      BY <1>1, <1>6, OfficeTyped DEF OfficeNext, TypeOK, IInv
    <2>2. faults' \in 0..MaxFaults
      BY <2>1 DEF Office!TypeOK
    <2>3. located' \subseteq Partners
      BY <1>6 DEF OfficeNext, TypeOK, Tracking!TypeOK
    <2>4. QED
      BY <1>1, <1>6, <2>1, <2>2, <2>3, OthersTyped DEF OfficeNext, TypeOK
  <1>7. CASE ComplaintNext
    <2>1. Complaint!TypeOK'
      BY <1>1, <1>7, ComplaintTyped DEF ComplaintNext, TypeOK, IInv
    <2>2. faults' \in 0..MaxFaults
      BY <2>1 DEF Complaint!TypeOK
    <2>3. located' \subseteq Partners
      BY <1>7 DEF ComplaintNext, TypeOK, Tracking!TypeOK
    <2>4. QED
      BY <1>1, <1>7, <2>1, <2>2, <2>3, OthersTyped DEF ComplaintNext, TypeOK
  <1>8. CASE RecordsNext
    <2>1. Records!TypeOK'
      BY <1>1, <1>8, RecordsTyped DEF RecordsNext, TypeOK, IInv
    <2>2. faults' \in 0..MaxFaults
      BY <2>1 DEF Records!TypeOK
    <2>3. located' \subseteq Partners
      BY <1>8 DEF RecordsNext, TypeOK, Tracking!TypeOK
    <2>4. QED
      BY <1>1, <1>8, <2>1, <2>2, <2>3, OthersTyped DEF RecordsNext, TypeOK
  <1>9. QED
    BY <1>2, <1>3, <1>4, <1>5, <1>6, <1>7, <1>8 DEF Next

----------------------------------------------------------------------------
(* Theorems *)

\* The invariant holds at all times, and every step is as the properties say.
LEMMA Invariant == Spec => []IInv /\ [][Acts]_vars
  <1>1. Init => IInv
    BY InitIInv
  <1>2. IInv /\ [Next]_vars => IInv' /\ [Acts]_vars
    BY NextKeeps
  <1>3. QED
    BY <1>1, <1>2, PTL DEF Spec

\* Each part's state has its types at all times; in particular an order has no
\* more timers than there are events of pick-ups, however often the consumer
\* restarts.
THEOREM TypeCorrect == Spec => []TypeOK
  <1>1. Init => TypeOK
    <2> SUFFICES ASSUME Init PROVE TypeOK
      OBVIOUS
    <2>1. faults = 0 /\ faults \in 0..MaxFaults
      BY FaultsAssumption DEF Init, Gateway!Init
    <2>2. Gateway!TypeOK /\ Tracking!TypeOK
      BY <2>1 DEF Init, Gateway!Init, Gateway!TypeOK, Tracking!Init, Tracking!TypeOK,
                  Tracking!DeliveryPartnerStatus, Tracking!Updates
    <2>3. Dispatch!TypeOK
      BY <2>1, OperationsAssumption DEF Init, Dispatch!Init, Dispatch!TypeOK, Dispatch!Topics
    <2>4. Office!TypeOK
      <3>1. [flag: {"is_active"}, of: Users] \subseteq Office!Flags
        <4>1. ASSUME NEW f \in [flag: {"is_active"}, of: Users] PROVE f \in Office!Flags
          <5>1. [flag |-> "is_active", of |-> f.of, value |-> TRUE] \in Office!Change
            BY DEF Office!Change
          <5>2. f = Office!FlagOf([flag |-> "is_active", of |-> f.of, value |-> TRUE])
            BY DEF Office!FlagOf
          <5>3. QED
            BY <5>1, <5>2 DEF Office!Flags
        <4>2. QED
          BY <4>1
      <3>2. QED
        BY <2>1, <3>1 DEF Init, Office!Init, Office!NoRequests, Office!TypeOK, Office!Idle
    <2>5. Complaint!TypeOK
      BY <2>1 DEF Init, Complaint!Init, Complaint!NoRequests, Complaint!TypeOK, Complaint!Idle
    <2>6. Records!TypeOK
      BY <2>1 DEF Init, Records!Init, Records!NoRequests, Records!TypeOK, Records!Idle
    <2>7. QED
      BY <2>2, <2>3, <2>4, <2>5, <2>6 DEF Init, TypeOK
  <1>2. TypeOK /\ IInv /\ IInv' /\ [Next]_vars => TypeOK'
    BY TypesKept
  <1>3. QED
    BY <1>1, <1>2, Invariant, PTL DEF Spec

\* Answers of a manager, whatever they are to, never change what a call returned.
THEOREM AlwaysAnsweredOnce == Spec => AnsweredOnce
  <1>1. [Acts]_vars => [Gateway!Answered]_(Gateway!vars)
    BY DEF Acts, vars, Gateway!vars, gatewayState
  <1>2. QED
    BY <1>1, Invariant, PTL DEF AnsweredOnce, Gateway!AnsweredOnce

\* Only partners who were ONLINE meanwhile are listed as available.
THEOREM AlwaysOnlineLocated == Spec => OnlyOnlineLocated
  <1>1. [Acts]_vars => [part = "tracking" => Tracking!LocatedOnline]_vars
    BY DEF Acts
  <1>2. QED
    BY <1>1, Invariant, PTL DEF OnlyOnlineLocated

\* An administrator's decision has been so before it is answered.
THEOREM AlwaysDecidedBeforeReply == Spec => DecidedBeforeReply
  <1>1. [Acts]_vars => [Office!Decided]_(Office!vars)
    BY DEF Acts, vars, Office!vars, Office!store, officeState
  <1>2. QED
    BY <1>1, Invariant, PTL DEF DecidedBeforeReply, Office!DecidedBeforeReply

\* Restaurants are created for managers who were valid.
THEOREM AlwaysOwnersWereValid == Spec => OwnersWereValid
  <1>1. [Acts]_vars => [Office!OwnerWasValid]_(Office!vars)
    BY DEF Acts, vars, Office!vars, Office!store, officeState
  <1>2. QED
    BY <1>1, Invariant, PTL DEF OwnersWereValid, Office!OwnersWereValid

\* Managers are told of updates that were stored.
THEOREM AlwaysUpdatedWasStored == Spec => []UpdatedWasStored
  <1>1. IInv => UpdatedWasStored
    BY DEF IInv, ComplaintInv, UpdatedWasStored
  <1>2. QED
    BY <1>1, Invariant, PTL

\* A key of an address, of a coupon or of a rating is that of one document.
THEOREM AlwaysKeysUnique == Spec => []KeysAreUnique
  <1>1. IInv => KeysAreUnique
    BY DEF IInv
  <1>2. QED
    BY <1>1, Invariant, PTL

\* The instance of FiniteSets in Dispatch counts as FiniteSets does.
LEMMA SameCardinality == \A S : Dispatch!Cardinality(S) = Cardinality(S)
  BY DEF Dispatch!Cardinality, Cardinality

\* However often events are taken, an order has no more deliveries than events.
THEOREM AlwaysCreatedOnce == Spec => []CreatedOnce
  <1>1. IInv => CreatedOnce
    <2> SUFFICES ASSUME DispatchInv, NEW o \in Orders
                 PROVE  Len(deliveries[o]) <=
                          Cardinality({i \in 1..Len(log["newOrder"]) : log["newOrder"][i] = o})
      BY SameCardinality DEF CreatedOnce, Dispatch!CreatedOnce, IInv
    <2> DEFINE E == {i \in 1..Len(log["newOrder"]) : log["newOrder"][i] = o}
    <2>1. Len(log["newOrder"]) \in Nat /\ committed["newOrder"] \in Nat
          /\ committed["newOrder"] <= Len(log["newOrder"])
      BY DEF DispatchInv, DispatchTypes, InOrder, Dispatch!Topics
    <2>2. IsFiniteSet(1..Len(log["newOrder"])) /\ E \in SUBSET (1..Len(log["newOrder"]))
      <3>1. E \in SUBSET (1..Len(log["newOrder"]))
        OBVIOUS
      <3>2. 1 \in Int /\ Len(log["newOrder"]) \in Int
        BY <2>1
      <3> HIDE DEF E
      <3>3. QED
        BY <3>1, <3>2, FS_Interval
    <2>3. IsFiniteSet(E) /\ Cardinality(E) \in Nat
      BY <2>2, FS_Subset, FS_CardinalityType
    <2>4. Done(o) \in SUBSET E
      BY <2>1 DEF Done
    <2>5. Cardinality(Done(o)) <= Cardinality(E) /\ Cardinality(Done(o)) \in Nat
      BY <2>3, <2>4, FS_Subset, DoneIsFinite DEF DispatchInv
    <2>6. Len(deliveries[o]) \in Nat /\ Len(deliveries[o]) <= Cardinality(Done(o))
      BY DEF DispatchInv, DispatchTypes, Made
    <2>7. QED
      BY <2>3, <2>5, <2>6
  <1>2. QED
    BY <1>1, Invariant, PTL

\* A delivery that was picked up has a timer to move it on, unless a restart or
\* a failed call has taken it.
THEOREM PickedUpHasTimer ==
  Spec => [](\A o \in Orders : Dispatch!PickedUp(o) => timers[o] > 0 \/ o \in abandoned)
  <1>1. IInv => \A o \in Orders : Dispatch!PickedUp(o) => timers[o] > 0 \/ o \in abandoned
    BY DEF IInv, DispatchInv, Timed
  <1>2. QED
    BY <1>1, Invariant, PTL
=============================================================================

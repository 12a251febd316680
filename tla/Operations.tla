----------------------------- MODULE Operations -----------------------------
(***************************************************************************)
(* What goes on around an order once it is placed, and around the          *)
(* restaurants: the managers' gateway, the dispatch of deliveries, the     *)
(* partners' locations, the administrator's decisions, complaints, and the *)
(* records of customers and restaurants.  They share no state but the      *)
(* located partners, which the dispatch reads and takes to be any          *)
(* (LocatedChanges); so a behaviour is that of one part, chosen at the     *)
(* start.                                                                  *)
(***************************************************************************)
EXTENDS Handlers

CONSTANTS
  Sockets, NoSocket, Questions,             \* of ManagerGateway; Tracking has Sockets too
  Orders, Partners, NoPartner, MaxEvents,   \* of Dispatch and Tracking
  Managers, NoManager, Restaurants, Users,  \* of Backoffice
  Complaints, Status,                       \* of Complaints
  Addresses, Coupons, MenuItems, Ratings, Places, Codes, Rated  \* of Records

ASSUME OperationsAssumption ==
  MaxEvents \in Nat /\ NoSocket \notin Sockets /\ NoPartner \notin Partners

VARIABLES
  part,                                                  \* the part at work
  socket, connected, question, asked, listening, heard,  \* ManagerGateway
  log, committed, position, topic, step,                 \* Dispatch
  deliveries, timers, abandoned, answered,               \* Dispatch
  located,                                               \* Dispatch and Tracking
  status, active, owner, open, update, sawOnline, rejected,  \* Tracking
  flagged, restaurantOwner, unawaited, seen,             \* Backoffice
  complaint, stored,                                     \* Complaints
  address, coupon, menuItem, rating                      \* Records

Gateway == INSTANCE ManagerGateway
Dispatch == INSTANCE Dispatch
Tracking == INSTANCE Tracking
Office == INSTANCE Backoffice WITH owner <- restaurantOwner
Complaint == INSTANCE Complaints
Records == INSTANCE Records

gatewayState == <<socket, connected, question, asked, listening, heard>>
dispatchState == <<log, committed, position, topic, step, deliveries, timers, abandoned, answered>>
trackingState == <<status, active, owner, open, update, sawOnline, rejected>>
officeState == <<flagged, restaurantOwner, unawaited, seen>>
complaintState == <<complaint, stored>>
recordState == <<address, coupon, menuItem, rating>>
vars ==
  <<part, gatewayState, dispatchState, located, trackingState, officeState, complaintState,
    recordState, request, faults>>

Init ==
  /\ part \in {"gateway", "dispatch", "tracking", "office", "complaint", "records"}
  /\ Gateway!Init /\ Dispatch!Init /\ Tracking!Init /\ Office!Init /\ Complaint!Init
  /\ Records!Init

GatewayNext ==
  /\ part = "gateway" /\ Gateway!Next
  /\ UNCHANGED <<part, dispatchState, located, trackingState, officeState, complaintState,
                 recordState, request>>
DispatchNext ==
  /\ part = "dispatch" /\ Dispatch!Next
  /\ UNCHANGED <<part, gatewayState, trackingState, officeState, complaintState,
                 recordState, request>>
TrackingNext ==
  /\ part = "tracking" /\ Tracking!Next
  /\ UNCHANGED <<part, gatewayState, dispatchState, officeState, complaintState,
                 recordState, request>>
OfficeNext ==
  /\ part = "office" /\ Office!Next
  /\ UNCHANGED <<part, gatewayState, dispatchState, located, trackingState,
                 complaintState, recordState>>
ComplaintNext ==
  /\ part = "complaint" /\ Complaint!Next
  /\ UNCHANGED <<part, gatewayState, dispatchState, located, trackingState, officeState,
                 recordState>>
RecordsNext ==
  /\ part = "records" /\ Records!Next
  /\ UNCHANGED <<part, gatewayState, dispatchState, located, trackingState, officeState,
                 complaintState>>

Next ==
  \/ GatewayNext \/ DispatchNext \/ TrackingNext
  \/ OfficeNext \/ ComplaintNext \/ RecordsNext

\* What needs no request to go on: timers, and the consumer's loop.
Spec == Init /\ [][Next]_vars /\ Gateway!Fairness /\ Dispatch!Fairness

TypeOK ==
  /\ part \in {"gateway", "dispatch", "tracking", "office", "complaint", "records"}
  /\ Gateway!TypeOK /\ Dispatch!TypeOK /\ Tracking!TypeOK
  /\ part = "office" => Office!TypeOK
  /\ part = "complaint" => Complaint!TypeOK
  /\ part = "records" => Records!TypeOK

----------------------------------------------------------------------------
(* Properties *)

\* A manager's answer settles the calls that wait for it, once.
AnsweredOnce == Gateway!AnsweredOnce

\* A call to a manager ends, whether or not the manager answers.
QuestionSettles == Gateway!QuestionSettles

\* An event makes one delivery at most, however often it is taken.
CreatedOnce == Dispatch!CreatedOnce

\* No event blocks the ones behind it.
EventsTaken == Dispatch!EventsTaken

\* A delivery that was picked up moves on.
PickedUpMovesOn == Dispatch!PickedUpMovesOn

\* Only a partner who was ONLINE meanwhile is listed as available.
OnlyOnlineLocated == [][part = "tracking" => Tracking!LocatedOnline]_vars

\* What an administrator is told of managers and restaurants was so.
DecidedBeforeReply == Office!DecidedBeforeReply

\* A restaurant is created for a valid manager only.
OwnersWereValid == Office!OwnersWereValid

\* A manager who is told that a complaint was updated is told what was stored.
UpdatedWasStored == part = "complaint" => Complaint!UpdatedWasStored

\* No two addresses of a customer at one place, coupons with one code, ratings
\* of one order.
KeysAreUnique == Records!KeysAreUnique
=============================================================================

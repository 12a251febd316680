------------------------------ MODULE Tracking ------------------------------
(***************************************************************************)
(* Where delivery partners are: a partner connects to the tracking         *)
(* gateway and sends locations; those of a partner whose status is ONLINE  *)
(* go to Redis, where the dispatch of an order looks for partners nearby.  *)
(* Nothing takes a partner out again: the handler of a disconnection       *)
(* fails before it calls Redis, and neither a new status nor the removal   *)
(* of the partner's account looks there.  Customers' connections are left  *)
(* out: they are put into a map of their own, which is never read, because *)
(* the handler that would read it fails first (handleDeliveryResponse).    *)
(***************************************************************************)
EXTENDS Faults

CONSTANTS
  Partners,   \* delivery partners with an access token
  Sockets,    \* connections, each opened once
  NoPartner   \* "none"

VARIABLES
  status,     \* MongoDB: the status of each partner, "removed" if there is no document
  located,    \* Redis: the members of availableDrivers
  active,     \* Redis: the driver:active:<partner> keys
  owner,      \* the partner behind each connection
  open,       \* the connections that are there
  update,     \* the location update each connection's handler is busy with
  sawOnline,  \* connections whose partner was ONLINE at a time during that update
  rejected    \* connections whose acceptance of an order was answered with an error

redis == <<located, active>>
sockets == <<owner, open>>
vars == <<status, redis, sockets, update, sawOnline, rejected, faults>>

DeliveryPartnerStatus == {"ONLINE", "OFFLINE", "OCCUPIED"}
Updates == {"idle", "findStatus", "geoadd", "setActive"}

TypeOK ==
  /\ status \in [Partners -> DeliveryPartnerStatus \cup {"removed"}]
  /\ located \subseteq Partners
  /\ active \subseteq Partners
  /\ owner \in [Sockets -> Partners \cup {NoPartner}]
  /\ open \subseteq Sockets
  /\ update \in [Sockets -> Updates]
  /\ sawOnline \subseteq Sockets
  /\ rejected \subseteq Sockets
  /\ faults \in 0..MaxFaults

Init ==
  /\ status = [p \in Partners |-> "OFFLINE"]
  /\ located = {}
  /\ active = {}
  /\ owner = [s \in Sockets |-> NoPartner]
  /\ open = {}
  /\ update = [s \in Sockets |-> "idle"]
  /\ sawOnline = {}
  /\ rejected = {}
  /\ faults = 0

----------------------------------------------------------------------------
(* Connections *)

\* The token is valid and a partner's.  That there is an entry for it in
\* deliveryPartnersMap is left out: its key is a new object, which no later
\* look-up or deletion finds.
handleConnection(s, p) ==
  /\ owner[s] = NoPartner
  /\ owner' = [owner EXCEPT ![s] = p]
  /\ open' = open \cup {s}
  /\ UNCHANGED <<status, redis, update, sawOnline, rejected, faults>>

\* removeDriver is not reached: the id in the token is a string.
handleDisconnect(s) ==
  /\ s \in open
  /\ open' = open \ {s}
  /\ UNCHANGED <<status, redis, owner, update, sawOnline, rejected, faults>>

----------------------------------------------------------------------------
(* handleAvailableLocationUpdate, one at a time for each connection.       *)

handleAvailableLocationUpdate(s) ==
  /\ s \in open
  /\ update[s] = "idle"
  /\ update' = [update EXCEPT ![s] = "findStatus"]
  /\ sawOnline' = IF status[owner[s]] = "ONLINE" THEN sawOnline \cup {s} ELSE sawOnline \ {s}
  /\ UNCHANGED <<status, redis, sockets, rejected, faults>>

Goes(s, next) == update' = [update EXCEPT ![s] = next]

\* Fault: a partner who is busy with an order is taken as well.
findStatus_NotOffline(s) ==
  /\ update[s] = "findStatus"
  /\ Goes(s, IF status[owner[s]] \in {"ONLINE", "OCCUPIED"} THEN "geoadd" ELSE "idle")
  /\ UNCHANGED <<status, redis, sockets, sawOnline, rejected, faults>>

findStatus(s) ==
  /\ update[s] = "findStatus"
  /\ Goes(s, IF status[owner[s]] = "ONLINE" THEN "geoadd" ELSE "idle")
  /\ UNCHANGED <<status, redis, sockets, sawOnline, rejected, faults>>

\* updateDriverLocation: two calls of Redis.
GeoAdd(s) ==
  /\ update[s] = "geoadd"
  /\ located' = located \cup {owner[s]}
  /\ Goes(s, "setActive")
  /\ UNCHANGED <<status, active, sockets, sawOnline, rejected, faults>>

SetActive(s) ==
  /\ update[s] = "setActive"
  /\ active' = active \cup {owner[s]}
  /\ Goes(s, "idle")
  /\ UNCHANGED <<status, located, sockets, sawOnline, rejected, faults>>

ActiveExpires(p) ==
  /\ p \in active
  /\ active' = active \ {p}
  /\ UNCHANGED <<status, located, sockets, update, sawOnline, rejected, faults>>

----------------------------------------------------------------------------
\* A partner accepts an order: the id of the order is a string, so the handler
\* fails in its try block, whatever the order is.
handleDeliveryResponse(s) ==
  /\ s \in open
  /\ rejected' = rejected \cup {s}
  /\ UNCHANGED <<status, redis, sockets, update, sawOnline, faults>>

SetStatus(p, new) ==
  /\ status[p] # "removed"
  /\ status' = [status EXCEPT ![p] = new]
  /\ sawOnline' = sawOnline \cup {s \in Sockets : new = "ONLINE" /\ owner[s] = p /\ update[s] # "idle"}
  /\ UNCHANGED <<redis, sockets, update, rejected, faults>>

updateStatus(p) == \E new \in DeliveryPartnerStatus : SetStatus(p, new)
remove(p) == SetStatus(p, "removed")

UpdateFails(s) ==
  /\ update[s] # "idle"
  /\ Fault
  /\ Goes(s, "idle")
  /\ UNCHANGED <<status, redis, sockets, sawOnline, rejected>>

Restart ==
  /\ Fault
  /\ open' = {}
  /\ update' = [s \in Sockets |-> "idle"]
  /\ UNCHANGED <<status, redis, owner, sawOnline, rejected>>

Located(s) ==
  handleAvailableLocationUpdate(s) \/ findStatus(s) \/ GeoAdd(s) \/ SetActive(s) \/ UpdateFails(s)

Next ==
  \/ \E s \in Sockets :
       (\E p \in Partners : handleConnection(s, p)) \/ handleDisconnect(s) \/ Located(s) \/ handleDeliveryResponse(s)
  \/ \E p \in Partners : ActiveExpires(p) \/ updateStatus(p) \/ remove(p)
  \/ Restart

Spec == Init /\ [][Next]_vars

----------------------------------------------------------------------------
(* Properties *)

\* A partner is put on the list of those available only by an update during
\* which the partner was ONLINE, although the status changes while a location
\* is written.
LocatedOnline ==
  \A p \in located' \ located : \E s \in sawOnline : owner[s] = p /\ update[s] = "geoadd"
OnlyOnlineLocated == [][LocatedOnline]_vars
=============================================================================

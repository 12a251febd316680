------------------------------ MODULE Handlers ------------------------------
(***************************************************************************)
(* How a service handles HTTP requests: each is split at its awaits, and   *)
(* request[r] says what request r will do next and with what.  A handler   *)
(* that ends, whatever it answers, makes r free for another request.       *)
(***************************************************************************)
EXTENDS Faults

CONSTANT Requests  \* HTTP requests the service may be handling at a time

VARIABLE request  \* the requests being handled

Idle == [step |-> "idle"]
NoRequests == request = [r \in Requests |-> Idle] /\ faults = 0

Start(r, q) == request[r] = Idle /\ request' = [request EXCEPT ![r] = q]
Continue(r, next) == request' = [request EXCEPT ![r].step = next]
Finish(r) == request' = [request EXCEPT ![r] = Idle]

\* A call fails, and the handler's catch block answers 4xx or 5xx.
Failure(r) == request[r] # Idle /\ Fault /\ Finish(r)

\* The process restarts, and forgets what it was doing.
Restarted == Fault /\ request' = [r \in Requests |-> Idle]
=============================================================================

----------------------------- MODULE Complaints -----------------------------
(***************************************************************************)
(* Complaints of customers, which managers of restaurants give a status:   *)
(* the status is stored, and then the message that should tell the         *)
(* customer of it is put together, which never comes to pass.  Several     *)
(* managers may work on one complaint at a time.                           *)
(***************************************************************************)
EXTENDS Handlers

CONSTANTS
  Complaints,  \* ids of complaints, each drawn once
  Status       \* what a manager may set

VARIABLES
  complaint,   \* the status of each complaint
  stored       \* what the complaint of each request was set to since it began

vars == <<complaint, stored, request, faults>>

EmitSteps == {"readManager", "readRestaurant"}
Steps == {"findComplaint", "findOrder", "update"} \cup EmitSteps
Updating == [step: Steps, complaint: Complaints, status: Status]

TypeOK ==
  /\ complaint \in [Complaints -> Status \cup {"none", "pending"}]
  /\ stored \in [Requests -> SUBSET (Status \cup {"pending"})]
  /\ request \in [Requests -> Updating \cup {Idle}]
  /\ faults \in 0..MaxFaults

Init ==
  /\ complaint = [c \in Complaints |-> "none"]
  /\ stored = [r \in Requests |-> {}]
  /\ NoRequests

About(c) == {r \in Requests : request[r] # Idle /\ request[r].complaint = c}

Store(c, status) ==
  /\ complaint' = [complaint EXCEPT ![c] = status]
  /\ stored' = [r \in Requests |-> IF r \in About(c) THEN stored[r] \cup {status} ELSE stored[r]]

----------------------------------------------------------------------------
createComplaint(c) ==
  /\ complaint[c] = "none"
  /\ Store(c, "pending")
  /\ UNCHANGED <<request, faults>>

updateComplaintStatus(r, c, status) ==
  /\ Start(r, [step |-> "findComplaint", complaint |-> c, status |-> status])
  /\ stored' = [stored EXCEPT ![r] = {}]
  /\ UNCHANGED <<complaint, faults>>

FindComplaint(r) ==
  /\ request[r].step = "findComplaint"
  /\ IF complaint[request[r].complaint] = "none" THEN Finish(r) ELSE Continue(r, "findOrder")
  /\ UNCHANGED <<complaint, stored, faults>>

\* The order may not be there.
FindOrder(r) ==
  /\ request[r].step = "findOrder"
  /\ Continue(r, "update") \/ Finish(r)
  /\ UNCHANGED <<complaint, stored, faults>>

\* Fault: that the update has failed is only logged.
Update_FailureLogged(r) ==
  /\ request[r].step = "update"
  /\ Store(request[r].complaint, request[r].status) \/ UNCHANGED <<complaint, stored>>
  /\ Continue(r, "readManager")
  /\ UNCHANGED faults

Update(r) ==
  /\ request[r].step = "update"
  /\ Store(request[r].complaint, request[r].status)
  /\ Continue(r, "readManager")
  /\ UNCHANGED faults

\* emitComplaintNotification: what fails here is only logged, and the manager
\* who asked is answered that the status was updated.  The complaint's manager may
\* not be there.
FindManager(r) ==
  /\ request[r].step = "readManager"
  /\ Continue(r, "readRestaurant") \/ Finish(r)
  /\ UNCHANGED <<complaint, stored, faults>>

\* A restaurant is looked for by a managerId that is a string, where an ObjectId
\* was stored: none is found, and no message is ever sent.
FindRestaurant(r) ==
  /\ request[r].step = "readRestaurant"
  /\ Finish(r)
  /\ UNCHANGED <<complaint, stored, faults>>

\* MongoDB stores the status, and its answer is lost.
UpdateUnanswered(r) ==
  /\ request[r].step = "update"
  /\ Store(request[r].complaint, request[r].status)
  /\ Failure(r)

RequestFails(r) ==
  /\ Failure(r)
  /\ UNCHANGED <<complaint, stored>>

Next ==
  \/ \E c \in Complaints :
       createComplaint(c) \/ \E r \in Requests, status \in Status : updateComplaintStatus(r, c, status)
  \/ \E r \in Requests :
       \/ FindComplaint(r) \/ FindOrder(r) \/ Update(r) \/ FindManager(r) \/ FindRestaurant(r)
       \/ UpdateUnanswered(r) \/ RequestFails(r)

Spec == Init /\ [][Next]_vars

----------------------------------------------------------------------------
(* Properties *)

\* A manager who is answered that a status was updated, as is done even when the
\* notification fails, is answered so of a complaint that was given that status
\* during the request, whatever other managers do to it meanwhile.
UpdatedWasStored ==
  \A r \in Requests : request[r].step \in EmitSteps => request[r].status \in stored[r]
=============================================================================

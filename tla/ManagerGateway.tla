--------------------------- MODULE ManagerGateway ---------------------------
(***************************************************************************)
(* The gateway that asks a restaurant manager over a web socket whether an *)
(* order can be cooked, and gives up after 30 seconds.  Managers share     *)
(* nothing, so there is one.  Who asks is left open: the only caller in    *)
(* the service never finds the manager it looks for.                       *)
(***************************************************************************)
EXTENDS Faults

CONSTANTS
  Sockets,    \* connections of the manager, each opened once
  NoSocket,   \* "none"
  Questions   \* calls of handleIsFoodAvailable

VARIABLES
  socket,     \* each connection; "verifying": its token is being looked at
  connected,  \* connectedManagers: the manager's entry
  question,   \* how each call stands
  asked,      \* the socket each call was sent to
  listening,  \* calls whose listener is on its socket
  heard       \* what the manager sent first on the socket after each call

vars == <<socket, connected, question, asked, listening, heard, faults>>

Settled == {"approved", "refused", "timeout", "notConnected"}

TypeOK ==
  /\ socket \in [Sockets -> {"none", "verifying", "open", "closed", "closedVerifying"}]
  /\ connected \in Sockets \cup {NoSocket}
  /\ question \in [Questions -> {"none", "pending", "lost"} \cup Settled]
  /\ asked \in [Questions -> Sockets \cup {NoSocket}]
  /\ listening \subseteq Questions
  /\ heard \in [Questions -> {"none", "approved", "refused"}]
  /\ faults \in 0..MaxFaults

Init ==
  /\ socket = [s \in Sockets |-> "none"]
  /\ connected = NoSocket
  /\ question = [q \in Questions |-> "none"]
  /\ asked = [q \in Questions |-> NoSocket]
  /\ listening = {}
  /\ heard = [q \in Questions |-> "none"]
  /\ faults = 0

calls == <<question, asked, listening, heard>>
Open(s) == socket[s] \in {"verifying", "open"}

----------------------------------------------------------------------------
(* Connections *)

handleConnection(s) ==
  /\ socket[s] = "none"
  /\ socket' = [socket EXCEPT ![s] = "verifying"]
  /\ UNCHANGED <<connected, calls, faults>>

\* The entry of an earlier connection is replaced, and it is not looked at
\* whether this one is still there.
Verified(s) ==
  /\ socket[s] \in {"verifying", "closedVerifying"}
  /\ socket' = [socket EXCEPT ![s] = IF Open(s) THEN "open" ELSE "closed"]
  /\ connected' = s
  /\ UNCHANGED <<calls, faults>>

\* The handler throws: if the process survives that, the connection stays.
NotVerified(s) ==
  /\ socket[s] \in {"verifying", "closedVerifying"}
  /\ socket' = [socket EXCEPT ![s] = IF Open(s) THEN "open" ELSE "closed"]
  /\ UNCHANGED <<connected, calls, faults>>

\* client.data.manager is set by a guard that is not used, so the entry stays.
handleDisconnect(s) ==
  /\ Open(s)
  /\ socket' = [socket EXCEPT ![s] = IF @ = "verifying" THEN "closedVerifying" ELSE "closed"]
  /\ UNCHANGED <<connected, calls, faults>>

----------------------------------------------------------------------------
(* Questions *)

handleIsFoodAvailable(q) ==
  /\ question[q] = "none"
  /\ IF connected = NoSocket
     THEN /\ question' = [question EXCEPT ![q] = "notConnected"]
          /\ UNCHANGED <<asked, listening>>
     ELSE /\ question' = [question EXCEPT ![q] = "pending"]
          /\ asked' = [asked EXCEPT ![q] = connected]
          /\ listening' = listening \cup {q}
  /\ UNCHANGED <<socket, connected, heard, faults>>

Listeners(s) == {q \in listening : asked[q] = s}

\* Fault: what was rejected at the time-out is settled again.
orderResponse_AfterTimeout(s, answer) ==
  /\ Open(s)
  /\ LET given == Listeners(s) IN
     /\ question' = [q \in Questions |-> IF q \in given THEN answer ELSE question[q]]
     /\ listening' = listening \ given
     /\ heard' = [q \in Questions |-> IF asked[q] = s /\ heard[q] = "none" THEN answer ELSE heard[q]]
  /\ UNCHANGED <<socket, connected, asked, faults>>

\* Every listener of the socket hears what the manager sends, also the one of
\* a call that timed out, and removes itself.
orderResponse(s, answer) ==
  /\ Open(s)
  /\ LET given == Listeners(s) IN
     /\ question' = [q \in Questions |->
          IF q \in given /\ question[q] = "pending" THEN answer ELSE question[q]]
     /\ listening' = listening \ given
     /\ heard' = [q \in Questions |-> IF asked[q] = s /\ heard[q] = "none" THEN answer ELSE heard[q]]
  /\ UNCHANGED <<socket, connected, asked, faults>>

\* Fault: no time-out for a connection that is gone.
Timeout_OpenOnly(q) ==
  /\ question[q] = "pending"
  /\ Open(asked[q])
  /\ question' = [question EXCEPT ![q] = "timeout"]
  /\ UNCHANGED <<socket, connected, asked, listening, heard, faults>>

\* The listener stays on the socket.
Timeout(q) ==
  /\ question[q] = "pending"
  /\ question' = [question EXCEPT ![q] = "timeout"]
  /\ UNCHANGED <<socket, connected, asked, listening, heard, faults>>

----------------------------------------------------------------------------
Restart ==
  /\ Fault
  /\ socket' = [s \in Sockets |-> IF socket[s] = "none" THEN "none" ELSE "closed"]
  /\ connected' = NoSocket
  /\ question' = [q \in Questions |-> IF question[q] = "pending" THEN "lost" ELSE question[q]]
  /\ listening' = {}
  /\ UNCHANGED <<asked, heard>>

Connection(s) == handleConnection(s) \/ Verified(s) \/ NotVerified(s) \/ handleDisconnect(s)

Next ==
  \/ \E s \in Sockets : Connection(s) \/ \E answer \in {"approved", "refused"} : orderResponse(s, answer)
  \/ \E q \in Questions : handleIsFoodAvailable(q) \/ Timeout(q)
  \/ Restart

\* A timer of the process that runs fires.
Fairness == \A q \in Questions : WF_vars(Timeout(q))

Spec == Init /\ [][Next]_vars /\ Fairness

----------------------------------------------------------------------------
(* Properties *)

\* A call is settled by the first answer the manager sends on its socket after
\* it, or by the time-out: answers to earlier calls, late ones and those that
\* all listeners of a socket hear never change what a call has returned.
Answered ==
  \A q \in Questions :
    /\ question[q] \in Settled => question'[q] = question[q]
    /\ question'[q] \in {"approved", "refused"} => question'[q] = heard'[q]
AnsweredOnce == [][Answered]_vars

\* Every call ends, though connections come and go and the manager may never
\* answer: it returns, or the process it is in dies.
QuestionSettles ==
  \A q \in Questions : question[q] = "pending" ~> question[q] \in Settled \cup {"lost"}
=============================================================================

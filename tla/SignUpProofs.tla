---------------------------- MODULE SignUpProofs ----------------------------
(***************************************************************************)
(* SignUp, for any number of e-mails, codes, users and requests.           *)
(*                                                                         *)
(* What keeps sign-ups of one e-mail apart is that each works on a         *)
(* document of its own (OwnDocument), so that an undone sign-up deletes    *)
(* nothing of another; and that a session is written before the call that  *)
(* stores it returns (ReturnedIsCached).                                   *)
(***************************************************************************)
EXTENDS SignUp, TLAPS

Saved == {"tokens", "undo"}

\* A request in flight works on an id that is its own, whose document is there
\* from the save to the deletion.
OwnDocument ==
  \A r \in Requests : request[r].step \in SignUpSteps =>
    /\ request[r].step \in Saved => outcome[request[r].id] = "pending"
    /\ request[r].step \notin Saved => outcome[request[r].id] = "none"
    /\ request[r].step = "tokens" => user[request[r].id] # NoEmail
    /\ \A q \in Requests : q # r /\ request[q].step \in SignUpSteps =>
         request[q].id # request[r].id

\* The call behind a success has returned, with the session in both stores.
ReturnedIsCached ==
  \A u \in Users :
    /\ call[u] = "returned" => session[u] = "cached"
    /\ outcome[u] = "success" => call[u] = "returned" /\ user[u] # NoEmail

IInv == TypeOK /\ OwnDocument /\ ReturnedIsCached /\ FailureIsUndone

----------------------------------------------------------------------------
(* Requests *)

\* What the step of a request says about its other fields.
LEMMA RequestTypes ==
  ASSUME TypeOK, NEW r \in Requests
  PROVE  /\ request[r].step \in SendSteps => request[r].email \in Emails
         /\ request[r].step \in SignUpSteps => request[r].email \in Emails /\ request[r].id \in Users
  BY DEF TypeOK, Request, Idle, SendSteps, SignUpSteps

\* The record of a request that goes on.
LEMMA NextSend ==
  ASSUME NEW q \in [step: SendSteps, email: Emails], NEW next \in SendSteps
  PROVE  LET n == [q EXCEPT !.step = next] IN
         n \in [step: SendSteps, email: Emails] /\ n.step = next
  OBVIOUS

\* The same for a sign-up, whose document id stays.
LEMMA NextSignUp ==
  ASSUME NEW q \in [step: SignUpSteps, email: Emails, code: Codes, id: Users], NEW next \in SignUpSteps
  PROVE  LET n == [q EXCEPT !.step = next] IN
         /\ n \in [step: SignUpSteps, email: Emails, code: Codes, id: Users]
         /\ n.step = next /\ n.id = q.id
  OBVIOUS

\* A request that goes on keeps its fields.
LEMMA SendContinued ==
  ASSUME TypeOK, NEW r \in Requests, request[r].step \in SendSteps, NEW next \in SendSteps,
         Continue(r, next)
  PROVE  /\ request' \in [Requests -> Request \cup {Idle}]
         /\ \A q \in Requests \ {r} : request'[q] = request[q]
         /\ request'[r].step \notin SignUpSteps
  <1> DEFINE n == [request[r] EXCEPT !.step = next]
  <1>1. request[r] \in [step: SendSteps, email: Emails]
    BY DEF TypeOK, Request, Idle, SendSteps, SignUpSteps
  <1>2. n \in [step: SendSteps, email: Emails] /\ n.step = next
    BY <1>1, NextSend
  <1>3. request' = [request EXCEPT ![r] = n]
    BY DEF Continue
  <1> HIDE DEF n
  <1>4. n.step \notin SignUpSteps
    BY <1>2 DEF SendSteps, SignUpSteps
  <1>5. QED
    BY <1>2, <1>3, <1>4 DEF TypeOK, Request

\* A sign-up that goes on keeps its id as well.
LEMMA SignUpContinued ==
  ASSUME TypeOK, NEW r \in Requests, request[r].step \in SignUpSteps, NEW next \in SignUpSteps,
         Continue(r, next)
  PROVE  /\ request' \in [Requests -> Request \cup {Idle}]
         /\ \A q \in Requests \ {r} : request'[q] = request[q]
         /\ request'[r].step = next /\ request'[r].id = request[r].id
  <1> DEFINE n == [request[r] EXCEPT !.step = next]
  <1>1. request[r] \in [step: SignUpSteps, email: Emails, code: Codes, id: Users]
    BY DEF TypeOK, Request, Idle, SendSteps, SignUpSteps
  <1>2. /\ n \in [step: SignUpSteps, email: Emails, code: Codes, id: Users]
        /\ n.step = next /\ n.id = request[r].id
    BY <1>1, NextSignUp
  <1>3. request' = [request EXCEPT ![r] = n]
    BY DEF Continue
  <1> HIDE DEF n
  <1>4. QED
    BY <1>2, <1>3 DEF TypeOK, Request

\* A request that ends leaves the others alone.
LEMMA Finished ==
  ASSUME TypeOK, NEW r \in Requests, Finish(r)
  PROVE  /\ request' \in [Requests -> Request \cup {Idle}]
         /\ \A q \in Requests \ {r} : request'[q] = request[q]
         /\ request'[r].step \notin SignUpSteps
  BY DEF TypeOK, Finish, Idle, SignUpSteps

\* Steps that only move one request along, without saving or undoing.
LEMMA RequestMoves ==
  ASSUME IInv, NEW r \in Requests, UNCHANGED <<user, outcome, call, session>>,
         \A q \in Requests \ {r} : request'[q] = request[q],
         request'[r].step \in SignUpSteps =>
           /\ request[r].step \in SignUpSteps
           /\ request'[r].id = request[r].id
           /\ request'[r].step = "tokens" => request[r].step = "tokens"
           /\ request'[r].step = "undo" => request[r].step \in Saved
           /\ request[r].step \in Saved => request'[r].step \in Saved
  PROVE  OwnDocument' /\ ReturnedIsCached' /\ FailureIsUndone'
  <1>1. OwnDocument'
    BY DEF IInv, OwnDocument, Saved
  <1>2. ReturnedIsCached' /\ FailureIsUndone'
    BY DEF IInv, ReturnedIsCached, FailureIsUndone
  <1>3. QED
    BY <1>1, <1>2

\* Steps that leave the requests and the documents alone.
LEMMA DocumentsKept ==
  ASSUME IInv, UNCHANGED <<user, outcome, auth, request>>
  PROVE  OwnDocument' /\ ReturnedIsCached' /\ FailureIsUndone'
  BY DEF IInv, OwnDocument, ReturnedIsCached, FailureIsUndone, auth

\* The count of faults stays within its bound.
LEMMA FaultTypes == ASSUME TypeOK, Fault PROVE faults' \in 0..MaxFaults
  BY BoundsAssumption DEF TypeOK, Fault

----------------------------------------------------------------------------
(* The steps *)

\* The invariant holds when the services start.
LEMMA InitIInv == Init => IInv
  BY EmailAssumption, CodeAssumption, BoundsAssumption
     DEF Init, IInv, TypeOK, OwnDocument, ReturnedIsCached, FailureIsUndone, Outcomes, CallSteps,
         Idle, SignUpSteps

\* A request that goes on or ends, with everything else that the invariant
\* speaks of as it is.
LEMMA Moves ==
  ASSUME IInv, NEW r \in Requests, UNCHANGED <<user, outcome, call, session>>,
         \/ Finish(r)
         \/ request[r].step \in SendSteps /\ \E next \in SendSteps : Continue(r, next)
         \/ /\ request[r].step \in SignUpSteps \ Saved
            /\ \E next \in SignUpSteps \ Saved : Continue(r, next)
         \/ request[r].step = "tokens" /\ Continue(r, "undo")
  PROVE  /\ request' \in [Requests -> Request \cup {Idle}]
         /\ OwnDocument' /\ ReturnedIsCached' /\ FailureIsUndone'
  <1>1. TypeOK
    BY DEF IInv
  <1>2. CASE Finish(r)
    BY <1>1, <1>2, Finished, RequestMoves
  <1>3. CASE request[r].step \in SendSteps /\ \E next \in SendSteps : Continue(r, next)
    BY <1>1, <1>3, SendContinued, RequestMoves
  <1>4. ASSUME request[r].step \in SignUpSteps \ Saved,
               NEW next \in SignUpSteps \ Saved, Continue(r, next)
        PROVE  /\ request' \in [Requests -> Request \cup {Idle}]
               /\ OwnDocument' /\ ReturnedIsCached' /\ FailureIsUndone'
    <2>1. /\ request' \in [Requests -> Request \cup {Idle}]
          /\ \A q \in Requests \ {r} : request'[q] = request[q]
          /\ request'[r].step = next /\ request'[r].id = request[r].id
      BY <1>1, <1>4, SignUpContinued
    <2>2. next \notin Saved
      BY <1>4
    <2>3. QED
      BY <1>4, <2>1, <2>2, RequestMoves DEF Saved
  <1>5. CASE request[r].step = "tokens" /\ Continue(r, "undo")
    <2>1. "tokens" \in SignUpSteps /\ "undo" \in SignUpSteps
      BY DEF SignUpSteps
    <2>2. /\ request' \in [Requests -> Request \cup {Idle}]
          /\ \A q \in Requests \ {r} : request'[q] = request[q]
          /\ request'[r].step = "undo" /\ request'[r].id = request[r].id
      BY <1>1, <1>5, <2>1, SignUpContinued
    <2>3. QED
      BY <1>5, <2>1, <2>2, RequestMoves DEF Saved
  <1>6. QED
    BY <1>2, <1>3, <1>4, <1>5

\* The steps of sendOtpService.
LEMMA SendOtpStep ==
  ASSUME IInv, NEW r \in Requests, SendOtp(r)
  PROVE  IInv'
  <1>1. TypeOK
    BY DEF IInv
  <1>2. ASSUME NEW e \in Emails, sendOtpService(r, e) PROVE IInv'
    <2>1. /\ request' \in [Requests -> Request \cup {Idle}]
          /\ \A q \in Requests \ {r} : request'[q] = request[q]
          /\ request'[r].step \notin SignUpSteps
      BY <1>1, <1>2 DEF TypeOK, sendOtpService, Request, SendSteps, SignUpSteps
    <2>2. UNCHANGED <<otp, attempts, expiring, blocked, user, outcome, call, session, faults>>
      BY <1>2 DEF sendOtpService, redis, auth
    <2>3. OwnDocument' /\ ReturnedIsCached' /\ FailureIsUndone'
      BY <2>1, <2>2, RequestMoves
    <2>4. QED
      BY <1>1, <2>1, <2>2, <2>3 DEF IInv, TypeOK
  <1>3. CASE CheckBlocked(r)
    <2>1. UNCHANGED <<otp, attempts, expiring, blocked, user, outcome, call, session, faults>>
      BY <1>3 DEF CheckBlocked, redis, auth
    <2>2. /\ request' \in [Requests -> Request \cup {Idle}]
          /\ OwnDocument' /\ ReturnedIsCached' /\ FailureIsUndone'
      BY <1>3, <2>1, Moves DEF CheckBlocked, SendSteps
    <2>3. QED
      BY <1>1, <2>1, <2>2 DEF IInv, TypeOK
  <1>4. ASSUME NEW c \in Codes, SetOtp(r, c) PROVE IInv'
    <2>1. UNCHANGED <<attempts, expiring, blocked, user, outcome, call, session, faults>>
      BY <1>4 DEF SetOtp, auth
    <2>2. /\ request' \in [Requests -> Request \cup {Idle}]
          /\ OwnDocument' /\ ReturnedIsCached' /\ FailureIsUndone'
      BY <1>4, <2>1, Moves DEF SetOtp, SendSteps
    <2>3. otp' \in [Emails -> Codes \cup {NoCode}]
      BY <1>1, <1>4 DEF TypeOK, SetOtp
    <2>4. QED
      BY <1>1, <2>1, <2>2, <2>3 DEF IInv, TypeOK
  <1>5. CASE ClearAttempts(r)
    <2>1. UNCHANGED <<otp, blocked, user, outcome, call, session, faults>>
      BY <1>5 DEF ClearAttempts, auth
    <2>2. /\ request' \in [Requests -> Request \cup {Idle}]
          /\ OwnDocument' /\ ReturnedIsCached' /\ FailureIsUndone'
      BY <1>5, <2>1, Moves DEF ClearAttempts
    <2>3. 0 \in 0..MaxAttempts
      BY BoundsAssumption
    <2>4. attempts' \in [Emails -> 0..MaxAttempts]
      BY <1>1, <1>5, <2>3 DEF TypeOK, ClearAttempts
    <2>5. expiring' \subseteq Emails
      BY <1>1, <1>5 DEF TypeOK, ClearAttempts
    <2>6. QED
      BY <1>1, <2>1, <2>2, <2>4, <2>5 DEF IInv, TypeOK
  <1>6. QED
    BY <1>2, <1>3, <1>4, <1>5 DEF SendOtp

\* The steps of validateOtp.
LEMMA ValidateOtpStep ==
  ASSUME IInv, NEW r \in Requests, ValidateOtp(r)
  PROVE  IInv'
  <1>1. TypeOK
    BY DEF IInv
  <1>2. ASSUME NEW e \in Emails, NEW c \in Codes, NEW u \in Users, signUpService(r, e, c, u)
        PROVE  IInv'
    <2> DEFINE q == [step |-> "checkOtp", email |-> e, code |-> c, id |-> u]
    <2>1. q \in Request /\ q.step = "checkOtp" /\ q.id = u
      BY DEF Request, SignUpSteps
    <2>2. request' = [request EXCEPT ![r] = q]
      BY <1>2 DEF signUpService
    <2> HIDE DEF q
    <2>3. /\ request' \in [Requests -> Request \cup {Idle}]
          /\ \A x \in Requests : request'[x] = IF x = r THEN q ELSE request[x]
      BY <1>1, <2>1, <2>2 DEF TypeOK
    <2>4. UNCHANGED <<otp, attempts, expiring, blocked, user, outcome, call, session, faults>>
      BY <1>2 DEF signUpService, redis, auth
    <2>5. outcome[u] = "none" /\ \A x \in Requests : request[x].step \in SignUpSteps => request[x].id # u
      BY <1>2 DEF signUpService, Fresh
    <2>6. OwnDocument'
      BY <2>1, <2>3, <2>4, <2>5 DEF IInv, OwnDocument, Saved
    <2>7. ReturnedIsCached' /\ FailureIsUndone'
      BY <2>4 DEF IInv, ReturnedIsCached, FailureIsUndone
    <2>8. QED
      BY <1>1, <2>3, <2>4, <2>6, <2>7 DEF IInv, TypeOK
  <1>3. CASE CheckOtp(r)
    <2>1. UNCHANGED <<otp, attempts, expiring, blocked, user, outcome, call, session, faults>>
      BY <1>3 DEF CheckOtp, redis, auth
    <2>2. /\ request' \in [Requests -> Request \cup {Idle}]
          /\ OwnDocument' /\ ReturnedIsCached' /\ FailureIsUndone'
      BY <1>3, <2>1, Moves DEF CheckOtp, SignUpSteps, Saved
    <2>3. QED
      BY <1>1, <2>1, <2>2 DEF IInv, TypeOK
  <1>4. CASE CountAttempt(r)
    <2>1. UNCHANGED <<otp, expiring, blocked, user, outcome, call, session, faults>>
      BY <1>4 DEF CountAttempt, auth
    <2>2. /\ request' \in [Requests -> Request \cup {Idle}]
          /\ OwnDocument' /\ ReturnedIsCached' /\ FailureIsUndone'
      BY <1>4, <2>1, Moves DEF CountAttempt, AfterAttempt, SignUpSteps, Saved
    <2>3. attempts' \in [Emails -> 0..MaxAttempts]
      <3> DEFINE e == request[r].email
      <3>1. e \in Emails
        BY <1>1, <1>4, RequestTypes DEF CountAttempt, SignUpSteps
      <3>2. attempts[e] + 1 \in 0..MaxAttempts
        BY <1>1, <1>4, <3>1, BoundsAssumption DEF TypeOK, CountAttempt
      <3>3. attempts' = [attempts EXCEPT ![e] = attempts[e] + 1]
        BY <1>1, <1>4, <3>1 DEF TypeOK, CountAttempt
      <3> HIDE DEF e
      <3>4. QED
        BY <1>1, <3>1, <3>2, <3>3 DEF TypeOK
    <2>4. QED
      BY <1>1, <2>1, <2>2, <2>3 DEF IInv, TypeOK
  <1>5. CASE SetExpiry(r)
    <2>1. UNCHANGED <<otp, attempts, blocked, user, outcome, call, session, faults>>
      BY <1>5 DEF SetExpiry, auth
    <2>2. /\ request' \in [Requests -> Request \cup {Idle}]
          /\ OwnDocument' /\ ReturnedIsCached' /\ FailureIsUndone'
      BY <1>5, <2>1, Moves DEF SetExpiry
    <2>3. expiring' \subseteq Emails
      BY <1>1, <1>5, RequestTypes DEF TypeOK, SetExpiry, SignUpSteps
    <2>4. QED
      BY <1>1, <2>1, <2>2, <2>3 DEF IInv, TypeOK
  <1>6. CASE Block(r)
    <2>1. UNCHANGED <<otp, attempts, expiring, user, outcome, call, session, faults>>
      BY <1>6 DEF Block, auth
    <2>2. /\ request' \in [Requests -> Request \cup {Idle}]
          /\ OwnDocument' /\ ReturnedIsCached' /\ FailureIsUndone'
      BY <1>6, <2>1, Moves DEF Block
    <2>3. blocked' \subseteq Emails
      BY <1>1, <1>6, RequestTypes DEF TypeOK, Block, SignUpSteps
    <2>4. QED
      BY <1>1, <2>1, <2>2, <2>3 DEF IInv, TypeOK
  <1>7. QED
    BY <1>2, <1>3, <1>4, <1>5, <1>6 DEF ValidateOtp

\* What a request in flight knows of its document, and that no other request
\* works on it.
LEMMA Own ==
  ASSUME IInv, NEW r \in Requests, request[r].step \in SignUpSteps
  PROVE  /\ request[r].id \in Users /\ request[r].email \in Emails
         /\ request[r].step \in Saved => outcome[request[r].id] = "pending"
         /\ request[r].step \notin Saved => outcome[request[r].id] = "none"
         /\ request[r].step = "tokens" => user[request[r].id] # NoEmail
         /\ \A q \in Requests \ {r} : request[q].step \in SignUpSteps =>
              request[q].id # request[r].id
  BY RequestTypes DEF IInv, OwnDocument

\* A request that ends may do as it likes with its document, as far as the
\* other requests are concerned.
LEMMA OthersKept ==
  ASSUME IInv, NEW r \in Requests, request[r].step \in SignUpSteps,
         \A q \in Requests \ {r} : request'[q] = request[q],
         \A u \in Users \ {request[r].id} : user'[u] = user[u] /\ outcome'[u] = outcome[u],
         request'[r].step \notin SignUpSteps
  PROVE  OwnDocument'
  BY Own DEF IInv, OwnDocument

\* The same for the documents of the others.
LEMMA OtherDocumentsKept ==
  ASSUME IInv, NEW d \in Users,
         \A u \in Users \ {d} : user'[u] = user[u] /\ outcome'[u] = outcome[u],
         outcome'[d] = "failure" => user'[d] = NoEmail,
         UNCHANGED <<call, session>>,
         outcome'[d] = "success" => call[d] = "returned" /\ user'[d] # NoEmail
  PROVE  ReturnedIsCached' /\ FailureIsUndone'
  <1>1. ReturnedIsCached'
    BY DEF IInv, ReturnedIsCached
  <1>2. FailureIsUndone'
    BY DEF IInv, FailureIsUndone
  <1>3. QED
    BY <1>1, <1>2

\* The steps that save a user, answer, and undo.
LEMMA RegisterStep ==
  ASSUME IInv, NEW r \in Requests, Register(r)
  PROVE  IInv'
  <1> DEFINE d == request[r].id
  <1>1. TypeOK
    BY DEF IInv
  <1>2. CASE FindAccount(r)
    <2>1. UNCHANGED <<otp, attempts, expiring, blocked, user, outcome, call, session, faults>>
      BY <1>2 DEF FindAccount, redis, auth
    <2>2. /\ request' \in [Requests -> Request \cup {Idle}]
          /\ OwnDocument' /\ ReturnedIsCached' /\ FailureIsUndone'
      BY <1>2, <2>1, Moves DEF FindAccount, SignUpSteps, Saved
    <2>3. QED
      BY <1>1, <2>1, <2>2 DEF IInv, TypeOK
  <1>3. CASE SaveUser(r)
    <2>1. /\ request[r].step = "save" /\ "tokens" \in SignUpSteps
          /\ request[r].step \in SignUpSteps /\ request[r].step \notin Saved
      BY <1>3 DEF SaveUser, SignUpSteps, Saved
    <2>2. d \in Users /\ request[r].email \in Emails /\ outcome[d] = "none"
      BY <2>1, Own
    <2>3. /\ user' = [user EXCEPT ![d] = request[r].email]
          /\ outcome' = [outcome EXCEPT ![d] = "pending"]
          /\ call' = [call EXCEPT ![d] = "findUser"]
          /\ Continue(r, "tokens")
          /\ UNCHANGED <<otp, attempts, expiring, blocked, session, faults>>
      BY <1>3 DEF SaveUser, redis
    <2>4. /\ request' \in [Requests -> Request \cup {Idle}]
          /\ \A q \in Requests \ {r} : request'[q] = request[q]
          /\ request'[r].step = "tokens" /\ request'[r].id = d
      BY <1>1, <2>1, <2>3, SignUpContinued
    <2>5. \A q \in Requests \ {r} : request[q].step \in SignUpSteps => request[q].id # d
      BY <2>1, Own
    <2> HIDE DEF d
    <2>6. /\ user' \in [Users -> Emails \cup {NoEmail}]
          /\ outcome' \in [Users -> Outcomes]
          /\ call' \in [Users -> CallSteps]
      BY <1>1, <2>2, <2>3 DEF TypeOK, Outcomes, CallSteps
    <2>7. /\ user'[d] # NoEmail /\ outcome'[d] = "pending" /\ call'[d] = "findUser"
          /\ \A u \in Users \ {d} :
               user'[u] = user[u] /\ outcome'[u] = outcome[u] /\ call'[u] = call[u]
      BY <1>1, <2>2, <2>3, EmailAssumption DEF TypeOK
    <2>8. OwnDocument'
      <3>1. ASSUME NEW q \in Requests, request'[q].step \in SignUpSteps, q # r
            PROVE  /\ request[q].step \in SignUpSteps /\ request'[q] = request[q]
                   /\ request[q].id \in Users \ {d}
        BY <2>4, <2>5, <3>1, Own
      <3>2. QED
        BY <2>4, <2>7, <3>1 DEF IInv, OwnDocument, Saved
    <2>9. ReturnedIsCached' /\ FailureIsUndone'
      <3>1. ReturnedIsCached'
        BY <2>3, <2>7 DEF IInv, ReturnedIsCached
      <3>2. FailureIsUndone'
        BY <2>7 DEF IInv, FailureIsUndone
      <3>3. QED
        BY <3>1, <3>2
    <2>10. QED
      BY <1>1, <2>3, <2>4, <2>6, <2>8, <2>9 DEF IInv, TypeOK
  <1>4. CASE SaveLost(r)
    <2>1. request[r].step \in SignUpSteps /\ request[r].step \notin Saved
      BY <1>4 DEF SaveLost, SignUpSteps, Saved
    <2>2. d \in Users /\ request[r].email \in Emails
      BY <2>1, Own
    <2>3. /\ user' = [user EXCEPT ![d] = request[r].email]
          /\ outcome' = [outcome EXCEPT ![d] = "unknown"]
          /\ UNCHANGED <<otp, attempts, expiring, blocked, call, session>>
          /\ Finish(r) /\ Fault
      BY <1>4 DEF SaveLost, redis, auth
    <2>4. /\ request' \in [Requests -> Request \cup {Idle}]
          /\ \A q \in Requests \ {r} : request'[q] = request[q]
          /\ request'[r].step \notin SignUpSteps
      BY <1>1, <2>3, Finished
    <2>5. /\ user' \in [Users -> Emails \cup {NoEmail}]
          /\ outcome' \in [Users -> Outcomes]
          /\ outcome'[d] = "unknown"
          /\ \A u \in Users \ {d} : user'[u] = user[u] /\ outcome'[u] = outcome[u]
      BY <1>1, <2>2, <2>3 DEF TypeOK, Outcomes
    <2>6. OwnDocument'
      BY <2>1, <2>4, <2>5, OthersKept
    <2>7. ReturnedIsCached' /\ FailureIsUndone'
      BY <2>2, <2>3, <2>5, OtherDocumentsKept
    <2>8. QED
      BY <1>1, <2>3, <2>4, <2>5, <2>6, <2>7, FaultTypes DEF IInv, TypeOK
  <1>5. CASE TokensArrive(r)
    <2>1. request[r].step = "tokens" /\ request[r].step \in SignUpSteps
      BY <1>5 DEF TokensArrive, SignUpSteps
    <2>2. d \in Users /\ user[d] # NoEmail
      BY <2>1, Own
    <2>3. /\ outcome' = [outcome EXCEPT ![d] = "success"]
          /\ call[d] = "returned"
          /\ UNCHANGED <<otp, attempts, expiring, blocked, user, call, session, faults>>
          /\ Finish(r)
      BY <1>5 DEF TokensArrive, redis, auth
    <2>4. /\ request' \in [Requests -> Request \cup {Idle}]
          /\ \A q \in Requests \ {r} : request'[q] = request[q]
          /\ request'[r].step \notin SignUpSteps
      BY <1>1, <2>3, Finished
    <2>5. /\ outcome' \in [Users -> Outcomes] /\ outcome'[d] = "success"
          /\ \A u \in Users \ {d} : user'[u] = user[u] /\ outcome'[u] = outcome[u]
      BY <1>1, <2>2, <2>3 DEF TypeOK, Outcomes
    <2>6. OwnDocument'
      BY <2>1, <2>4, <2>5, OthersKept
    <2>7. ReturnedIsCached' /\ FailureIsUndone'
      BY <2>2, <2>3, <2>5, OtherDocumentsKept
    <2>8. QED
      BY <1>1, <2>3, <2>4, <2>5, <2>6, <2>7 DEF IInv, TypeOK
  <1>6. CASE TokensFail(r)
    <2>1. UNCHANGED <<otp, attempts, expiring, blocked, user, outcome, call, session>>
      BY <1>6 DEF TokensFail, redis, auth
    <2>2. /\ request' \in [Requests -> Request \cup {Idle}]
          /\ OwnDocument' /\ ReturnedIsCached' /\ FailureIsUndone'
      BY <1>6, <2>1, Moves DEF TokensFail
    <2>3. faults' \in 0..MaxFaults
      BY <1>1, <1>6, FaultTypes DEF TokensFail, TypeOK
    <2>4. QED
      BY <1>1, <2>1, <2>2, <2>3 DEF IInv, TypeOK
  <1>7. CASE Undo(r)
    <2>1. request[r].step \in SignUpSteps
      BY <1>7 DEF Undo, SignUpSteps
    <2>2. d \in Users
      BY <2>1, Own
    <2>3. /\ user' = [user EXCEPT ![d] = NoEmail]
          /\ outcome' = [outcome EXCEPT ![d] = "failure"]
          /\ UNCHANGED <<otp, attempts, expiring, blocked, call, session, faults>>
          /\ Finish(r)
      BY <1>7 DEF Undo, redis, auth
    <2>4. /\ request' \in [Requests -> Request \cup {Idle}]
          /\ \A q \in Requests \ {r} : request'[q] = request[q]
          /\ request'[r].step \notin SignUpSteps
      BY <1>1, <2>3, Finished
    <2>5. /\ user' \in [Users -> Emails \cup {NoEmail}]
          /\ outcome' \in [Users -> Outcomes]
          /\ user'[d] = NoEmail /\ outcome'[d] = "failure"
          /\ \A u \in Users \ {d} : user'[u] = user[u] /\ outcome'[u] = outcome[u]
      BY <1>1, <2>2, <2>3 DEF TypeOK, Outcomes
    <2>6. OwnDocument'
      BY <2>1, <2>4, <2>5, OthersKept
    <2>7. ReturnedIsCached' /\ FailureIsUndone'
      BY <2>2, <2>3, <2>5, OtherDocumentsKept
    <2>8. QED
      BY <1>1, <2>3, <2>4, <2>5, <2>6, <2>7 DEF IInv, TypeOK
  <1>8. CASE UndoFails(r)
    <2>1. request[r].step \in SignUpSteps
      BY <1>8 DEF UndoFails, SignUpSteps
    <2>2. d \in Users
      BY <2>1, Own
    <2>3. /\ outcome' = [outcome EXCEPT ![d] = "unknown"]
          /\ UNCHANGED <<otp, attempts, expiring, blocked, user, call, session>>
          /\ Finish(r) /\ Fault
      BY <1>8 DEF UndoFails, redis, auth
    <2>4. /\ request' \in [Requests -> Request \cup {Idle}]
          /\ \A q \in Requests \ {r} : request'[q] = request[q]
          /\ request'[r].step \notin SignUpSteps
      BY <1>1, <2>3, Finished
    <2>5. /\ outcome' \in [Users -> Outcomes]
          /\ outcome'[d] = "unknown"
          /\ \A u \in Users \ {d} : user'[u] = user[u] /\ outcome'[u] = outcome[u]
      BY <1>1, <2>2, <2>3 DEF TypeOK, Outcomes
    <2>6. OwnDocument'
      BY <2>1, <2>4, <2>5, OthersKept
    <2>7. ReturnedIsCached' /\ FailureIsUndone'
      BY <2>2, <2>3, <2>5, OtherDocumentsKept
    <2>8. QED
      BY <1>1, <2>3, <2>4, <2>5, <2>6, <2>7, FaultTypes DEF IInv, TypeOK
  <1>9. QED
    BY <1>2, <1>3, <1>4, <1>5, <1>6, <1>7, <1>8 DEF Register

\* The steps of auth-service: a call that has not returned stores a session.
LEMMA GenerateTokenStep ==
  ASSUME IInv, NEW u \in Users, GenerateToken(u)
  PROVE  IInv'
  <1>1. TypeOK
    BY DEF IInv
  <1>2. /\ UNCHANGED <<otp, attempts, expiring, blocked, user, outcome, request>>
        /\ call[u] # "returned"
        /\ faults' \in 0..MaxFaults
    BY <1>1, FaultTypes
       DEF GenerateToken, FindUser, CreateSession, CacheSession, CallFails, redis, TypeOK
  <1>3. /\ call' \in [Users -> CallSteps]
        /\ session' \in [Users -> {"none", "stored", "cached"}]
        /\ \A v \in Users \ {u} : call'[v] = call[v] /\ session'[v] = session[v]
        /\ call'[u] = "returned" => session'[u] = "cached"
    <2>1. CASE FindUser(u)
      BY <1>1, <2>1 DEF TypeOK, FindUser, CallSteps
    <2>2. CASE CreateSession(u)
      BY <1>1, <2>2 DEF TypeOK, CreateSession, CallSteps
    <2>3. CASE CacheSession(u)
      BY <1>1, <2>3 DEF TypeOK, CacheSession, CallSteps
    <2>4. CASE CallFails(u)
      BY <1>1, <2>4 DEF TypeOK, CallFails, CallSteps
    <2>5. QED
      BY <2>1, <2>2, <2>3, <2>4 DEF GenerateToken
  <1>4. OwnDocument'
    BY <1>2 DEF IInv, OwnDocument
  <1>5. ReturnedIsCached'
    BY <1>2, <1>3 DEF IInv, ReturnedIsCached
  <1>6. FailureIsUndone'
    BY <1>2 DEF IInv, FailureIsUndone
  <1>7. QED
    BY <1>1, <1>2, <1>3, <1>4, <1>5, <1>6 DEF IInv, TypeOK

\* Keys that expire.
LEMMA ExpiryStep ==
  ASSUME IInv, NEW e \in Emails, OtpExpires(e) \/ AttemptsExpire(e) \/ BlockExpires(e)
  PROVE  IInv'
  <1>1. TypeOK
    BY DEF IInv
  <1>2. UNCHANGED <<user, outcome, auth, request, faults>>
    BY DEF OtpExpires, AttemptsExpire, BlockExpires
  <1>3. OwnDocument' /\ ReturnedIsCached' /\ FailureIsUndone'
    BY <1>2, DocumentsKept
  <1>4. 0 \in 0..MaxAttempts
    BY BoundsAssumption
  <1>5. CASE OtpExpires(e)
    BY <1>1, <1>2, <1>3, <1>5 DEF IInv, TypeOK, OtpExpires, auth
  <1>6. CASE AttemptsExpire(e)
    BY <1>1, <1>2, <1>3, <1>4, <1>6 DEF IInv, TypeOK, AttemptsExpire, auth
  <1>7. CASE BlockExpires(e)
    BY <1>1, <1>2, <1>3, <1>7 DEF IInv, TypeOK, BlockExpires, auth
  <1>8. QED
    BY <1>5, <1>6, <1>7

\* A call that rejects, and a restart.
LEMMA RequestFailsStep ==
  ASSUME IInv, NEW r \in Requests, RequestFails(r)
  PROVE  IInv'
  <1>1. UNCHANGED <<otp, attempts, expiring, blocked, user, outcome, call, session>>
    BY DEF RequestFails, redis, auth
  <1>2. /\ request' \in [Requests -> Request \cup {Idle}]
        /\ OwnDocument' /\ ReturnedIsCached' /\ FailureIsUndone'
    BY <1>1, Moves DEF RequestFails
  <1>3. faults' \in 0..MaxFaults
    BY FaultTypes DEF IInv, RequestFails
  <1>4. QED
    BY <1>1, <1>2, <1>3 DEF IInv, TypeOK

\* A restart forgets the requests and leaves the stores as they are.
LEMMA RestartStep ==
  ASSUME IInv, Restart
  PROVE  IInv'
  <1>1. TypeOK
    BY DEF IInv
  <1>2. UNCHANGED <<otp, attempts, expiring, blocked, user, call, session>>
    BY DEF Restart, redis, auth
  <1>3. /\ request' \in [Requests -> Request \cup {Idle}]
        /\ \A r \in Requests : request'[r].step \notin SignUpSteps
    BY DEF Restart, Idle, SignUpSteps
  <1>4. /\ outcome' \in [Users -> Outcomes]
        /\ \A u \in Users : outcome'[u] \in {"success", "failure"} => outcome'[u] = outcome[u]
    BY <1>1 DEF Restart, TypeOK, Outcomes
  <1>5. OwnDocument'
    BY <1>3 DEF OwnDocument
  <1>6. ReturnedIsCached' /\ FailureIsUndone'
    BY <1>2, <1>4 DEF IInv, ReturnedIsCached, FailureIsUndone
  <1>7. faults' \in 0..MaxFaults
    BY <1>1, FaultTypes DEF Restart
  <1>8. QED
    BY <1>1, <1>2, <1>3, <1>4, <1>5, <1>6, <1>7 DEF IInv, TypeOK

\* Every step keeps the inductive invariant.
LEMMA StepIInv == IInv /\ [Next]_vars => IInv'
  <1> SUFFICES ASSUME IInv, [Next]_vars PROVE IInv'
    OBVIOUS
  <1>1. ASSUME NEW r \in Requests, SendOtp(r) \/ ValidateOtp(r) \/ Register(r) \/ RequestFails(r)
        PROVE  IInv'
    BY <1>1, SendOtpStep, ValidateOtpStep, RegisterStep, RequestFailsStep
  <1>2. ASSUME NEW u \in Users, GenerateToken(u) PROVE IInv'
    BY <1>2, GenerateTokenStep
  <1>3. ASSUME NEW e \in Emails, OtpExpires(e) \/ AttemptsExpire(e) \/ BlockExpires(e)
        PROVE  IInv'
    BY <1>3, ExpiryStep
  <1>4. CASE Restart
    BY <1>4, RestartStep
  <1>5. CASE UNCHANGED vars
    <2>1. UNCHANGED <<otp, attempts, expiring, blocked, user, outcome, call, session, auth, request, faults>>
      BY <1>5 DEF vars, redis, auth
    <2>2. QED
      BY <2>1, DocumentsKept DEF IInv, TypeOK
  <1>6. QED
    BY <1>1, <1>2, <1>3, <1>4, <1>5 DEF Next

\* The inductive invariant holds in every reachable state.
LEMMA Inductive == Spec => []IInv
  BY InitIInv, StepIInv, PTL DEF Spec

----------------------------------------------------------------------------
(* The count of wrong codes.  CounterExpires is inductive, given the       *)
(* types: who counts the first wrong code is the one who will set its time *)
(* to live, and nobody who will do so is stopped but by a failure.         *)

\* A request that moves leaves the others alone.
LEMMA OthersStay ==
  ASSUME TypeOK, NEW r \in Requests, SendOtp(r) \/ ValidateOtp(r) \/ Register(r) \/ RequestFails(r)
  PROVE  \A q \in Requests \ {r} : request'[q] = request[q]
  BY DEF TypeOK, SendOtp, sendOtpService, CheckBlocked, SetOtp, ClearAttempts, ValidateOtp,
         signUpService, CheckOtp, CountAttempt, AfterAttempt, SetExpiry, Block, Register,
         FindAccount, SaveUser, SaveLost, TokensArrive, TokensFail, Undo, UndoFails,
         RequestFails, Finish, Continue

\* Steps after which no count and no time to live is other than before, and who
\* was about to set one still is.
LEMMA CountsStay ==
  ASSUME CounterExpires, UNCHANGED <<attempts, expiring>>, faults' = 0 => faults = 0,
         \A q \in Requests : request[q].step = "setExpiry" => request'[q] = request[q]
  PROVE  CounterExpires'
  BY DEF CounterExpires

\* A wrong code is counted: if it is the first, this request sets the time to live.
LEMMA CountKeeps ==
  ASSUME TypeOK, CounterExpires, NEW r \in Requests, CountAttempt(r)
  PROVE  CounterExpires'
  <1> DEFINE e == request[r].email
  <1>1. /\ e \in Emails /\ request[r].step = "countAttempt"
        /\ request[r] \in [step: SignUpSteps, email: Emails, code: Codes, id: Users]
        /\ attempts \in [Emails -> Nat] /\ attempts' = [attempts EXCEPT ![e] = attempts[e] + 1]
        /\ AfterAttempt(r, attempts[e] + 1) /\ UNCHANGED <<expiring, faults>>
    BY BoundsAssumption DEF CountAttempt, TypeOK, Request, Idle, SendSteps, SignUpSteps
  <1>2. \A q \in Requests \ {r} : request'[q] = request[q]
    BY <1>1, OthersStay DEF ValidateOtp
  <1>3. attempts[e] = 0 => request'[r].step = "setExpiry" /\ request'[r].email = e
    <2> SUFFICES ASSUME attempts[e] = 0 PROVE request'[r].step = "setExpiry" /\ request'[r].email = e
      OBVIOUS
    <2> DEFINE n == [request[r] EXCEPT !.step = "setExpiry"]
    <2>1. request' = [request EXCEPT ![r] = n]
      BY <1>1 DEF AfterAttempt, Continue
    <2>2. n.step = "setExpiry" /\ n.email = e
      BY <1>1
    <2> HIDE DEF n
    <2>3. QED
      BY <2>1, <2>2 DEF TypeOK
  <1> HIDE DEF e
  <1>4. ASSUME faults' = 0, NEW x \in Emails, attempts'[x] > 0
        PROVE  \/ x \in expiring'
               \/ \E q \in Requests : request'[q].step = "setExpiry" /\ request'[q].email = x
    <2>1. CASE x = e /\ attempts[e] = 0
      BY <1>3, <2>1
    <2>2. CASE ~(x = e /\ attempts[e] = 0)
      <3>1. faults = 0 /\ attempts[x] > 0
        BY <1>1, <1>4, <2>2
      <3>2. CASE x \in expiring
        BY <1>1, <3>2
      <3>3. CASE x \notin expiring
        <4>1. PICK q \in Requests : request[q].step = "setExpiry" /\ request[q].email = x
          BY <3>1, <3>3 DEF CounterExpires
        <4>2. request'[q] = request[q]
          BY <1>1, <1>2, <4>1
        <4>3. QED
          BY <4>1, <4>2
      <3>4. QED
        BY <3>2, <3>3
    <2>3. QED
      BY <2>1, <2>2
  <1>5. QED
    BY <1>4 DEF CounterExpires

\* Every step keeps what is said of the counts.
LEMMA CounterStep == IInv /\ CounterExpires /\ [Next]_vars => CounterExpires'
  <1> SUFFICES ASSUME IInv, CounterExpires, [Next]_vars PROVE CounterExpires'
    OBVIOUS
  <1>1. TypeOK /\ faults \in Nat
    BY BoundsAssumption DEF IInv, TypeOK
  <1>2. Fault => faults' # 0
    BY <1>1 DEF Fault
  <1>3. ASSUME NEW r \in Requests, SendOtp(r) \/ ValidateOtp(r) \/ Register(r) \/ RequestFails(r)
        PROVE  CounterExpires'
    <2>1. \A q \in Requests \ {r} : request'[q] = request[q]
      BY <1>1, <1>3, OthersStay
    <2>2. CASE ClearAttempts(r)
      <3>1. /\ request[r].step = "clearAttempts" /\ request[r].email \in Emails
            /\ attempts' = [attempts EXCEPT ![request[r].email] = 0]
            /\ expiring' = expiring \ {request[r].email} /\ UNCHANGED faults
        BY <1>1, <2>2, RequestTypes DEF ClearAttempts, SendSteps
      <3>2. \A q \in Requests : request[q].step = "setExpiry" => request'[q] = request[q]
        BY <2>1, <3>1
      <3>3. QED
        BY <1>1, <3>1, <3>2 DEF CounterExpires, TypeOK
    <2>3. CASE CountAttempt(r)
      BY <1>1, <2>3, CountKeeps
    <2>4. CASE SetExpiry(r)
      <3>1. /\ request[r].step = "setExpiry" /\ request[r].email \in Emails
            /\ expiring' = expiring \cup {e \in {request[r].email} : attempts[e] > 0}
            /\ UNCHANGED <<attempts, faults>>
        BY <1>1, <2>4, RequestTypes DEF SetExpiry, SignUpSteps
      <3>2. QED
        BY <2>1, <3>1 DEF CounterExpires
    <2>5. CASE ~(ClearAttempts(r) \/ CountAttempt(r) \/ SetExpiry(r))
      <3>1. CASE faults' = 0
        <4>1. /\ request[r].step # "setExpiry" /\ UNCHANGED <<attempts, expiring>>
              /\ faults = 0
          BY <1>2, <1>3, <2>5, <3>1
             DEF SendOtp, sendOtpService, CheckBlocked, SetOtp, ValidateOtp, signUpService,
                 CheckOtp, Block, Register, FindAccount, SaveUser, SaveLost, TokensArrive,
                 TokensFail, Undo, UndoFails, RequestFails, Idle, redis
        <4>2. QED
          BY <2>1, <4>1, CountsStay
      <3>2. CASE faults' # 0
        BY <3>2 DEF CounterExpires
      <3>3. QED
        BY <3>1, <3>2
    <2>6. QED
      BY <2>2, <2>3, <2>4, <2>5
  <1>4. ASSUME NEW u \in Users, GenerateToken(u) PROVE CounterExpires'
    <2>1. UNCHANGED <<attempts, expiring, request>> /\ (faults' = 0 => faults = 0)
      BY <1>2, <1>4 DEF GenerateToken, FindUser, CreateSession, CacheSession, CallFails, redis
    <2>2. QED
      BY <2>1, CountsStay
  <1>5. ASSUME NEW e \in Emails, OtpExpires(e) \/ BlockExpires(e) PROVE CounterExpires'
    BY <1>5, CountsStay DEF OtpExpires, BlockExpires
  <1>6. ASSUME NEW e \in Emails, AttemptsExpire(e) PROVE CounterExpires'
    BY <1>1, <1>6 DEF AttemptsExpire, CounterExpires, TypeOK
  <1>7. CASE Restart
    BY <1>2, <1>7 DEF Restart, CounterExpires
  <1>8. CASE UNCHANGED vars
    BY <1>8, CountsStay DEF vars, redis
  <1>9. QED
    BY <1>3, <1>4, <1>5, <1>6, <1>7, <1>8 DEF Next

----------------------------------------------------------------------------
(* The theorems *)

\* The variables keep their types, however many requests interleave and fail.
THEOREM TypeCorrect == Spec => []TypeOK
  <1>1. IInv => TypeOK
    BY DEF IInv
  <1>2. QED
    BY <1>1, Inductive, PTL

\* A sign-up that was answered with success has its account and its session for
\* good, whatever other sign-ups of the same e-mail do.
THEOREM SuccessKept == Spec => []SuccessIsDurable
  <1>1. IInv => SuccessIsDurable
    BY DEF IInv, ReturnedIsCached, SuccessIsDurable
  <1>2. QED
    BY <1>1, Inductive, PTL

\* A sign-up that was undone and answered with failure leaves no account.
THEOREM FailureKept == Spec => []FailureIsUndone
  <1>1. IInv => FailureIsUndone
    BY DEF IInv
  <1>2. QED
    BY <1>1, Inductive, PTL

\* While nothing fails, a count of wrong codes has a time to live, or a request
\* that is about to give it one.
THEOREM CounterAlwaysExpires == Spec => []CounterExpires
  <1>1. Init => CounterExpires
    BY DEF Init, CounterExpires
  <1>2. QED
    BY <1>1, Inductive, CounterStep, PTL DEF Spec
=============================================================================

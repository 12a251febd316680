--------------------------- MODULE AccountsProofs ---------------------------
(***************************************************************************)
(* Accounts, for any number of e-mails, managers, sessions, tokens, codes  *)
(* and requests.                                                           *)
(*                                                                         *)
(* The one-time passwords of partners implement SingleUse, and a partner   *)
(* or manager has the password last told.  Who verifies a code deletes     *)
(* whatever code is stored for the e-mail.  That is enough to delete the   *)
(* one that was used because a code is stored for one e-mail only          *)
(* (OwnCodes), and is not drawn again (UsedIsGone).                        *)
(*                                                                         *)
(* The sessions of customers (Sessions).  A session is marked before the   *)
(* one that replaces it is created, and stays so (MarkedFirst); and a      *)
(* request that is about to put a session into Redis is the only one that  *)
(* knows it (OwnSession), so that nobody can have marked it before.        *)
(*                                                                         *)
(* The log-in of an administrator (AdminLogin).  A log-out works on the    *)
(* tokens there were when it began.  What makes that enough is that a      *)
(* token gets its key before it is handed out (NewTokens): between the     *)
(* listing of the keys and their deletion no old token gets one            *)
(* (ListedOrGone).                                                         *)
(***************************************************************************)
EXTENDS Accounts, TLAPS

PartnerSecret == INSTANCE SingleUse WITH
  Secrets <- Codes, NoSecret <- NoCode,
  valid <- Partner!Valid, spent <- Partner!Spent, holding <- Partner!Holding

PartnersCodesServeOnce == PartnerSecret!Spec

\* A code is that of one e-mail.
OwnCodes ==
  /\ \A e, f \in Emails : otp[e] # NoCode /\ otp[e] = otp[f] => e = f
  /\ \A r \in Requests : request[r].step = "deleteOtp" =>
       \A e \in Emails : otp[e] = request[r].code => e = request[r].email

\* A code that is stored was not used, one that is being used was drawn.
UsedIsGone ==
  /\ \A e \in Emails : otp[e] # NoCode => fate[otp[e]] = "drawn"
  /\ \A r \in Requests : request[r].step = "deleteOtp" => fate[request[r].code] # "new"

IInv == Partner!TypeOK /\ OwnCodes /\ UsedIsGone /\ Partner!PasswordsAsTold

\* The part of it that is about codes.
CodeInv == OwnCodes /\ UsedIsGone

----------------------------------------------------------------------------
(* Requests *)

Plain == [step: Partner!PlainSteps, email: Emails]
Using == [step: {"deleteOtp"}, email: Emails, code: Codes]
Writing == [step: Partner!PasswordSteps, email: Emails, password: Passwords]

\* What the step of a request says about its other fields.
LEMMA RequestTypes ==
  ASSUME Partner!TypeOK, NEW r \in Requests
  PROVE  /\ request[r].step \in Partner!PlainSteps => request[r] \in Plain
         /\ request[r].step = "deleteOtp" => request[r] \in Using
         /\ request[r].step \in Partner!PasswordSteps => request[r] \in Writing
  BY DEF Partner!TypeOK, Partner!Request, Plain, Using, Writing, Partner!Idle, Partner!PlainSteps,
         Partner!PasswordSteps

\* The record of a request that goes on without a password.
LEMMA NextPlain ==
  ASSUME NEW q \in Plain, NEW next \in Partner!PlainSteps
  PROVE  [q EXCEPT !.step = next] \in Plain
  BY DEF Plain

\* The record of a request that goes on with a password.
LEMMA NextWriting ==
  ASSUME NEW q \in Writing, NEW next \in Partner!PasswordSteps
  PROVE  [q EXCEPT !.step = next] \in Writing
  BY DEF Writing

\* No other request than a verification holds a code.
LEMMA HoldsNone ==
  ASSUME NEW q \in Plain \cup Writing \cup {Partner!Idle} PROVE q.step # "deleteOtp"
  BY DEF Plain, Writing, Partner!Idle, Partner!PlainSteps, Partner!PasswordSteps

\* A request goes on, without a password or with one.
GoesPlain(r) ==
  /\ request[r].step \in Partner!PlainSteps
  /\ \E next \in Partner!PlainSteps : Partner!Continue(r, next)
GoesPassword(r) ==
  /\ request[r].step \in Partner!PasswordSteps
  /\ \E next \in Partner!PasswordSteps : Partner!Continue(r, next)

\* What a request does to the table of requests, unless it starts to use a code.
LEMMA RequestMoves ==
  ASSUME Partner!TypeOK, NEW r \in Requests,
         \/ \E q \in Plain \cup Writing : Partner!Start(r, q)
         \/ GoesPlain(r) \/ GoesPassword(r) \/ Partner!Finish(r)
  PROVE  /\ request' \in [Requests -> Partner!Request \cup {Partner!Idle}]
         /\ \A q \in Requests \ {r} : request'[q] = request[q]
         /\ request'[r].step # "deleteOtp"
  <1>1. CASE \E q \in Plain \cup Writing : Partner!Start(r, q)
    <2>1. PICK q \in Plain \cup Writing : Partner!Start(r, q)
      BY <1>1
    <2>2. q.step # "deleteOtp" /\ q \in Partner!Request
      BY HoldsNone DEF Plain, Writing, Partner!Request
    <2>3. QED
      BY <2>1, <2>2 DEF Partner!Start, Partner!TypeOK
  <1>2. CASE GoesPlain(r)
    <2>1. PICK next \in Partner!PlainSteps : Partner!Continue(r, next)
      BY <1>2 DEF GoesPlain
    <2> DEFINE n == [request[r] EXCEPT !.step = next]
    <2>2. n \in Plain
      BY <1>2, RequestTypes, NextPlain DEF GoesPlain
    <2>3. request' = [request EXCEPT ![r] = n]
      BY <2>1 DEF Partner!Continue
    <2> HIDE DEF n
    <2>4. n.step # "deleteOtp" /\ n \in Partner!Request
      BY <2>2, HoldsNone DEF Plain, Partner!Request
    <2>5. QED
      BY <2>3, <2>4 DEF Partner!TypeOK
  <1>3. CASE GoesPassword(r)
    <2>1. PICK next \in Partner!PasswordSteps : Partner!Continue(r, next)
      BY <1>3 DEF GoesPassword
    <2> DEFINE n == [request[r] EXCEPT !.step = next]
    <2>2. n \in Writing
      BY <1>3, RequestTypes, NextWriting DEF GoesPassword
    <2>3. request' = [request EXCEPT ![r] = n]
      BY <2>1 DEF Partner!Continue
    <2> HIDE DEF n
    <2>4. n.step # "deleteOtp" /\ n \in Partner!Request
      BY <2>2, HoldsNone DEF Writing, Partner!Request
    <2>5. QED
      BY <2>3, <2>4 DEF Partner!TypeOK
  <1>4. CASE Partner!Finish(r)
    BY <1>4 DEF Partner!Finish, Partner!Idle, Partner!TypeOK
  <1>5. QED
    BY <1>1, <1>2, <1>3, <1>4

----------------------------------------------------------------------------
(* Codes *)

\* Steps that leave the codes alone: no request starts or ends to use one.
Quiet(r) ==
  /\ UNCHANGED <<otp, fate>>
  /\ request[r].step # "deleteOtp" /\ request'[r].step # "deleteOtp"
  /\ \A q \in Requests \ {r} : request'[q] = request[q]

\* They change nothing that SingleUse is about.
LEMMA QuietSteps ==
  ASSUME IInv, NEW r \in Requests, Quiet(r)
  PROVE  CodeInv' /\ UNCHANGED PartnerSecret!vars
  <1>1. CodeInv'
    BY DEF Quiet, CodeInv, IInv, OwnCodes, UsedIsGone
  <1>2. UNCHANGED <<Partner!Valid, Partner!Spent>>
    BY DEF Quiet, Partner!Valid, Partner!Spent
  <1>3. UNCHANGED Partner!Holding
    BY DEF Quiet, Partner!Holding
  <1>4. QED
    BY <1>1, <1>2, <1>3 DEF PartnerSecret!vars

\* Codes that are stored are not spent.
LEMMA ValidIsUnspent ==
  ASSUME IInv PROVE Partner!Valid \subseteq Codes \ Partner!Spent
  BY DEF IInv, Partner!TypeOK, UsedIsGone, Partner!Valid, Partner!Spent

\* What a verification holds is a code.
LEMMA UsedIsCode ==
  ASSUME IInv, NEW r \in Requests, request[r].step = "deleteOtp"
  PROVE  request[r].code \in Codes /\ request[r].code # NoCode
  BY RequestTypes, CodeAssumption DEF IInv, Using

\* A code is drawn and replaces the one of the e-mail.
LEMMA GenerateKeeps ==
  ASSUME IInv, NEW r \in Requests, NEW c \in Codes, Partner!generateOtp(r, c)
  PROVE  CodeInv' /\ PartnerSecret!Change
  <1> DEFINE e == request[r].email
  <1>1. /\ request[r].step = "setOtp" /\ fate[c] = "new"
        /\ fate' = [fate EXCEPT ![c] = "drawn"]
        /\ otp' = [otp EXCEPT ![e] = c]
    BY DEF Partner!generateOtp, Partner!Draw, Partner!setData
  <1>2. e \in Emails
    BY <1>1, RequestTypes DEF Partner!PlainSteps, Plain, IInv
  <1>3. /\ \A q \in Requests \ {r} : request'[q] = request[q]
        /\ request'[r].step # "deleteOtp"
    BY <1>1, RequestMoves DEF Partner!generateOtp, Partner!PlainSteps, GoesPlain, IInv
  <1> HIDE DEF e
  <1>4. c # NoCode /\ \A f \in Emails : otp[f] # c
    BY <1>1, CodeAssumption DEF IInv, UsedIsGone
  <1>5. OwnCodes'
    BY <1>1, <1>2, <1>3, <1>4 DEF IInv, Partner!TypeOK, OwnCodes, UsedIsGone
  <1>6. UsedIsGone'
    <2>1. \A f \in Emails : otp'[f] # NoCode => fate'[otp'[f]] = "drawn"
      BY <1>1, <1>2, <1>4 DEF IInv, Partner!TypeOK, UsedIsGone
    <2>2. \A q \in Requests : request'[q].step = "deleteOtp" => fate'[request'[q].code] # "new"
      BY <1>1, <1>3, RequestTypes DEF IInv, Partner!TypeOK, UsedIsGone, Using
    <2>3. QED
      BY <2>1, <2>2 DEF UsedIsGone
  <1>7. Partner!Spent' = Partner!Spent
    BY <1>1 DEF Partner!Spent, IInv, Partner!TypeOK
  <1>8. Partner!Valid' \subseteq Codes \ Partner!Spent
    <2>1. Partner!Valid' \subseteq Partner!Valid \cup {c}
      BY <1>1, <1>2 DEF Partner!Valid, IInv, Partner!TypeOK
    <2>2. c \notin Partner!Spent
      BY <1>1 DEF Partner!Spent
    <2>3. QED
      BY <2>1, <2>2, ValidIsUnspent
  <1>9. Partner!Holding' = Partner!Holding
    BY <1>1, <1>3 DEF Partner!Holding
  <1>10. QED
    BY <1>5, <1>6, <1>7, <1>8, <1>9 DEF CodeInv, PartnerSecret!Change

\* The code that is stored is accepted.
LEMMA VerifyKeeps ==
  ASSUME IInv, NEW r \in Requests, NEW e \in Emails, Partner!verifyOtp(r, e)
  PROVE  /\ request' \in [Requests -> Partner!Request \cup {Partner!Idle}]
         /\ CodeInv' /\ PartnerSecret!Accept(r)
  <1> DEFINE q == [step |-> "deleteOtp", email |-> e, code |-> otp[e]]
  <1>1. /\ otp[e] # NoCode /\ request[r] = Partner!Idle /\ request' = [request EXCEPT ![r] = q]
        /\ UNCHANGED <<otp, fate>>
    BY DEF Partner!verifyOtp, Partner!getData, Partner!Start, Partner!redis
  <1>2. q \in Partner!Request /\ q.step = "deleteOtp" /\ q.email = e /\ q.code = otp[e]
    BY <1>1 DEF IInv, Partner!TypeOK, Partner!Request
  <1> HIDE DEF q
  <1>3. request' \in [Requests -> Partner!Request \cup {Partner!Idle}]
    BY <1>1, <1>2 DEF IInv, Partner!TypeOK
  <1>4. request'[r] = q /\ \A p \in Requests \ {r} : request'[p] = request[p]
    BY <1>1 DEF IInv, Partner!TypeOK
  <1>5. OwnCodes' /\ UsedIsGone'
    BY <1>1, <1>2, <1>4 DEF IInv, OwnCodes, UsedIsGone
  <1>6. Partner!Holding[r] = NoCode
    BY <1>1 DEF Partner!Holding, Partner!Idle
  <1>7. otp[e] \in Partner!Valid /\ UNCHANGED <<Partner!Valid, Partner!Spent>>
    BY <1>1 DEF Partner!Valid, Partner!Spent
  <1>8. Partner!Holding' = [Partner!Holding EXCEPT ![r] = otp[e]]
    BY <1>2, <1>4 DEF Partner!Holding
  <1>9. QED
    BY <1>3, <1>5, <1>6, <1>7, <1>8 DEF CodeInv, PartnerSecret!Accept

\* The e-mail's code is deleted, and with it the one that was used.
LEMMA DeleteKeeps ==
  ASSUME IInv, NEW r \in Requests, Partner!DeleteOtp(r)
  PROVE  CodeInv' /\ PartnerSecret!Acknowledge(r)
  <1> DEFINE c == request[r].code
             e == request[r].email
  <1>1. /\ request[r].step = "deleteOtp"
        /\ otp' = [otp EXCEPT ![e] = NoCode]
        /\ fate' = [fate EXCEPT ![c] = "spent"]
    BY DEF Partner!DeleteOtp, Partner!deleteData, Partner!Acknowledge
  <1>2. c \in Codes /\ e \in Emails
    BY <1>1, RequestTypes DEF Using, IInv
  <1>3. /\ \A q \in Requests \ {r} : request'[q] = request[q]
        /\ request'[r].step # "deleteOtp"
    BY RequestMoves DEF Partner!DeleteOtp, IInv
  <1>4. \A f \in Emails : otp[f] = c => f = e
    BY <1>1 DEF IInv, OwnCodes
  <1>5. Partner!Holding[r] = c
    BY <1>1 DEF Partner!Holding
  <1> HIDE DEF c, e
  <1>6. OwnCodes'
    BY <1>1, <1>2, <1>3, UsedIsCode DEF IInv, Partner!TypeOK, OwnCodes
  <1>7. UsedIsGone'
    <2>1. \A f \in Emails : otp'[f] # NoCode => fate'[otp'[f]] = "drawn"
      BY <1>1, <1>2, <1>4 DEF IInv, Partner!TypeOK, UsedIsGone
    <2>2. \A q \in Requests : request'[q].step = "deleteOtp" => fate'[request'[q].code] # "new"
      BY <1>1, <1>2, <1>3, RequestTypes DEF IInv, Partner!TypeOK, UsedIsGone, Using
    <2>3. QED
      BY <2>1, <2>2 DEF UsedIsGone
  <1>8. Partner!Spent' = Partner!Spent \cup {c}
    BY <1>1, <1>2 DEF Partner!Spent, IInv, Partner!TypeOK
  <1>9. Partner!Valid' \subseteq Partner!Valid \ Partner!Spent'
    <2>1. Partner!Valid' \subseteq Partner!Valid \ {c}
      BY <1>1, <1>2, <1>4 DEF Partner!Valid, IInv, Partner!TypeOK
    <2>2. QED
      BY <2>1, <1>8, ValidIsUnspent
  <1>10. Partner!Holding' = [Partner!Holding EXCEPT ![r] = NoCode]
    BY <1>3 DEF Partner!Holding
  <1>11. c # NoCode
    BY <1>2, CodeAssumption
  <1>12. QED
    BY <1>5, <1>6, <1>7, <1>8, <1>9, <1>10, <1>11 DEF CodeInv, PartnerSecret!Acknowledge

\* Requests end without an acknowledgement; a key may be deleted all the same.
LEMMA LossKeeps ==
  ASSUME IInv, NEW R \in SUBSET Requests, UNCHANGED fate,
         otp' = otp \/ \E e \in Emails : Partner!deleteData(e),
         \A q \in R : request'[q] = Partner!Idle,
         \A q \in Requests \ R : request'[q] = request[q]
  PROVE  CodeInv' /\ PartnerSecret!GiveUp
  <1>1. \A e \in Emails : otp'[e] \in {otp[e], NoCode}
    BY DEF Partner!deleteData, IInv, Partner!TypeOK
  <1>2. OwnCodes'
    BY <1>1, UsedIsCode DEF IInv, OwnCodes, Partner!Idle
  <1>3. UsedIsGone'
    BY <1>1 DEF IInv, UsedIsGone, Partner!Idle
  <1>4. Partner!Holding' = [q \in Requests |-> IF q \in R THEN NoCode ELSE Partner!Holding[q]]
    BY DEF Partner!Holding, Partner!Idle
  <1>5. Partner!Valid' \subseteq Partner!Valid /\ Partner!Spent' = Partner!Spent
    BY <1>1 DEF Partner!Valid, Partner!Spent
  <1>6. QED
    BY <1>2, <1>3, <1>4, <1>5 DEF CodeInv, PartnerSecret!GiveUp

----------------------------------------------------------------------------
(* The steps: each is one of SingleUse, or none. *)

\* What every step has to keep and to be.
Kept == IInv' /\ [PartnerSecret!Next]_(PartnerSecret!vars)

\* The invariant holds before the first registration.
LEMMA InitIInv == Partner!Init => IInv /\ PartnerSecret!Init
  <1> SUFFICES ASSUME Partner!Init PROVE IInv /\ PartnerSecret!Init
    OBVIOUS
  <1>1. IInv
    BY FaultsAssumption
       DEF Partner!Init, Partner!NoRequests, IInv, Partner!TypeOK, Partner!Fates, OwnCodes,
           UsedIsGone, Partner!PasswordsAsTold, Partner!Idle
  <1>2. Partner!Valid = {} /\ Partner!Spent = {} /\ Partner!Holding = [r \in Requests |-> NoCode]
    BY DEF Partner!Init, Partner!NoRequests, Partner!Valid, Partner!Spent, Partner!Holding,
           Partner!Idle
  <1>3. QED
    BY <1>1, <1>2 DEF PartnerSecret!Init

\* Steps of a request that has no code and gets none, and leaves the codes alone.
LEMMA QuietKeeps ==
  ASSUME IInv, NEW r \in Requests, UNCHANGED <<otp, fate, faults>>,
         request[r].step # "deleteOtp",
         \/ \E q \in Plain \cup Writing : Partner!Start(r, q)
         \/ GoesPlain(r) \/ GoesPassword(r) \/ Partner!Finish(r),
         partner' \in [Emails -> Passwords \cup {NoPassword}],
         active' \subseteq Emails, loginKey' \subseteq Emails,
         tokens' \in [Emails -> SUBSET Partner!Jwts],
         told' \in [Emails -> Passwords \cup {NoPassword}],
         Partner!PasswordsAsTold'
  PROVE  Kept
  <1>1. /\ request' \in [Requests -> Partner!Request \cup {Partner!Idle}]
        /\ \A q \in Requests \ {r} : request'[q] = request[q]
        /\ request'[r].step # "deleteOtp"
    BY RequestMoves DEF IInv
  <1>2. Partner!TypeOK'
    BY <1>1 DEF IInv, Partner!TypeOK
  <1>3. CodeInv' /\ UNCHANGED PartnerSecret!vars
    BY <1>1, QuietSteps DEF Quiet
  <1>4. QED
    BY <1>2, <1>3 DEF Kept, CodeInv, IInv

NothingWritten == UNCHANGED <<partnerState, otp, fate, told, faults>>

\* A request starts, and nothing is written yet.
LEMMA StartKeeps ==
  ASSUME IInv, NEW r \in Requests, NEW q \in Plain \cup Writing, Partner!Start(r, q),
         NothingWritten
  PROVE  Kept
  <1>1. /\ request' \in [Requests -> Partner!Request \cup {Partner!Idle}]
        /\ \A p \in Requests \ {r} : request'[p] = request[p]
        /\ request[r].step # "deleteOtp" /\ request'[r].step # "deleteOtp"
    BY RequestMoves, HoldsNone DEF Partner!Start, IInv
  <1>2. Partner!TypeOK' /\ Partner!PasswordsAsTold'
    BY <1>1 DEF NothingWritten, partnerState, IInv, Partner!TypeOK, Partner!PasswordsAsTold
  <1>3. CodeInv' /\ UNCHANGED PartnerSecret!vars
    BY <1>1, QuietSteps DEF Quiet, NothingWritten
  <1>4. QED
    BY <1>2, <1>3 DEF Kept, CodeInv, IInv

\* Mails: a code is drawn.
LEMMA MailingKeeps ==
  ASSUME IInv, NEW r \in Requests, Partner!Mailing(r)
  PROVE  Kept
  <1>1. ASSUME NEW e \in Emails,
               \/ Partner!handleRegisterEmail(r, e)
               \/ Partner!forgetPassword(r, e)
               \/ Partner!resendOtp(r, e)
        PROVE  Kept
    <2> DEFINE q == [step |-> "setOtp", email |-> e]
    <2>1. q \in Plain \cup Writing
      BY DEF Plain, Partner!PlainSteps
    <2>2. Partner!Start(r, q) /\ NothingWritten
      BY <1>1 DEF Partner!handleRegisterEmail, Partner!forgetPassword, Partner!resendOtp,
                  NothingWritten, partnerState, Partner!mongo, Partner!redis
    <2> HIDE DEF q
    <2>3. QED
      BY <2>1, <2>2, StartKeeps
  <1>2. ASSUME NEW c \in Codes, Partner!generateOtp(r, c) PROVE Kept
    <2>1. /\ request[r].step = "setOtp"
          /\ request' \in [Requests -> Partner!Request \cup {Partner!Idle}]
      BY <1>2, RequestMoves DEF Partner!generateOtp, Partner!PlainSteps, GoesPlain, IInv
    <2>2. otp' \in [Emails -> Codes \cup {NoCode}] /\ fate' \in [Codes -> Partner!Fates]
      BY <1>2
         DEF Partner!generateOtp, Partner!Draw, Partner!setData, Partner!Fates, IInv,
             Partner!TypeOK
    <2>3. Partner!TypeOK' /\ Partner!PasswordsAsTold'
      BY <1>2, <2>1, <2>2
         DEF Partner!generateOtp, Partner!mongo, IInv, Partner!TypeOK, Partner!PasswordsAsTold
    <2>4. QED
      BY <1>2, <2>3, GenerateKeeps DEF Kept, CodeInv, IInv, PartnerSecret!Next
  <1>3. CASE Partner!sendEmail(r)
    <2>1. /\ request' \in [Requests -> Partner!Request \cup {Partner!Idle}]
          /\ \A p \in Requests \ {r} : request'[p] = request[p]
          /\ request[r].step # "deleteOtp" /\ request'[r].step # "deleteOtp"
      BY <1>3, RequestMoves DEF Partner!sendEmail, IInv
    <2>2. tokens' \in [Emails -> SUBSET Partner!Jwts]
      BY <1>3 DEF Partner!sendEmail, Partner!Sign, Partner!Jwts, IInv, Partner!TypeOK
    <2>3. Partner!TypeOK' /\ Partner!PasswordsAsTold'
      BY <1>3, <2>1, <2>2
         DEF Partner!sendEmail, Partner!mongo, Partner!redis, IInv, Partner!TypeOK,
             Partner!PasswordsAsTold
    <2>4. CodeInv' /\ UNCHANGED PartnerSecret!vars
      BY <1>3, <2>1, QuietSteps DEF Partner!sendEmail, Quiet, Partner!redis
    <2>5. QED
      BY <2>3, <2>4 DEF Kept, CodeInv, IInv
  <1>4. QED
    BY <1>1, <1>2, <1>3 DEF Partner!Mailing

\* A password that is stored and told at the same time is the one stored.
LEMMA Told ==
  ASSUME IInv, NEW e \in Emails, NEW p \in Passwords \cup {NoPassword},
         NEW q \in {p, NoPassword},
         partner' = [partner EXCEPT ![e] = p],
         told' = [told EXCEPT ![e] = q]
  PROVE  /\ partner' \in [Emails -> Passwords \cup {NoPassword}]
         /\ told' \in [Emails -> Passwords \cup {NoPassword}]
         /\ Partner!PasswordsAsTold'
  BY DEF IInv, Partner!TypeOK, Partner!PasswordsAsTold

\* Verification: a code is accepted, and then acknowledged or lost.
LEMMA VerifyingKeeps ==
  ASSUME IInv, NEW r \in Requests, Partner!Verifying(r)
  PROVE  Kept
  <1>1. ASSUME NEW e \in Emails, Partner!verifyOtp(r, e) PROVE Kept
    <2>1. /\ request' \in [Requests -> Partner!Request \cup {Partner!Idle}]
          /\ CodeInv' /\ PartnerSecret!Accept(r)
      BY <1>1, VerifyKeeps
    <2>2. Partner!TypeOK' /\ Partner!PasswordsAsTold'
      BY <1>1, <2>1
         DEF Partner!verifyOtp, Partner!getData, Partner!mongo, Partner!redis, IInv, Partner!TypeOK,
             Partner!PasswordsAsTold
    <2>3. QED
      BY <2>1, <2>2 DEF Kept, CodeInv, IInv, PartnerSecret!Next
  <1>2. CASE Partner!DeleteOtp(r)
    <2>1. CodeInv' /\ PartnerSecret!Acknowledge(r)
      BY <1>2, DeleteKeeps
    <2>2. request' \in [Requests -> Partner!Request \cup {Partner!Idle}]
      BY <1>2, RequestMoves DEF Partner!DeleteOtp, IInv
    <2>3. /\ otp' \in [Emails -> Codes \cup {NoCode}]
          /\ fate' \in [Codes -> Partner!Fates]
          /\ tokens' \in [Emails -> SUBSET Partner!Jwts]
      BY <1>2
         DEF Partner!DeleteOtp, Partner!deleteData, Partner!Acknowledge, Partner!Sign,
             Partner!Jwts, Partner!Fates, IInv, Partner!TypeOK
    <2>4. Partner!TypeOK' /\ Partner!PasswordsAsTold'
      BY <1>2, <2>2, <2>3
         DEF Partner!DeleteOtp, Partner!mongo, IInv, Partner!TypeOK, Partner!PasswordsAsTold
    <2>5. QED
      BY <2>1, <2>4 DEF Kept, CodeInv, IInv, PartnerSecret!Next
  <1>3. CASE Partner!DeleteOtpLost(r)
    <2>1. /\ request' \in [Requests -> Partner!Request \cup {Partner!Idle}]
          /\ request'[r] = Partner!Idle /\ \A q \in Requests \ {r} : request'[q] = request[q]
      BY <1>3, RequestMoves DEF Partner!DeleteOtpLost, Partner!Finish, IInv, Partner!TypeOK
    <2>2. Partner!deleteData(request[r].email) /\ request[r].email \in Emails /\ UNCHANGED fate
      BY <1>3, RequestTypes DEF Partner!DeleteOtpLost, Using, IInv
    <2>3. CodeInv' /\ PartnerSecret!GiveUp
      <3>1. \A q \in {r} : request'[q] = Partner!Idle
        BY <2>1
      <3>2. {r} \in SUBSET Requests
        OBVIOUS
      <3>3. QED
        BY <2>1, <2>2, <3>1, <3>2, LossKeeps
    <2>4. /\ otp' \in [Emails -> Codes \cup {NoCode}]
          /\ faults' \in 0..MaxFaults
      <3>1. otp' \in [Emails -> Codes \cup {NoCode}]
        BY <2>2 DEF Partner!deleteData, IInv, Partner!TypeOK
      <3>2. faults' \in 0..MaxFaults
        BY <1>3, FaultsAssumption DEF Partner!DeleteOtpLost, Partner!Fault, IInv, Partner!TypeOK
      <3>3. QED
        BY <3>1, <3>2
    <2>5. Partner!TypeOK' /\ Partner!PasswordsAsTold'
      BY <1>3, <2>1, <2>4
         DEF Partner!DeleteOtpLost, Partner!mongo, IInv, Partner!TypeOK, Partner!PasswordsAsTold
    <2>6. QED
      BY <2>3, <2>5 DEF Kept, CodeInv, IInv, PartnerSecret!Next
  <1>4. QED
    BY <1>1, <1>2, <1>3 DEF Partner!Verifying

\* Registration, log-in and log-out.
LEMMA EnteringKeeps ==
  ASSUME IInv, NEW r \in Requests, Partner!Entering(r)
  PROVE  Kept
  <1> USE DEF IInv
  <1>1. ASSUME NEW e \in Emails, NEW p \in Passwords, Partner!register(r, e, p) PROVE Kept
    <2>1. [step |-> "create", email |-> e, password |-> p] \in Plain \cup Writing
      BY DEF Writing, Partner!PasswordSteps
    <2>2. QED
      BY <1>1, <2>1, StartKeeps
         DEF Partner!register, NothingWritten, partnerState, Partner!mongo, Partner!redis
  <1>2. ASSUME NEW e \in Emails, Partner!login(r, e) PROVE Kept
    <2> DEFINE q == [step |-> IF e \in active THEN "setKey" ELSE "saveActive",
                     email |-> e, password |-> partner[e]]
    <2>1. q \in Plain \cup Writing
      BY <1>2 DEF Partner!login, Partner!Exists, Partner!TypeOK, Writing, Partner!PasswordSteps
    <2>2. Partner!Start(r, q) /\ NothingWritten
      BY <1>2 DEF Partner!login, NothingWritten, partnerState, Partner!mongo, Partner!redis
    <2> HIDE DEF q
    <2>3. QED
      BY <2>1, <2>2, StartKeeps
  <1>3. ASSUME NEW e \in Emails, Partner!logout(r, e) PROVE Kept
    <2>1. [step |-> "deleteKey", email |-> e] \in Plain \cup Writing
      BY DEF Plain, Partner!PlainSteps
    <2>2. QED
      BY <1>3, <2>1, StartKeeps
         DEF Partner!logout, NothingWritten, partnerState, Partner!mongo, Partner!redis
  <1>4. CASE Partner!Create(r)
    <2>1. request[r].email \in Emails /\ request[r].password \in Passwords
      BY <1>4, RequestTypes DEF Partner!Create, Partner!PasswordSteps, Writing
    <2>2. /\ partner' \in [Emails -> Passwords \cup {NoPassword}]
          /\ told' \in [Emails -> Passwords \cup {NoPassword}]
          /\ Partner!PasswordsAsTold'
      BY <1>4, <2>1, Told DEF Partner!Create, Partner!TypeOK, Partner!PasswordsAsTold
    <2>3. QED
      BY <1>4, <2>2, QuietKeeps DEF Partner!Create, Partner!redis, Partner!TypeOK
  <1>5. CASE Partner!SaveActive(r)
    <2>1. request[r].email \in Emails
      BY <1>5, RequestTypes DEF Partner!SaveActive, Partner!PasswordSteps, Writing
    <2>2. GoesPassword(r)
      BY <1>5 DEF Partner!SaveActive, Partner!PasswordSteps, GoesPassword
    <2>3. QED
      BY <1>5, <2>1, <2>2, QuietKeeps
         DEF Partner!SaveActive, Partner!redis, Partner!TypeOK, Partner!PasswordsAsTold
  <1>6. CASE Partner!SetKey(r)
    <2>1. request[r].email \in Emails
      BY <1>6, RequestTypes DEF Partner!SetKey, Partner!PasswordSteps, Writing
    <2>2. tokens' \in [Emails -> SUBSET Partner!Jwts]
      BY <1>6, <2>1 DEF Partner!SetKey, Partner!Sign, Partner!Jwts, Partner!TypeOK
    <2>3. QED
      BY <1>6, <2>1, <2>2, QuietKeeps
         DEF Partner!SetKey, Partner!mongo, Partner!TypeOK, Partner!PasswordsAsTold
  <1>7. CASE Partner!DeleteKey(r)
    <2>1. GoesPlain(r)
      BY <1>7 DEF Partner!DeleteKey, Partner!PlainSteps, GoesPlain
    <2>2. QED
      BY <1>7, <2>1, QuietKeeps
         DEF Partner!DeleteKey, Partner!mongo, Partner!TypeOK, Partner!PasswordsAsTold
  <1>8. CASE Partner!FindPartner(r)
    <2>1. GoesPlain(r) \/ Partner!Finish(r)
      BY <1>8 DEF Partner!FindPartner, Partner!PlainSteps, GoesPlain
    <2>2. QED
      BY <1>8, <2>1, QuietKeeps
         DEF Partner!FindPartner, Partner!mongo, Partner!redis, Partner!TypeOK,
             Partner!PasswordsAsTold
  <1>9. CASE Partner!SaveInactive(r)
    BY <1>9, QuietKeeps
       DEF Partner!SaveInactive, Partner!redis, Partner!TypeOK, Partner!PasswordsAsTold
  <1>10. QED
    BY <1>1, <1>2, <1>3, <1>4, <1>5, <1>6, <1>7, <1>8, <1>9 DEF Partner!Entering

\* A new password.
LEMMA ChangingKeeps ==
  ASSUME IInv, NEW r \in Requests, Partner!Changing(r)
  PROVE  Kept
  <1> USE DEF IInv
  <1>1. ASSUME NEW e \in Emails, NEW p \in Passwords,
               Partner!changePassword(r, e, p) \/ Partner!updatePassword(r, e, p)
        PROVE  Kept
    <2> DEFINE q == [step |-> IF Partner!changePassword(r, e, p) THEN "checkOld"
                              ELSE "savePassword",
                     email |-> e, password |-> p]
    <2>1. q \in Plain \cup Writing
      BY DEF Writing, Partner!PasswordSteps
    <2>2. Partner!Start(r, q) /\ NothingWritten
      BY <1>1 DEF Partner!changePassword, Partner!updatePassword,
                  NothingWritten, partnerState, Partner!mongo, Partner!redis
    <2> HIDE DEF q
    <2>3. QED
      BY <2>1, <2>2, StartKeeps
  <1>2. CASE Partner!CheckOld(r)
    <2>1. GoesPassword(r) \/ Partner!Finish(r)
      BY <1>2 DEF Partner!CheckOld, Partner!PasswordSteps, GoesPassword
    <2>2. QED
      BY <1>2, <2>1, QuietKeeps
         DEF Partner!CheckOld, Partner!mongo, Partner!redis, Partner!TypeOK,
             Partner!PasswordsAsTold
  <1>3. CASE Partner!SavePassword(r)
    <2>1. request[r].email \in Emails /\ request[r].password \in Passwords
      BY <1>3, RequestTypes DEF Partner!SavePassword, Partner!PasswordSteps, Writing
    <2>2. /\ partner' \in [Emails -> Passwords \cup {NoPassword}]
          /\ told' \in [Emails -> Passwords \cup {NoPassword}]
          /\ Partner!PasswordsAsTold'
      BY <1>3, <2>1, Told DEF Partner!SavePassword
    <2>3. QED
      BY <1>3, <2>2, QuietKeeps DEF Partner!SavePassword, Partner!redis, Partner!TypeOK
  <1>4. CASE Partner!WriteLost(r)
    <2>1. request[r].email \in Emails /\ request[r].password \in Passwords
      BY <1>4, RequestTypes DEF Partner!WriteLost, Partner!PasswordSteps, Writing
    <2>2. /\ partner' \in [Emails -> Passwords \cup {NoPassword}]
          /\ told' \in [Emails -> Passwords \cup {NoPassword}]
          /\ Partner!PasswordsAsTold'
      BY <1>4, <2>1, Told DEF Partner!WriteLost
    <2>3. /\ request' \in [Requests -> Partner!Request \cup {Partner!Idle}]
          /\ \A q \in Requests \ {r} : request'[q] = request[q]
          /\ request[r].step # "deleteOtp" /\ request'[r].step # "deleteOtp"
      BY <1>4, RequestMoves DEF Partner!WriteLost
    <2>4. CodeInv' /\ UNCHANGED PartnerSecret!vars
      BY <1>4, <2>3, QuietSteps DEF Partner!WriteLost, Quiet, Partner!redis
    <2>5. Partner!TypeOK'
      BY <1>4, <2>2, <2>3, FaultsAssumption
         DEF Partner!WriteLost, Partner!Fault, Partner!redis, Partner!TypeOK
    <2>6. QED
      BY <2>2, <2>4, <2>5 DEF Kept, CodeInv
  <1>5. QED
    BY <1>1, <1>2, <1>3, <1>4 DEF Partner!Changing

\* Keys and tokens run out.
LEMMA ExpiringKeeps ==
  ASSUME IInv, NEW e \in Emails, Partner!Expiring(e)
  PROVE  Kept
  <1>1. CASE Partner!OtpExpires(e)
    <2>1. CodeInv' /\ PartnerSecret!GiveUp
      <3>1. /\ Partner!deleteData(e) /\ UNCHANGED <<fate, request>>
            /\ {} \in SUBSET Requests
        BY <1>1 DEF Partner!OtpExpires
      <3>2. /\ \A q \in {} : request'[q] = Partner!Idle
            /\ \A q \in Requests \ {} : request'[q] = request[q]
        BY <3>1
      <3>3. QED
        BY <3>1, <3>2, LossKeeps
    <2>2. Partner!TypeOK' /\ Partner!PasswordsAsTold'
      BY <1>1
         DEF Partner!OtpExpires, Partner!deleteData, Partner!mongo, IInv, Partner!TypeOK,
             Partner!PasswordsAsTold
    <2>3. QED
      BY <2>1, <2>2 DEF Kept, CodeInv, IInv, PartnerSecret!Next
  <1>2. CASE Partner!LoginExpires(e) \/ \E t \in Partner!Jwts : Partner!TokenExpires(e, t)
    <2>1. Partner!TypeOK' /\ Partner!PasswordsAsTold'
      BY <1>2
         DEF Partner!LoginExpires, Partner!TokenExpires, Partner!mongo, Partner!redis, IInv,
             Partner!TypeOK, Partner!PasswordsAsTold
    <2>2. UNCHANGED <<otp, fate, request>>
      BY <1>2 DEF Partner!LoginExpires, Partner!TokenExpires, Partner!redis
    <2>3. CodeInv' /\ UNCHANGED PartnerSecret!vars
      BY <2>2
         DEF CodeInv, IInv, OwnCodes, UsedIsGone, PartnerSecret!vars, Partner!Valid,
             Partner!Spent, Partner!Holding
    <2>4. QED
      BY <2>1, <2>3 DEF Kept, CodeInv, IInv
  <1>3. QED
    BY <1>1, <1>2 DEF Partner!Expiring

\* A call fails, the service restarts.
LEMMA FailingKeeps ==
  ASSUME IInv, Partner!Restart \/ \E r \in Requests : Partner!RequestFails(r)
  PROVE  Kept
  <1>1. PICK R \in SUBSET Requests :
          /\ \A q \in R : request'[q] = Partner!Idle
          /\ \A q \in Requests \ R : request'[q] = request[q]
          /\ request' \in [Requests -> Partner!Request \cup {Partner!Idle}]
    <2>1. CASE Partner!Restart
      <3>1. Requests \in SUBSET Requests
        OBVIOUS
      <3>2. QED
        BY <2>1, <3>1 DEF Partner!Restart, Partner!Restarted
    <2>2. ASSUME NEW r \in Requests, Partner!RequestFails(r)
          PROVE  \E R \in SUBSET Requests :
                   /\ \A q \in R : request'[q] = Partner!Idle
                   /\ \A q \in Requests \ R : request'[q] = request[q]
                   /\ request' \in [Requests -> Partner!Request \cup {Partner!Idle}]
      <3>1. /\ \A q \in {r} : request'[q] = Partner!Idle
            /\ \A q \in Requests \ {r} : request'[q] = request[q]
            /\ request' \in [Requests -> Partner!Request \cup {Partner!Idle}]
        BY <2>2 DEF Partner!RequestFails, Partner!Failure, Partner!Finish, IInv, Partner!TypeOK
      <3>2. {r} \in SUBSET Requests
        OBVIOUS
      <3>3. QED
        BY <3>1, <3>2
    <2>3. QED
      BY <2>1, <2>2
  <1>2. UNCHANGED <<partner, active, otp, loginKey, tokens, fate, told>> /\ faults' \in 0..MaxFaults
    BY FaultsAssumption
       DEF Partner!Restart, Partner!Restarted, Partner!RequestFails, Partner!Failure,
           Partner!Fault, Partner!mongo, Partner!redis, IInv, Partner!TypeOK
  <1>3. CodeInv' /\ PartnerSecret!GiveUp
    BY <1>1, <1>2, LossKeeps
  <1>4. Partner!TypeOK' /\ Partner!PasswordsAsTold'
    BY <1>1, <1>2 DEF IInv, Partner!TypeOK, Partner!PasswordsAsTold
  <1>5. QED
    BY <1>3, <1>4 DEF Kept, CodeInv, IInv, PartnerSecret!Next

\* Every step of a partner's keeps the invariant and is one of SingleUse, or none.
LEMMA NextKeeps == ASSUME IInv, Partner!Next PROVE Kept
  BY MailingKeeps, VerifyingKeeps, EnteringKeeps, ChangingKeeps, ExpiringKeeps, FailingKeeps
     DEF Partner!Next

\* No other step touches what it is about.
LEMMA StutterKeeps ==
  ASSUME IInv, UNCHANGED <<partnerState, otp, fate, told, request, faults>> PROVE Kept
  <1>1. IInv'
    BY DEF partnerState, IInv, Partner!TypeOK, OwnCodes, UsedIsGone, Partner!PasswordsAsTold
  <1>2. UNCHANGED PartnerSecret!vars
    BY DEF PartnerSecret!vars, Partner!Valid, Partner!Spent, Partner!Holding
  <1>3. QED
    BY <1>1, <1>2 DEF Kept

----------------------------------------------------------------------------
(* Managers: a password is told by the step that stores it.                *)

ManagerIInv == Manager!TypeOK /\ Manager!PasswordsAsTold

\* A password that is stored and told at the same time is the one stored.
LEMMA ToldManager ==
  ASSUME ManagerIInv, NEW m \in Managers, NEW p \in Passwords \cup {NoPassword},
         NEW q \in {p, NoPassword},
         manager' = [manager EXCEPT ![m] = p], told' = [told EXCEPT ![m] = q]
  PROVE  /\ manager' \in [Managers -> Passwords \cup {NoPassword}]
         /\ told' \in [Managers -> Passwords \cup {NoPassword}]
         /\ Manager!PasswordsAsTold'
  BY DEF ManagerIInv, Manager!TypeOK, Manager!PasswordsAsTold

\* What is saved with a password has the fields for it.
LEMMA ManagerRequests ==
  ASSUME ManagerIInv, NEW r \in Requests, request[r] # Manager!Idle
  PROVE  /\ request[r].manager \in Managers
         /\ request[r].step \in {"saveNew", "saveReset"} => request[r].password \in Passwords
         /\ request[r].step = "saveReset" => request[r].code \in Codes
  BY DEF ManagerIInv, Manager!TypeOK, Manager!Request

\* Steps that write nothing, or only the token, of a manager.
LEMMA NoPasswordKeeps ==
  ASSUME ManagerIInv, UNCHANGED <<manager, told>>, hashed' \subseteq Managers,
         resetToken' \in [Managers -> Codes \cup {NoCode}],
         fate' \in [Codes -> Manager!Fates],
         request' \in [Requests -> Manager!Request \cup {Manager!Idle}],
         faults' \in 0..MaxFaults
  PROVE  ManagerIInv'
  BY DEF ManagerIInv, Manager!TypeOK, Manager!PasswordsAsTold

\* A request starts: nothing is written yet.
LEMMA ManagerStarts ==
  ASSUME ManagerIInv, NEW r \in Requests, NEW m \in Managers,
         \/ \E p \in Passwords : Manager!Signup(r, m, p) \/ Manager!resetPassword(r, m, p)
         \/ Manager!initiatePasswordReset(r, m)
  PROVE  ManagerIInv'
  <1>1. PICK q \in Manager!Request :
          Manager!Start(r, q) /\ UNCHANGED <<Manager!document, fate, told, faults>>
    BY DEF Manager!Signup, Manager!resetPassword, Manager!initiatePasswordReset, Manager!Request,
           ManagerIInv, Manager!TypeOK
  <1>2. request' \in [Requests -> Manager!Request \cup {Manager!Idle}]
    BY <1>1 DEF Manager!Start, ManagerIInv, Manager!TypeOK
  <1>3. QED
    BY <1>1, <1>2, NoPasswordKeeps DEF Manager!document, ManagerIInv, Manager!TypeOK

\* A request writes: a password is told with it, or no longer sure.
LEMMA ManagerWrites ==
  ASSUME ManagerIInv, NEW r \in Requests,
         Manager!SaveNew(r) \/ Manager!SaveReset(r) \/ Manager!WriteLost(r)
  PROVE  ManagerIInv'
  <1> DEFINE m == request[r].manager
             p == request[r].password
  <1>1. m \in Managers /\ p \in Passwords /\ request[r].step \in {"saveNew", "saveReset"}
    BY ManagerRequests
       DEF Manager!SaveNew, Manager!SaveReset, Manager!WriteLost, Manager!Idle
  <1>2. request' \in [Requests -> Manager!Request \cup {Manager!Idle}]
    BY DEF Manager!SaveNew, Manager!SaveReset, Manager!WriteLost, Manager!Finish,
           ManagerIInv, Manager!TypeOK
  <1>3. /\ hashed' \subseteq Managers
        /\ resetToken' \in [Managers -> Codes \cup {NoCode}]
        /\ fate' \in [Codes -> Manager!Fates]
        /\ faults' \in 0..MaxFaults
    BY <1>1, ManagerRequests, FaultsAssumption
       DEF Manager!SaveNew, Manager!SaveReset, Manager!WriteLost, Manager!SetPassword,
           Manager!Acknowledge, Manager!Fault, Manager!Fates, Manager!Idle,
           ManagerIInv, Manager!TypeOK
  <1>4. CASE UNCHANGED <<manager, told>>
    BY <1>2, <1>3, <1>4, NoPasswordKeeps
  <1>5. CASE /\ manager' = [manager EXCEPT ![m] = p]
             /\ \E q \in {p, NoPassword} : told' = [told EXCEPT ![m] = q]
    BY <1>1, <1>2, <1>3, <1>5, ToldManager DEF ManagerIInv, Manager!TypeOK
  <1>6. QED
    BY <1>4, <1>5 DEF Manager!SaveNew, Manager!SaveReset, Manager!WriteLost, Manager!SetPassword

\* Every step of a manager's keeps the invariant.
LEMMA ManagerNextKeeps == ASSUME ManagerIInv, Manager!Next PROVE ManagerIInv'
  <1>1. ASSUME NEW r \in Requests, NEW c \in Codes, Manager!SaveToken(r, c) PROVE ManagerIInv'
    <2>1. request[r].manager \in Managers
      BY <1>1, ManagerRequests DEF Manager!SaveToken, Manager!Idle
    <2>2. /\ resetToken' \in [Managers -> Codes \cup {NoCode}]
          /\ fate' \in [Codes -> Manager!Fates]
          /\ request' \in [Requests -> Manager!Request \cup {Manager!Idle}]
      BY <1>1, <2>1 DEF Manager!SaveToken, Manager!Draw, Manager!Fates, Manager!Finish,
                        ManagerIInv, Manager!TypeOK
    <2>3. QED
      BY <1>1, <2>2, NoPasswordKeeps DEF Manager!SaveToken, ManagerIInv, Manager!TypeOK
  <1>2. ASSUME NEW m \in Managers, NEW p \in Passwords, Manager!updateManager(m, p)
        PROVE  ManagerIInv'
    <2>1. hashed' \subseteq Managers /\ UNCHANGED <<resetToken, fate, request, faults>>
      BY <1>2 DEF Manager!updateManager, ManagerIInv, Manager!TypeOK
    <2>2. QED
      BY <1>2, <2>1, ToldManager DEF Manager!updateManager, ManagerIInv, Manager!TypeOK
  <1>3. ASSUME NEW m \in Managers, Manager!ResetExpires(m) PROVE ManagerIInv'
    BY <1>3, NoPasswordKeeps DEF Manager!ResetExpires, ManagerIInv, Manager!TypeOK
  <1>4. CASE Manager!Restart \/ \E r \in Requests : Manager!RequestFails(r)
    <2>1. /\ request' \in [Requests -> Manager!Request \cup {Manager!Idle}]
          /\ faults' \in 0..MaxFaults
      BY <1>4, FaultsAssumption
         DEF Manager!Restart, Manager!Restarted, Manager!RequestFails, Manager!Failure,
             Manager!Finish, Manager!Fault, ManagerIInv, Manager!TypeOK
    <2>2. QED
      BY <1>4, <2>1, NoPasswordKeeps
         DEF Manager!Restart, Manager!RequestFails, Manager!document, ManagerIInv, Manager!TypeOK
  <1>5. QED
    BY <1>1, <1>2, <1>3, <1>4, ManagerStarts, ManagerWrites DEF Manager!Next

\* No other step touches what it is about.
LEMMA ManagerStutterKeeps ==
  ASSUME ManagerIInv, UNCHANGED <<managerState, fate, told, request, faults>>
  PROVE  ManagerIInv'
  BY DEF managerState, ManagerIInv, Manager!TypeOK, Manager!PasswordsAsTold

\* The invariant holds before the first sign-up.
LEMMA ManagerInit == Manager!Init => ManagerIInv
  BY FaultsAssumption
     DEF Manager!Init, Manager!NoRequests, Manager!Fates, Manager!Idle,
         ManagerIInv, Manager!TypeOK, Manager!PasswordsAsTold

----------------------------------------------------------------------------
(* Theorems *)

PartnerInv == service = "partner" => IInv
ManagerInv == service = "manager" => ManagerIInv

\* A step of Accounts that ends with partners is one of theirs, or none.
LEMMA PartnerStep ==
  ASSUME PartnerInv, [Next]_vars, service' = "partner"
  PROVE  service = "partner" /\ Kept
  <1>1. CASE PartnerNext
    BY <1>1, NextKeeps DEF PartnerNext, PartnerInv
  <1>2. CASE UNCHANGED vars
    BY <1>2, StutterKeeps DEF vars, PartnerInv
  <1>3. QED
    BY <1>1, <1>2 DEF Next, ManagerNext, LoginNext, ResetNext, CustomerNext, ForgotNext

\* A step of Accounts that ends with managers is one of theirs, or none.
LEMMA ManagerStep ==
  ASSUME ManagerInv, [Next]_vars, service' = "manager" PROVE ManagerIInv'
  <1>1. CASE ManagerNext
    BY <1>1, ManagerNextKeeps DEF ManagerNext, ManagerInv
  <1>2. CASE UNCHANGED vars
    BY <1>2, ManagerStutterKeeps DEF vars, ManagerInv
  <1>3. QED
    BY <1>1, <1>2 DEF Next, PartnerNext, LoginNext, ResetNext, CustomerNext, ForgotNext

\* The invariants hold at all times.
LEMMA Invariant == Spec => [](PartnerInv /\ ManagerInv)
  <1>1. Init => PartnerInv /\ ManagerInv
    BY InitIInv, ManagerInit DEF Init, PartnerInv, ManagerInv
  <1>2. (PartnerInv /\ ManagerInv) /\ [Next]_vars => (PartnerInv /\ ManagerInv)'
    <2>1. ASSUME PartnerInv, [Next]_vars PROVE PartnerInv'
      BY <2>1, PartnerStep DEF PartnerInv, Kept
    <2>2. ASSUME ManagerInv, [Next]_vars PROVE ManagerInv'
      BY <2>2, ManagerStep DEF ManagerInv
    <2>3. QED
      BY <2>1, <2>2
  <1>3. QED
    BY <1>1, <1>2, PTL DEF Spec

\* Every reachable state of partners' and of managers' accounts is of its type.
THEOREM TypeCorrect ==
  Spec => [](/\ service = "partner" => Partner!TypeOK
             /\ service = "manager" => Manager!TypeOK)
  <1>1. PartnerInv /\ ManagerInv => /\ service = "partner" => Partner!TypeOK
                                    /\ service = "manager" => Manager!TypeOK
    BY DEF PartnerInv, ManagerInv, IInv, ManagerIInv
  <1>2. QED
    BY <1>1, Invariant, PTL

\* A partner or manager who was told a password has it until told otherwise.
THEOREM AlwaysAsTold == Spec => []PasswordsAsTold
  <1>1. PartnerInv /\ ManagerInv => PasswordsAsTold
    BY DEF PartnerInv, ManagerInv, IInv, ManagerIInv, PasswordsAsTold
  <1>2. QED
    BY <1>1, Invariant, PTL

AtPartners == service = "partner"

\* The one-time passwords of partners implement SingleUse.
THEOREM CodesServeOnce == Spec => (AtPartners => PartnersCodesServeOnce)
  <1>1. Init /\ AtPartners => PartnerSecret!Init
    BY InitIInv DEF Init, AtPartners
  <1>2. PartnerInv /\ AtPartners /\ [Next]_vars
        => AtPartners' /\ [PartnerSecret!Next]_(PartnerSecret!vars)
    <2> SUFFICES ASSUME PartnerInv, AtPartners, [Next]_vars
                 PROVE  AtPartners' /\ [PartnerSecret!Next]_(PartnerSecret!vars)
      OBVIOUS
    <2>1. AtPartners'
      BY DEF AtPartners, vars, Next, PartnerNext, ManagerNext, LoginNext, ResetNext,
             CustomerNext, ForgotNext
    <2>2. QED
      BY <2>1, PartnerStep DEF Kept, AtPartners
  <1>3. QED
    BY <1>1, <1>2, Invariant, PTL DEF Spec, PartnersCodesServeOnce, PartnerSecret!Spec

----------------------------------------------------------------------------
(* The sessions of customers. *)

Opening == {"cache", "cacheUser"}
Presenting == {"getSession", "putBack", "markUsed", "deleteKey"}

\* Sessions are presented, and marked, when they have been handed out.
HandedFirst ==
  /\ \A s \in handed : session[s] # "none"
  /\ \A s \in Sessions : session[s] = "used" => s \in handed
  /\ \A r \in Requests : request[r].step \in Presenting => request[r].id \in handed

\* A session that was created and not yet handed out belongs to one request.
OwnSession ==
  \A r \in Requests : request[r].step \in Opening =>
    /\ session[request[r].id] # "none"
    /\ request[r].id \notin handed
    /\ \A q \in Requests \ {r} : request[q].step \in Opening => request[q].id # request[r].id

\* What is exchanged is marked first.
MarkedFirst ==
  \A r \in Requests :
    \/ request[r].step = "deleteKey"
    \/ request[r].step = "create" /\ request[r].id # NoSession
    => session[request[r].id] = "used"

CustomerIInv ==
  /\ Customer!TypeOK /\ HandedFirst /\ OwnSession /\ MarkedFirst
  /\ Customer!ExchangedIsMarked /\ Customer!UsedIsNotCached

----------------------------------------------------------------------------
(* Requests *)

\* What the step of a request says about its session.
LEMMA CustomerRequests ==
  ASSUME Customer!TypeOK, NEW r \in Requests
  PROVE  /\ request[r].step \in Presenting \cup Opening => request[r].id \in Sessions
         /\ request[r].step = "create" => request[r].id \in Sessions \cup {NoSession}
         /\ request[r].step = "idle" <=> request[r] = Customer!Idle
         /\ request[r].step \in Presenting \cup Opening \cup {"create", "idle"}
  BY DEF Customer!TypeOK, Customer!Request, Customer!Idle, Presenting, Opening

\* The record of a request that goes on with its session.
LEMMA NextRequest ==
  ASSUME NEW S1, NEW S2, NEW K, NEW I, NEW q \in [step: S1, kind: K, id: I], NEW next \in S2
  PROVE  LET n == [q EXCEPT !.step = next] IN
         n \in [step: S2, kind: K, id: I] /\ n.step = next /\ n.id = q.id /\ n.kind = q.kind
  OBVIOUS

\* A request that goes on keeps its session.
LEMMA CustomerContinued ==
  ASSUME Customer!TypeOK, NEW r \in Requests, NEW next, Customer!Continue(r, next),
         \/ request[r].step = "getSession" /\ next \in {"markUsed", "putBack"}
         \/ request[r].step = "markUsed" /\ next = "deleteKey"
         \/ request[r].step = "deleteKey" /\ request[r].kind = "refresh" /\ next = "create"
         \/ request[r].step = "cache" /\ next = "cacheUser"
  PROVE  /\ request' \in [Requests -> Customer!Request \cup {Customer!Idle}]
         /\ \A q \in Requests \ {r} : request'[q] = request[q]
         /\ request'[r].step = next /\ request'[r].id = request[r].id
  <1> DEFINE n == [request[r] EXCEPT !.step = next]
  <1>1. request' = [request EXCEPT ![r] = n]
    BY DEF Customer!Continue
  <1>2. n \in Customer!Request /\ n.step = next /\ n.id = request[r].id
    <2>1. CASE request[r].step = "getSession" /\ next \in {"markUsed", "putBack"}
      <3>1. request[r] \in [step: {"getSession", "putBack"}, kind: {"refresh"}, id: Sessions]
        BY <2>1 DEF Customer!TypeOK, Customer!Request, Customer!Idle
      <3>2. /\ n \in [step: {"markUsed", "putBack"}, kind: {"refresh"}, id: Sessions]
            /\ n.step = next /\ n.id = request[r].id
        BY <3>1, <2>1, NextRequest
      <3> HIDE DEF n
      <3>3. QED
        BY <3>2 DEF Customer!Request
    <2>2. CASE request[r].step = "markUsed" /\ next = "deleteKey"
      <3>1. request[r] \in [step: {"markUsed", "deleteKey"}, kind: {"refresh", "logout"}, id: Sessions]
        BY <2>2 DEF Customer!TypeOK, Customer!Request, Customer!Idle
      <3>2. /\ n \in [step: {"deleteKey"}, kind: {"refresh", "logout"}, id: Sessions]
            /\ n.step = next /\ n.id = request[r].id
        BY <3>1, <2>2, NextRequest
      <3> HIDE DEF n
      <3>3. QED
        BY <3>2 DEF Customer!Request
    <2>3. CASE request[r].step = "deleteKey" /\ request[r].kind = "refresh" /\ next = "create"
      <3>1. request[r] \in [step: {"markUsed", "deleteKey"}, kind: {"refresh", "logout"}, id: Sessions]
        BY <2>3 DEF Customer!TypeOK, Customer!Request, Customer!Idle
      <3>2. /\ n \in [step: {"create"}, kind: {"refresh", "logout"}, id: Sessions]
            /\ n.step = next /\ n.id = request[r].id /\ n.kind = "refresh"
        BY <3>1, <2>3, NextRequest
      <3> HIDE DEF n
      <3>3. QED
        BY <3>2 DEF Customer!Request
    <2>4. CASE request[r].step = "cache" /\ next = "cacheUser"
      <3>1. request[r] \in [step: {"cache", "cacheUser"}, kind: {"login", "refresh"}, id: Sessions]
        BY <2>4 DEF Customer!TypeOK, Customer!Request, Customer!Idle
      <3>2. /\ n \in [step: {"cacheUser"}, kind: {"login", "refresh"}, id: Sessions]
            /\ n.step = next /\ n.id = request[r].id
        BY <3>1, <2>4, NextRequest
      <3> HIDE DEF n
      <3>3. QED
        BY <3>2 DEF Customer!Request
    <2>5. QED
      BY <2>1, <2>2, <2>3, <2>4
  <1> HIDE DEF n
  <1>3. QED
    BY <1>1, <1>2 DEF Customer!TypeOK

\* A request that ends leaves the others alone.
LEMMA CustomerFinished ==
  ASSUME Customer!TypeOK, NEW r \in Requests, Customer!Finish(r)
  PROVE  /\ request' \in [Requests -> Customer!Request \cup {Customer!Idle}]
         /\ \A q \in Requests \ {r} : request'[q] = request[q]
         /\ request'[r].step = "idle"
  BY DEF Customer!TypeOK, Customer!Finish, Customer!Idle

\* A request that starts does too.
LEMMA CustomerStarted ==
  ASSUME Customer!TypeOK, NEW r \in Requests, NEW q \in Customer!Request, Customer!Start(r, q)
  PROVE  /\ request' \in [Requests -> Customer!Request \cup {Customer!Idle}]
         /\ \A p \in Requests \ {r} : request'[p] = request[p]
         /\ request[r] = Customer!Idle /\ request'[r] = q
  BY DEF Customer!TypeOK, Customer!Start

----------------------------------------------------------------------------
(* The steps *)

\* The invariant holds before the first log-in.
LEMMA CustomerInit == Customer!Init => CustomerIInv
  BY FaultsAssumption
     DEF Customer!Init, Customer!NoRequests, CustomerIInv, Customer!TypeOK, HandedFirst, OwnSession,
         MarkedFirst, Customer!ExchangedIsMarked,
         Customer!UsedIsNotCached, Customer!Idle, Opening, Presenting

\* A log-in has no session yet.
LEMMA CustomerLoginKeeps ==
  ASSUME CustomerIInv, NEW r \in Requests, Customer!login(r)
  PROVE  CustomerIInv'
  <1> DEFINE q == [step |-> "create", kind |-> "login", id |-> NoSession]
  <1>1. q \in Customer!Request
    BY DEF Customer!Request
  <1>2. /\ request' \in [Requests -> Customer!Request \cup {Customer!Idle}]
        /\ \A p \in Requests \ {r} : request'[p] = request[p]
        /\ request[r] = Customer!Idle /\ request'[r] = q
    BY <1>1, CustomerStarted DEF Customer!login, CustomerIInv
  <1>3. UNCHANGED <<session, parent, cached, handed, putBack, faults>>
    BY DEF Customer!login, Customer!store
  <1>4. Customer!TypeOK'
    BY <1>2, <1>3 DEF CustomerIInv, Customer!TypeOK
  <1>5. HandedFirst' /\ OwnSession' /\ MarkedFirst'
    BY <1>2, <1>3 DEF CustomerIInv, HandedFirst, OwnSession, MarkedFirst, Opening, Presenting
  <1>6. Customer!ExchangedIsMarked' /\ Customer!UsedIsNotCached'
    BY <1>2, <1>3 DEF CustomerIInv, Customer!ExchangedIsMarked, Customer!UsedIsNotCached, Customer!Idle
  <1>7. QED
    BY <1>4, <1>5, <1>6 DEF CustomerIInv

\* A refresh and a log-out present a session that was handed out.
LEMMA PresentedKeeps ==
  ASSUME CustomerIInv, NEW r \in Requests, NEW s \in Sessions, Customer!refreshToken(r, s) \/ Customer!logout(r, s)
  PROVE  CustomerIInv'
  <1> DEFINE q == IF Customer!refreshToken(r, s) THEN [step |-> "getSession", kind |-> "refresh", id |-> s]
                  ELSE [step |-> "markUsed", kind |-> "logout", id |-> s]
  <1>1. q \in Customer!Request /\ q.step \in {"getSession", "markUsed"} /\ q.id = s
    BY DEF Customer!Request
  <1>2. Customer!Start(r, q)
    BY DEF Customer!refreshToken, Customer!logout
  <1> HIDE DEF q
  <1>3. /\ request' \in [Requests -> Customer!Request \cup {Customer!Idle}]
        /\ \A p \in Requests \ {r} : request'[p] = request[p]
        /\ request[r] = Customer!Idle /\ request'[r] = q
    BY <1>1, <1>2, CustomerStarted DEF CustomerIInv
  <1>4. s \in handed /\ UNCHANGED <<session, parent, cached, handed, putBack, faults>>
    BY DEF Customer!refreshToken, Customer!logout, Customer!store
  <1>5. Customer!TypeOK'
    BY <1>3, <1>4 DEF CustomerIInv, Customer!TypeOK
  <1>6. HandedFirst' /\ OwnSession' /\ MarkedFirst'
    BY <1>1, <1>3, <1>4 DEF CustomerIInv, HandedFirst, OwnSession, MarkedFirst, Opening, Presenting
  <1>7. Customer!ExchangedIsMarked' /\ Customer!UsedIsNotCached'
    BY <1>1, <1>3, <1>4
       DEF CustomerIInv, Customer!ExchangedIsMarked, Customer!UsedIsNotCached, Customer!Idle
  <1>8. QED
    BY <1>5, <1>6, <1>7 DEF CustomerIInv
\* A look-up in Redis, and what a refused refresh leaves there.
LEMMA LookupKeeps ==
  ASSUME CustomerIInv, NEW r \in Requests, Customer!getSession(r) \/ Customer!PutBack(r)
  PROVE  CustomerIInv'
  <1>1. CASE Customer!getSession(r)
    <2> DEFINE next == IF request[r].id \in cached THEN "markUsed" ELSE "putBack"
    <2>1. /\ request' \in [Requests -> Customer!Request \cup {Customer!Idle}]
          /\ \A q \in Requests \ {r} : request'[q] = request[q]
          /\ request'[r].step \in {"markUsed", "putBack"} /\ request'[r].id = request[r].id
      BY <1>1, CustomerContinued DEF Customer!getSession, CustomerIInv
    <2>2. request[r].step = "getSession" /\ UNCHANGED <<session, parent, cached, handed, putBack, faults>>
      BY <1>1 DEF Customer!getSession, Customer!store
    <2>3. Customer!TypeOK'
      BY <2>1, <2>2 DEF CustomerIInv, Customer!TypeOK
    <2>4. HandedFirst' /\ OwnSession' /\ MarkedFirst'
      BY <2>1, <2>2 DEF CustomerIInv, HandedFirst, OwnSession, MarkedFirst, Opening, Presenting
    <2>5. Customer!ExchangedIsMarked' /\ Customer!UsedIsNotCached'
      BY <2>1, <2>2 DEF CustomerIInv, Customer!ExchangedIsMarked, Customer!UsedIsNotCached
    <2>6. QED
      BY <2>3, <2>4, <2>5 DEF CustomerIInv
  <1>2. CASE Customer!PutBack(r)
    <2>1. /\ request' \in [Requests -> Customer!Request \cup {Customer!Idle}]
          /\ \A q \in Requests \ {r} : request'[q] = request[q]
          /\ request'[r].step = "idle"
      BY <1>2, CustomerFinished DEF Customer!PutBack, CustomerIInv
    <2>2. /\ request[r].step = "putBack"
          /\ cached' = cached \cup {request[r].id} /\ putBack' = putBack \cup {request[r].id}
          /\ UNCHANGED <<session, parent, handed, faults>>
      BY <1>2 DEF Customer!PutBack
    <2>3. request[r].id \in Sessions
      BY <2>2, CustomerRequests DEF CustomerIInv, Presenting
    <2>4. Customer!TypeOK'
      BY <2>1, <2>2, <2>3 DEF CustomerIInv, Customer!TypeOK
    <2>5. HandedFirst' /\ OwnSession' /\ MarkedFirst'
      BY <2>1, <2>2 DEF CustomerIInv, HandedFirst, OwnSession, MarkedFirst, Opening, Presenting
    <2>6. Customer!ExchangedIsMarked' /\ Customer!UsedIsNotCached'
      BY <2>1, <2>2 DEF CustomerIInv, Customer!ExchangedIsMarked, Customer!UsedIsNotCached
    <2>7. QED
      BY <2>4, <2>5, <2>6 DEF CustomerIInv
  <1>3. QED
    BY <1>1, <1>2

\* A session is marked by a request that goes on to delete its key.
LEMMA MarkUsedKeeps ==
  ASSUME CustomerIInv, NEW r \in Requests, Customer!MarkUsed(r)
  PROVE  CustomerIInv'
  <1>1. /\ request' \in [Requests -> Customer!Request \cup {Customer!Idle}]
        /\ \A q \in Requests \ {r} : request'[q] = request[q]
        /\ request'[r].step = "deleteKey" /\ request'[r].id = request[r].id
    BY CustomerContinued DEF Customer!MarkUsed, CustomerIInv
  <1>2. /\ request[r].step = "markUsed"
        /\ session' = [session EXCEPT ![request[r].id] = "used"]
        /\ UNCHANGED <<parent, cached, handed, putBack, faults>>
    BY DEF Customer!MarkUsed
  <1>3. request[r].id \in Sessions /\ request[r].id \in handed
    BY <1>2, CustomerRequests DEF CustomerIInv, HandedFirst, Presenting
  <1>4. Customer!TypeOK'
    BY <1>1, <1>2, <1>3 DEF CustomerIInv, Customer!TypeOK
  <1>5. HandedFirst'
    BY <1>1, <1>2, <1>3 DEF CustomerIInv, Customer!TypeOK, HandedFirst, Presenting
  <1>6. OwnSession'
    BY <1>1, <1>2, <1>3, CustomerRequests DEF CustomerIInv, Customer!TypeOK, OwnSession, Opening
  <1>7. MarkedFirst'
    BY <1>1, <1>2, <1>3, CustomerRequests DEF CustomerIInv, Customer!TypeOK, MarkedFirst, Presenting
  <1>8. Customer!ExchangedIsMarked'
    BY <1>2, <1>3 DEF CustomerIInv, Customer!TypeOK, Customer!ExchangedIsMarked
  <1>9. Customer!UsedIsNotCached'
    BY <1>1, <1>2, <1>3 DEF CustomerIInv, Customer!TypeOK, Customer!UsedIsNotCached
  <1>10. QED
    BY <1>4, <1>5, <1>6, <1>7, <1>8, <1>9 DEF CustomerIInv

\* A log-out ends then, a refresh goes on to create the session.
LEMMA DeleteKeyKeeps ==
  ASSUME CustomerIInv, NEW r \in Requests, Customer!DeleteKey(r)
  PROVE  CustomerIInv'
  <1>1. /\ request[r].step = "deleteKey"
        /\ cached' = cached \ {request[r].id}
        /\ UNCHANGED <<session, parent, handed, putBack, faults>>
    BY DEF Customer!DeleteKey
  <1>2. /\ request' \in [Requests -> Customer!Request \cup {Customer!Idle}]
        /\ \A q \in Requests \ {r} : request'[q] = request[q]
        /\ \/ request'[r].step = "create" /\ request'[r].id = request[r].id
           \/ request'[r].step = "idle"
    BY <1>1, CustomerContinued, CustomerFinished DEF Customer!DeleteKey, Customer!AfterUse, CustomerIInv
  <1>3. Customer!TypeOK'
    BY <1>1, <1>2 DEF CustomerIInv, Customer!TypeOK
  <1>4. HandedFirst' /\ OwnSession' /\ MarkedFirst'
    BY <1>1, <1>2 DEF CustomerIInv, HandedFirst, OwnSession, MarkedFirst, Opening, Presenting
  <1>5. Customer!ExchangedIsMarked' /\ Customer!UsedIsNotCached'
    BY <1>1, <1>2 DEF CustomerIInv, Customer!ExchangedIsMarked, Customer!UsedIsNotCached
  <1>6. QED
    BY <1>3, <1>4, <1>5 DEF CustomerIInv

\* A session is created by a request that has marked the one it replaces.
LEMMA CreateKeeps ==
  ASSUME CustomerIInv, NEW r \in Requests, NEW s \in Sessions, Customer!CreateSession(r, s)
  PROVE  CustomerIInv'
  <1>1. /\ request[r].step = "create" /\ session[s] = "none"
        /\ session' = [session EXCEPT ![s] = "open"]
        /\ parent' = [parent EXCEPT ![s] = request[r].id]
        /\ UNCHANGED <<cached, handed, putBack, faults>>
    BY DEF Customer!CreateSession
  <1> DEFINE n == [[request[r] EXCEPT !.step = "cache"] EXCEPT !.id = s]
  <1>2. request[r] \in [step: {"create"}, kind: {"login", "refresh"}, id: Sessions \cup {NoSession}]
    BY <1>1 DEF CustomerIInv, Customer!TypeOK, Customer!Request, Customer!Idle
  <1>3. n \in Customer!Request /\ n.step = "cache" /\ n.id = s
    BY <1>2 DEF Customer!Request
  <1>4. request' = [request EXCEPT ![r] = n]
    BY <1>2 DEF Customer!CreateSession, CustomerIInv, Customer!TypeOK
  <1> HIDE DEF n
  <1>5. /\ request' \in [Requests -> Customer!Request \cup {Customer!Idle}]
        /\ \A q \in Requests \ {r} : request'[q] = request[q]
        /\ request'[r].step = "cache" /\ request'[r].id = s
    BY <1>3, <1>4 DEF CustomerIInv, Customer!TypeOK
  <1>6. s \notin handed
    BY <1>1 DEF CustomerIInv, HandedFirst
  <1>7. request[r].id # NoSession => request[r].id \in Sessions /\ session[request[r].id] = "used"
    BY <1>1, <1>2 DEF CustomerIInv, MarkedFirst
  <1>8. Customer!TypeOK'
    BY <1>1, <1>2, <1>5 DEF CustomerIInv, Customer!TypeOK
  <1>9. HandedFirst'
    BY <1>1, <1>5, <1>6, CustomerRequests DEF CustomerIInv, Customer!TypeOK, HandedFirst, Presenting
  <1>10. OwnSession'
    BY <1>1, <1>5, <1>6, CustomerRequests DEF CustomerIInv, Customer!TypeOK, OwnSession, Opening
  <1>11. MarkedFirst'
    BY <1>1, <1>5, CustomerRequests DEF CustomerIInv, Customer!TypeOK, MarkedFirst, Presenting
  <1>12. Customer!ExchangedIsMarked'
    BY <1>1, <1>7 DEF CustomerIInv, Customer!TypeOK, Customer!ExchangedIsMarked
  <1>13. Customer!UsedIsNotCached'
    BY <1>1, <1>5 DEF CustomerIInv, Customer!TypeOK, Customer!UsedIsNotCached
  <1>14. QED
    BY <1>8, <1>9, <1>10, <1>11, <1>12, <1>13 DEF CustomerIInv

\* What is put into Redis is not marked: nobody else knows it yet.
LEMMA CacheKeeps ==
  ASSUME CustomerIInv, NEW r \in Requests, Customer!CacheSession(r) \/ Customer!redisUserCache(r)
  PROVE  CustomerIInv'
  <1> DEFINE s == request[r].id
  <1>1. /\ request[r].step \in Opening /\ s \in Sessions
        /\ cached' \in {cached, cached \cup {s}}
        /\ handed' \in {handed, handed \cup {s}}
        /\ UNCHANGED <<session, parent, putBack, faults>>
    BY CustomerRequests
       DEF Customer!CacheSession, Customer!redisUserCache, Customer!HandOut, CustomerIInv, Opening
  <1>2. /\ request' \in [Requests -> Customer!Request \cup {Customer!Idle}]
        /\ \A q \in Requests \ {r} : request'[q] = request[q]
        /\ \/ request'[r].step = "cacheUser" /\ request'[r].id = s /\ UNCHANGED handed
           \/ request'[r].step = "idle"
    BY CustomerContinued, CustomerFinished
       DEF Customer!CacheSession, Customer!redisUserCache, Customer!HandOut, CustomerIInv
  <1> HIDE DEF s
  <1>3. s \notin handed /\ session[s] \notin {"none", "used"}
    BY <1>1 DEF s, CustomerIInv, OwnSession, HandedFirst
  <1>4. \A q \in Requests \ {r} : request[q].step \in Opening => request[q].id # s
    BY <1>1 DEF s, CustomerIInv, OwnSession
  <1>5. Customer!TypeOK'
    BY <1>1, <1>2 DEF CustomerIInv, Customer!TypeOK
  <1>6. HandedFirst'
    BY <1>1, <1>2, <1>3 DEF CustomerIInv, HandedFirst, Presenting
  <1>7. OwnSession'
    BY <1>1, <1>2, <1>3, <1>4 DEF s, CustomerIInv, OwnSession, Opening
  <1>8. MarkedFirst' /\ Customer!ExchangedIsMarked'
    BY <1>1, <1>2 DEF CustomerIInv, MarkedFirst, Customer!ExchangedIsMarked
  <1>9. Customer!UsedIsNotCached'
    BY <1>1, <1>2, <1>3 DEF CustomerIInv, Customer!UsedIsNotCached, Opening
  <1>10. QED
    BY <1>5, <1>6, <1>7, <1>8, <1>9 DEF CustomerIInv

\* A key runs out, a call fails.
LEMMA CustomerLossKeeps ==
  ASSUME CustomerIInv, (\E s \in Sessions : Customer!KeyExpires(s)) \/ \E r \in Requests : Customer!RequestFails(r)
  PROVE  CustomerIInv'
  <1>1. CASE \E s \in Sessions : Customer!KeyExpires(s)
    <2>1. PICK s \in Sessions : Customer!KeyExpires(s)
      BY <1>1
    <2>2. cached' = cached \ {s} /\ UNCHANGED <<session, parent, handed, putBack, request, faults>>
      BY <2>1 DEF Customer!KeyExpires
    <2>3. Customer!TypeOK' /\ HandedFirst' /\ OwnSession' /\ MarkedFirst'
      BY <2>2 DEF CustomerIInv, Customer!TypeOK, HandedFirst, OwnSession, MarkedFirst
    <2>4. Customer!ExchangedIsMarked' /\ Customer!UsedIsNotCached'
      BY <2>2 DEF CustomerIInv, Customer!ExchangedIsMarked, Customer!UsedIsNotCached
    <2>5. QED
      BY <2>3, <2>4 DEF CustomerIInv
  <1>2. CASE \E r \in Requests : Customer!RequestFails(r)
    <2>1. PICK r \in Requests : Customer!RequestFails(r)
      BY <1>2
    <2>2. /\ request' \in [Requests -> Customer!Request \cup {Customer!Idle}]
          /\ \A q \in Requests \ {r} : request'[q] = request[q]
          /\ request'[r].step = "idle"
      BY <2>1, CustomerFinished DEF Customer!RequestFails, Customer!Failure, CustomerIInv
    <2>3. faults' \in 0..MaxFaults /\ faults' # 0 /\ UNCHANGED <<session, parent, cached, handed, putBack>>
      BY <2>1, FaultsAssumption
         DEF Customer!RequestFails, Customer!Failure, Customer!Fault, Customer!store, CustomerIInv,
             Customer!TypeOK
    <2>4. Customer!TypeOK'
      BY <2>2, <2>3 DEF CustomerIInv, Customer!TypeOK
    <2>5. HandedFirst' /\ OwnSession' /\ MarkedFirst'
      BY <2>2, <2>3 DEF CustomerIInv, HandedFirst, OwnSession, MarkedFirst, Opening, Presenting
    <2>6. Customer!ExchangedIsMarked' /\ Customer!UsedIsNotCached'
      BY <2>3 DEF CustomerIInv, Customer!ExchangedIsMarked, Customer!UsedIsNotCached
    <2>7. QED
      BY <2>4, <2>5, <2>6 DEF CustomerIInv
  <1>3. QED
    BY <1>1, <1>2

\* Every step keeps the invariant.
LEMMA CustomerNextKeeps == ASSUME CustomerIInv, Customer!Next PROVE CustomerIInv'
  BY CustomerLoginKeeps, PresentedKeeps, LookupKeeps, MarkUsedKeeps, DeleteKeyKeeps, CreateKeeps,
     CacheKeeps, CustomerLossKeeps DEF Customer!Next, Customer!Sessioning

\* No other step touches what it is about.
LEMMA CustomerStutterKeeps == ASSUME CustomerIInv, UNCHANGED <<customerState, request, faults>> PROVE CustomerIInv'
  BY DEF customerState, CustomerIInv, Customer!TypeOK, HandedFirst, OwnSession, MarkedFirst,
         Customer!ExchangedIsMarked, Customer!UsedIsNotCached

----------------------------------------------------------------------------
(* Theorems *)

CustomerInv == service = "customer" => CustomerIInv

\* The invariant holds at all times.
LEMMA CustomerAlways == Spec => []CustomerInv
  <1>1. Init => CustomerInv
    BY CustomerInit DEF Init, CustomerInv
  <1>2. CustomerInv /\ [Next]_vars => CustomerInv'
    <2> SUFFICES ASSUME CustomerInv, [Next]_vars, service' = "customer" PROVE CustomerIInv'
      BY DEF CustomerInv
    <2>1. CASE CustomerNext
      BY <2>1, CustomerNextKeeps DEF CustomerNext, CustomerInv
    <2>2. CASE UNCHANGED vars
      BY <2>2, CustomerStutterKeeps DEF vars, CustomerInv
    <2>3. QED
      BY <2>1, <2>2 DEF Next, PartnerNext, ManagerNext, LoginNext, ResetNext, ForgotNext
  <1>3. QED
    BY <1>1, <1>2, PTL DEF Spec

\* Every reachable state of the sessions is of its type.
THEOREM CustomerTypeCorrect == Spec => [](service = "customer" => Customer!TypeOK)
  <1>1. CustomerInv => (service = "customer" => Customer!TypeOK)
    BY DEF CustomerInv, CustomerIInv
  <1>2. QED
    BY <1>1, CustomerAlways, PTL

\* markSessionUsed comes first: a session that was exchanged is marked.
THEOREM AlwaysMarked == Spec => []ExchangedIsMarked
  <1>1. CustomerInv => ExchangedIsMarked
    BY DEF CustomerInv, CustomerIInv, ExchangedIsMarked
  <1>2. QED
    BY <1>1, CustomerAlways, PTL

\* No request but a refused refresh brings a marked session back into Redis.
THEOREM NeverCachedAgain == Spec => []UsedIsNotCached
  <1>1. CustomerInv => UsedIsNotCached
    BY DEF CustomerInv, CustomerIInv, UsedIsNotCached
  <1>2. QED
    BY <1>1, CustomerAlways, PTL
----------------------------------------------------------------------------
(* The log-in of an administrator. *)

\* The token a verification is about to hand out is its own, and new.
NewTokens ==
  \A r \in Requests : request[r].step \in Login!VerifySteps =>
    /\ request[r].token \notin entered
    /\ \A q \in Requests \ {r} :
         request[q].step \in Login!VerifySteps => request[q].token # request[r].token

\* A log-out is about tokens that were handed out.
OldTokens ==
  /\ left \subseteq entered
  /\ \A r \in Requests : request[r].step \in Login!LogoutSteps => request[r].before \subseteq entered

\* The old tokens that are not listed have no key.
ListedOrGone ==
  \A r \in Requests : request[r].step = "deleteKeys" =>
    request[r].before \cap access \subseteq request[r].keys

\* What was handed out before a log-out has no key after it.
LoggedOutHasNoKey == left \cap access = {}

\* Who comes late is not shown a list: the token has no key any more.
LateIsRefused ==
  \A r \in Requests : request[r].step \in Login!ListSteps =>
    /\ request[r].late => request[r].token \in left
    /\ request[r].step = "readList" => ~request[r].late

LoginIInv == Login!TypeOK /\ NewTokens /\ OldTokens /\ ListedOrGone /\ LoggedOutHasNoKey

----------------------------------------------------------------------------
(* Requests *)

\* What the step of a request says about its other fields.
LEMMA LoginRequests ==
  ASSUME Login!TypeOK, NEW r \in Requests
  PROVE  /\ request[r].step \in Login!VerifySteps =>
              request[r] \in [step: Login!VerifySteps, code: Codes, token: Tokens]
         /\ request[r].step \in Login!LogoutSteps =>
              request[r] \in [step: Login!LogoutSteps, before: SUBSET Tokens, keys: SUBSET Tokens]
         /\ request[r].step \in Login!LoginSteps => request[r] \in [step: Login!LoginSteps]
         /\ request[r].step \in Login!ListSteps =>
              request[r] \in [step: Login!ListSteps, token: Tokens, late: BOOLEAN]
         /\ request[r] = Login!Idle => request[r].step \notin Login!VerifySteps \cup Login!LogoutSteps
  BY DEF Login!TypeOK, Login!Request, Login!Idle, Login!LoginSteps, Login!VerifySteps,
         Login!LogoutSteps, Login!RefreshSteps, Login!ListSteps

\* The record of a look-up that goes on.
LEMMA NextList ==
  ASSUME NEW q \in [step: Login!ListSteps, token: Tokens, late: BOOLEAN], NEW next \in Login!ListSteps
  PROVE  LET n == [q EXCEPT !.step = next] IN
         /\ n \in [step: Login!ListSteps, token: Tokens, late: BOOLEAN]
         /\ n.step = next /\ n.token = q.token /\ n.late = q.late
  OBVIOUS

\* The record of a verification that goes on.
LEMMA NextVerify ==
  ASSUME NEW q \in [step: Login!VerifySteps, code: Codes, token: Tokens], NEW next \in Login!VerifySteps
  PROVE  LET n == [q EXCEPT !.step = next] IN
         /\ n \in [step: Login!VerifySteps, code: Codes, token: Tokens]
         /\ n.step = next /\ n.token = q.token /\ n.code = q.code
  OBVIOUS

\* The record of a log-out that goes on.
LEMMA NextLogout ==
  ASSUME NEW q \in [step: Login!LogoutSteps, before: SUBSET Tokens, keys: SUBSET Tokens],
         NEW next \in Login!LogoutSteps
  PROVE  LET n == [q EXCEPT !.step = next] IN
         /\ n \in [step: Login!LogoutSteps, before: SUBSET Tokens, keys: SUBSET Tokens]
         /\ n.step = next /\ n.before = q.before
  OBVIOUS

\* The record of a log-out that has listed the keys.
LEMMA NextListed ==
  ASSUME NEW q \in [step: Login!LogoutSteps, before: SUBSET Tokens, keys: SUBSET Tokens],
         NEW next \in Login!LogoutSteps, NEW listed \in SUBSET Tokens
  PROVE  LET n == [[q EXCEPT !.step = next] EXCEPT !.keys = listed] IN
         /\ n \in [step: Login!LogoutSteps, before: SUBSET Tokens, keys: SUBSET Tokens]
         /\ n.step = next /\ n.before = q.before /\ n.keys = listed
  OBVIOUS

\* A verification that goes on keeps its token and its code.
LEMMA VerifyContinued ==
  ASSUME Login!TypeOK, NEW r \in Requests, request[r].step \in Login!VerifySteps, NEW next \in Login!VerifySteps,
         Login!Continue(r, next)
  PROVE  /\ request' \in [Requests -> Login!Request \cup {Login!Idle}]
         /\ \A q \in Requests \ {r} : request'[q] = request[q]
         /\ request'[r].step = next
         /\ request'[r].token = request[r].token /\ request'[r].code = request[r].code
  <1> DEFINE n == [request[r] EXCEPT !.step = next]
  <1>1. /\ n \in [step: Login!VerifySteps, code: Codes, token: Tokens]
        /\ n.step = next /\ n.token = request[r].token /\ n.code = request[r].code
    BY LoginRequests, NextVerify
  <1>2. request' = [request EXCEPT ![r] = n]
    BY DEF Login!Continue
  <1> HIDE DEF n
  <1>3. QED
    BY <1>1, <1>2 DEF Login!TypeOK, Login!Request

\* A log-in that goes on stays one.
LEMMA LoginContinued ==
  ASSUME Login!TypeOK, NEW r \in Requests, request[r].step \in Login!LoginSteps, NEW next \in Login!LoginSteps,
         Login!Continue(r, next)
  PROVE  /\ request' \in [Requests -> Login!Request \cup {Login!Idle}]
         /\ \A q \in Requests \ {r} : request'[q] = request[q]
         /\ request'[r].step \notin Login!VerifySteps \cup Login!LogoutSteps
  <1> DEFINE n == [request[r] EXCEPT !.step = next]
  <1>1. n \in [step: Login!LoginSteps] /\ n.step = next
    BY LoginRequests
  <1>2. request' = [request EXCEPT ![r] = n]
    BY DEF Login!Continue
  <1> HIDE DEF n
  <1>3. n.step \notin Login!VerifySteps \cup Login!LogoutSteps
    BY <1>1 DEF Login!LoginSteps, Login!VerifySteps, Login!LogoutSteps
  <1>4. QED
    BY <1>1, <1>2, <1>3 DEF Login!TypeOK, Login!Request

\* A request that ends leaves the others alone.
LEMMA LoginFinished ==
  ASSUME Login!TypeOK, NEW r \in Requests, Login!Finish(r)
  PROVE  /\ request' \in [Requests -> Login!Request \cup {Login!Idle}]
         /\ \A q \in Requests \ {r} : request'[q] = request[q]
         /\ request'[r].step \notin Login!VerifySteps \cup Login!LogoutSteps
  BY DEF Login!TypeOK, Login!Finish, Login!Idle, Login!VerifySteps, Login!LogoutSteps

\* A request that starts does too.
LEMMA LoginStarted ==
  ASSUME Login!TypeOK, NEW r \in Requests, NEW q \in Login!Request, Login!Start(r, q)
  PROVE  /\ request' \in [Requests -> Login!Request \cup {Login!Idle}]
         /\ \A p \in Requests \ {r} : request'[p] = request[p]
         /\ request[r] = Login!Idle /\ request'[r] = q
  BY DEF Login!TypeOK, Login!Start

\* Steps of a request that is no verification and no log-out afterwards, which
\* change neither tokens nor keys.
LEMMA LoginOthersKept ==
  ASSUME LoginIInv, NEW r \in Requests, UNCHANGED Login!tokens,
         \A q \in Requests \ {r} : request'[q] = request[q],
         request'[r].step \notin Login!VerifySteps \cup Login!LogoutSteps
  PROVE  NewTokens' /\ OldTokens' /\ ListedOrGone' /\ LoggedOutHasNoKey'
  BY DEF LoginIInv, Login!tokens, NewTokens, OldTokens, ListedOrGone, LoggedOutHasNoKey,
         Login!LogoutSteps

----------------------------------------------------------------------------
(* The steps *)

\* The invariant holds before the first log-in.
LEMMA LoginInit == Login!Init => LoginIInv
  BY FaultsAssumption
     DEF Login!Init, Login!NoRequests, LoginIInv, Login!TypeOK, Login!Fates, NewTokens, OldTokens,
         ListedOrGone,
         LoggedOutHasNoKey, Login!Idle, Login!VerifySteps, Login!LogoutSteps

\* A log-in draws a code and hands out nothing.
LEMMA LoggingInKeeps ==
  ASSUME LoginIInv, NEW r \in Requests, Login!LoggingIn(r)
  PROVE  LoginIInv'
  <1>1. CASE Login!login(r)
    <2> DEFINE q == [step |-> IF deviceKnown THEN "setOtp" ELSE "setDevice"]
    <2>1. q \in Login!Request /\ q.step \notin Login!VerifySteps \cup Login!LogoutSteps
      BY DEF Login!Request, Login!LoginSteps, Login!VerifySteps, Login!LogoutSteps
    <2>2. Login!Start(r, q) /\ UNCHANGED <<Login!admin, Login!tokens, fate, faults>>
      BY <1>1 DEF Login!login
    <2> HIDE DEF q
    <2>3. /\ request' \in [Requests -> Login!Request \cup {Login!Idle}]
          /\ \A p \in Requests \ {r} : request'[p] = request[p]
          /\ request'[r] = q
      BY <2>1, <2>2, LoginStarted DEF LoginIInv
    <2>4. Login!TypeOK'
      BY <2>2, <2>3 DEF LoginIInv, Login!TypeOK, Login!admin, Login!tokens
    <2>5. QED
      BY <2>1, <2>2, <2>3, <2>4, LoginOthersKept DEF LoginIInv
  <1>2. CASE Login!NoteDevice(r)
    <2>1. /\ request' \in [Requests -> Login!Request \cup {Login!Idle}]
          /\ \A q \in Requests \ {r} : request'[q] = request[q]
          /\ request'[r].step \notin Login!VerifySteps \cup Login!LogoutSteps
      BY <1>2, LoginContinued DEF Login!NoteDevice, Login!LoginSteps, LoginIInv
    <2>2. Login!TypeOK'
      BY <1>2, <2>1 DEF Login!NoteDevice, LoginIInv, Login!TypeOK, Login!tokens
    <2>3. QED
      BY <1>2, <2>1, <2>2, LoginOthersKept DEF Login!NoteDevice, LoginIInv
  <1>3. ASSUME NEW c \in Codes, Login!SetOtp(r, c) PROVE LoginIInv'
    <2>1. /\ request' \in [Requests -> Login!Request \cup {Login!Idle}]
          /\ \A q \in Requests \ {r} : request'[q] = request[q]
          /\ request'[r].step \notin Login!VerifySteps \cup Login!LogoutSteps
      BY <1>3, LoginContinued DEF Login!SetOtp, Login!LoginSteps, LoginIInv
    <2>2. Login!TypeOK'
      BY <1>3, <2>1 DEF Login!SetOtp, Login!Draw, Login!Fates, LoginIInv, Login!TypeOK, Login!tokens
    <2>3. QED
      BY <1>3, <2>1, <2>2, LoginOthersKept DEF Login!SetOtp, LoginIInv
  <1>4. CASE Login!sendEmail(r)
    <2>1. /\ request' \in [Requests -> Login!Request \cup {Login!Idle}]
          /\ \A q \in Requests \ {r} : request'[q] = request[q]
          /\ request'[r].step \notin Login!VerifySteps \cup Login!LogoutSteps
      BY <1>4, LoginContinued, LoginFinished DEF Login!sendEmail, Login!LoginSteps, LoginIInv
    <2>2. Login!TypeOK'
      BY <1>4, <2>1 DEF Login!sendEmail, LoginIInv, Login!TypeOK, Login!admin, Login!tokens
    <2>3. QED
      BY <1>4, <2>1, <2>2, LoginOthersKept DEF Login!sendEmail, LoginIInv
  <1>5. QED
    BY <1>1, <1>2, <1>3, <1>4 DEF Login!LoggingIn

\* A refresh looks for a session and is refused.
LEMMA RefreshingKeeps ==
  ASSUME LoginIInv, NEW r \in Requests, Login!Refreshing(r)
  PROVE  LoginIInv'
  <1>1. CASE Login!refreshToken(r)
    <2> DEFINE q == [step |-> "findSession"]
    <2>1. q \in Login!Request /\ q.step \notin Login!VerifySteps \cup Login!LogoutSteps
      BY DEF Login!Request, Login!RefreshSteps, Login!VerifySteps, Login!LogoutSteps
    <2>2. Login!Start(r, q) /\ UNCHANGED <<Login!admin, Login!tokens, fate, faults>>
      BY <1>1 DEF Login!refreshToken
    <2> HIDE DEF q
    <2>3. /\ request' \in [Requests -> Login!Request \cup {Login!Idle}]
          /\ \A p \in Requests \ {r} : request'[p] = request[p]
          /\ request'[r] = q
      BY <2>1, <2>2, LoginStarted DEF LoginIInv
    <2>4. Login!TypeOK'
      BY <2>2, <2>3 DEF LoginIInv, Login!TypeOK, Login!admin, Login!tokens
    <2>5. QED
      BY <2>1, <2>2, <2>3, <2>4, LoginOthersKept DEF LoginIInv
  <1>2. CASE Login!FindSession(r)
    <2>1. /\ request' \in [Requests -> Login!Request \cup {Login!Idle}]
          /\ \A q \in Requests \ {r} : request'[q] = request[q]
          /\ request'[r].step \notin Login!VerifySteps \cup Login!LogoutSteps
      BY <1>2, LoginFinished DEF Login!FindSession, LoginIInv
    <2>2. Login!TypeOK'
      BY <1>2, <2>1 DEF Login!FindSession, LoginIInv, Login!TypeOK, Login!admin, Login!tokens
    <2>3. QED
      BY <1>2, <2>1, <2>2, LoginOthersKept DEF Login!FindSession, LoginIInv
  <1>3. QED
    BY <1>1, <1>2 DEF Login!Refreshing

\* A verification hands out a token that nobody had.
LEMMA LoginVerifyingKeeps ==
  ASSUME LoginIInv, NEW r \in Requests, Login!Verifying(r)
  PROVE  LoginIInv'
  <1>1. ASSUME NEW t \in Tokens, Login!verifyOtp(r, t) PROVE LoginIInv'
    <2> DEFINE q == [step |-> "unsetOtp", code |-> otp, token |-> t]
    <2>1. q \in Login!Request /\ q.step \in Login!VerifySteps /\ q.step \notin Login!LogoutSteps /\ q.token = t
      BY <1>1
         DEF Login!verifyOtp, LoginIInv, Login!TypeOK, Login!Request, Login!VerifySteps,
             Login!LogoutSteps
    <2>2. Login!Start(r, q) /\ Login!Unsigned(t) /\ UNCHANGED <<Login!admin, Login!tokens, fate, faults>>
      BY <1>1 DEF Login!verifyOtp
    <2> HIDE DEF q
    <2>3. /\ request' \in [Requests -> Login!Request \cup {Login!Idle}]
          /\ \A p \in Requests \ {r} : request'[p] = request[p]
          /\ request'[r] = q
      BY <2>1, <2>2, LoginStarted DEF LoginIInv
    <2>4. Login!TypeOK'
      BY <2>2, <2>3 DEF LoginIInv, Login!TypeOK, Login!admin, Login!tokens
    <2>5. NewTokens'
      BY <2>1, <2>2, <2>3 DEF LoginIInv, NewTokens, Login!Unsigned, Login!tokens
    <2>6. OldTokens' /\ ListedOrGone' /\ LoggedOutHasNoKey'
      BY <2>1, <2>2, <2>3
         DEF LoginIInv, OldTokens, ListedOrGone, LoggedOutHasNoKey, Login!tokens,
             Login!LogoutSteps
    <2>7. QED
      BY <2>4, <2>5, <2>6 DEF LoginIInv
  <1>2. CASE Login!UnsetOtp(r)
    <2>1. /\ request' \in [Requests -> Login!Request \cup {Login!Idle}]
          /\ \A q \in Requests \ {r} : request'[q] = request[q]
          /\ request'[r].step = "setKey" /\ request'[r].token = request[r].token
      BY <1>2, VerifyContinued DEF Login!UnsetOtp, Login!VerifySteps, LoginIInv
    <2>2. request[r].step \in Login!VerifySteps /\ UNCHANGED Login!tokens
      BY <1>2 DEF Login!UnsetOtp, Login!VerifySteps
    <2>3. Login!TypeOK'
      BY <1>2, <2>1 DEF Login!UnsetOtp, LoginIInv, Login!TypeOK, Login!tokens
    <2>4. NewTokens'
      BY <2>1, <2>2 DEF LoginIInv, NewTokens, Login!tokens
    <2>5. OldTokens' /\ ListedOrGone' /\ LoggedOutHasNoKey'
      BY <2>1, <2>2
         DEF LoginIInv, OldTokens, ListedOrGone, LoggedOutHasNoKey, Login!tokens,
             Login!LogoutSteps
    <2>6. QED
      BY <2>3, <2>4, <2>5 DEF LoginIInv
  <1>3. CASE Login!SetKey(r)
    <2> DEFINE t == request[r].token
    <2>1. /\ request' \in [Requests -> Login!Request \cup {Login!Idle}]
          /\ \A q \in Requests \ {r} : request'[q] = request[q]
          /\ request'[r].step = "insertSession" /\ request'[r].token = t
      BY <1>3, VerifyContinued DEF Login!SetKey, Login!VerifySteps, LoginIInv
    <2>2. /\ request[r].step \in Login!VerifySteps
          /\ access' = access \cup {t}
          /\ UNCHANGED <<deviceKnown, otp, sessions, entered, left, fate, faults>>
      BY <1>3 DEF Login!SetKey, Login!VerifySteps, Login!admin
    <2>3. t \in Tokens /\ t \notin entered
      BY <2>2, LoginRequests DEF LoginIInv, NewTokens
    <2> HIDE DEF t
    <2>4. Login!TypeOK'
      BY <2>1, <2>2, <2>3 DEF LoginIInv, Login!TypeOK
    <2>5. NewTokens'
      BY <2>1, <2>2 DEF t, LoginIInv, NewTokens
    <2>6. OldTokens'
      BY <2>1, <2>2 DEF LoginIInv, OldTokens, Login!LogoutSteps
    <2>7. ListedOrGone'
      <3>1. \A q \in Requests \ {r} : request[q].step = "deleteKeys" => t \notin request[q].before
        BY <2>3 DEF LoginIInv, OldTokens, Login!LogoutSteps
      <3>2. QED
        BY <3>1, <2>1, <2>2 DEF LoginIInv, ListedOrGone
    <2>8. LoggedOutHasNoKey'
      BY <2>2, <2>3 DEF LoginIInv, OldTokens, LoggedOutHasNoKey
    <2>9. QED
      BY <2>4, <2>5, <2>6, <2>7, <2>8 DEF LoginIInv
  <1>4. CASE Login!InsertSession(r)
    <2> DEFINE t == request[r].token
    <2>1. /\ request' \in [Requests -> Login!Request \cup {Login!Idle}]
          /\ \A q \in Requests \ {r} : request'[q] = request[q]
          /\ request'[r].step \notin Login!VerifySteps \cup Login!LogoutSteps
      BY <1>4, LoginFinished DEF Login!InsertSession, LoginIInv
    <2>2. /\ request[r].step \in Login!VerifySteps
          /\ sessions' = sessions \cup {t} /\ entered' = entered \cup {t}
          /\ UNCHANGED <<deviceKnown, otp, access, left, faults>>
      BY <1>4 DEF Login!InsertSession, Login!VerifySteps, Login!admin
    <2>3. t \in Tokens /\ \A q \in Requests \ {r} :
            request[q].step \in Login!VerifySteps => request[q].token # t
      BY <2>2, LoginRequests DEF LoginIInv, NewTokens
    <2> HIDE DEF t
    <2>4. fate' \in [Codes -> Login!Fates]
      BY <1>4 DEF Login!InsertSession, Login!Acknowledge, Login!Fates, LoginIInv, Login!TypeOK
    <2>5. Login!TypeOK'
      BY <2>1, <2>2, <2>3, <2>4 DEF LoginIInv, Login!TypeOK
    <2>6. NewTokens'
      BY <2>1, <2>2, <2>3 DEF LoginIInv, NewTokens
    <2>7. OldTokens' /\ ListedOrGone' /\ LoggedOutHasNoKey'
      BY <2>1, <2>2 DEF LoginIInv, OldTokens, ListedOrGone, LoggedOutHasNoKey, Login!LogoutSteps
    <2>8. QED
      BY <2>5, <2>6, <2>7 DEF LoginIInv
  <1>5. QED
    BY <1>1, <1>2, <1>3, <1>4 DEF Login!Verifying

\* A log-out lists the keys and deletes what it listed.
LEMMA LoggingOutKeeps ==
  ASSUME LoginIInv, NEW r \in Requests, Login!LoggingOut(r)
  PROVE  LoginIInv'
  <1>1. CASE Login!logout(r)
    <2> DEFINE q == [step |-> "deleteSessions", before |-> entered, keys |-> {}]
    <2>1. /\ q \in Login!Request /\ q.step \notin Login!VerifySteps /\ q.step # "deleteKeys"
          /\ q.before = entered
      BY DEF LoginIInv, Login!TypeOK, Login!Request, Login!VerifySteps, Login!LogoutSteps
    <2>2. Login!Start(r, q) /\ UNCHANGED <<Login!admin, Login!tokens, fate, faults>>
      BY <1>1 DEF Login!logout
    <2> HIDE DEF q
    <2>3. /\ request' \in [Requests -> Login!Request \cup {Login!Idle}]
          /\ \A p \in Requests \ {r} : request'[p] = request[p]
          /\ request'[r] = q
      BY <2>1, <2>2, LoginStarted DEF LoginIInv
    <2>4. Login!TypeOK'
      BY <2>2, <2>3 DEF LoginIInv, Login!TypeOK, Login!admin, Login!tokens
    <2>5. NewTokens' /\ OldTokens' /\ ListedOrGone' /\ LoggedOutHasNoKey'
      BY <2>1, <2>2, <2>3
         DEF LoginIInv, NewTokens, OldTokens, ListedOrGone, LoggedOutHasNoKey, Login!tokens
    <2>6. QED
      BY <2>4, <2>5 DEF LoginIInv
  <1>2. CASE Login!DeleteSessions(r)
    <2> DEFINE n == [request[r] EXCEPT !.step = "readKeys"]
    <2>1. request[r].step \in Login!LogoutSteps /\ UNCHANGED <<Login!admin, Login!tokens, fate, faults>>
      BY <1>2 DEF Login!DeleteSessions, Login!LogoutSteps
    <2>2. /\ n \in [step: Login!LogoutSteps, before: SUBSET Tokens, keys: SUBSET Tokens]
          /\ n.step = "readKeys" /\ n.before = request[r].before
      BY <2>1, LoginRequests, NextLogout DEF Login!LogoutSteps, LoginIInv
    <2>3. request' = [request EXCEPT ![r] = n]
      BY <1>2 DEF Login!DeleteSessions, Login!Continue
    <2> HIDE DEF n
    <2>4. Login!TypeOK'
      BY <2>1, <2>2, <2>3 DEF LoginIInv, Login!TypeOK, Login!Request, Login!admin, Login!tokens
    <2>5. NewTokens' /\ OldTokens' /\ ListedOrGone' /\ LoggedOutHasNoKey'
      BY <2>1, <2>2, <2>3 DEF LoginIInv, Login!TypeOK, NewTokens, OldTokens, ListedOrGone,
         LoggedOutHasNoKey, Login!tokens, Login!VerifySteps
    <2>6. QED
      BY <2>4, <2>5 DEF LoginIInv
  <1>3. CASE Login!ReadKeys(r) /\ access = {}
    <2>1. /\ request' \in [Requests -> Login!Request \cup {Login!Idle}]
          /\ \A q \in Requests \ {r} : request'[q] = request[q]
          /\ request'[r].step \notin Login!VerifySteps \cup Login!LogoutSteps
      BY <1>3, LoginFinished DEF Login!ReadKeys, LoginIInv
    <2>2. /\ request[r].step \in Login!LogoutSteps
          /\ left' = left \cup request[r].before
          /\ UNCHANGED <<deviceKnown, otp, access, sessions, entered, fate, faults>>
      BY <1>3 DEF Login!ReadKeys, Login!LogoutSteps, Login!admin
    <2>3. request[r].before \subseteq entered
      BY <2>2 DEF LoginIInv, OldTokens
    <2>4. Login!TypeOK'
      BY <2>1, <2>2, <2>3 DEF LoginIInv, Login!TypeOK
    <2>5. NewTokens' /\ OldTokens' /\ ListedOrGone' /\ LoggedOutHasNoKey'
      BY <1>3, <2>1, <2>2, <2>3 DEF LoginIInv, NewTokens, OldTokens, ListedOrGone,
         LoggedOutHasNoKey, Login!LogoutSteps
    <2>6. QED
      BY <2>4, <2>5 DEF LoginIInv
  <1>4. CASE Login!ReadKeys(r) /\ access # {}
    <2> DEFINE n == [[request[r] EXCEPT !.step = "deleteKeys"] EXCEPT !.keys = access]
    <2>1. request[r].step \in Login!LogoutSteps /\ UNCHANGED <<Login!admin, Login!tokens, fate, faults>>
      BY <1>4 DEF Login!ReadKeys, Login!LogoutSteps, Login!tokens
    <2>2. /\ n \in [step: Login!LogoutSteps, before: SUBSET Tokens, keys: SUBSET Tokens]
          /\ n.step = "deleteKeys" /\ n.before = request[r].before /\ n.keys = access
      <3>1. request[r] \in [step: Login!LogoutSteps, before: SUBSET Tokens, keys: SUBSET Tokens]
        BY <2>1, LoginRequests DEF LoginIInv
      <3>2. "deleteKeys" \in Login!LogoutSteps /\ access \in SUBSET Tokens
        BY DEF Login!LogoutSteps, LoginIInv, Login!TypeOK
      <3>3. QED
        BY <3>1, <3>2, NextListed
    <2>3. request' = [request EXCEPT ![r] = n]
      BY <1>4 DEF Login!ReadKeys, LoginIInv, Login!TypeOK
    <2> HIDE DEF n
    <2>4. Login!TypeOK'
      BY <2>1, <2>2, <2>3 DEF LoginIInv, Login!TypeOK, Login!Request, Login!admin, Login!tokens
    <2>5. NewTokens' /\ OldTokens' /\ ListedOrGone' /\ LoggedOutHasNoKey'
      BY <2>1, <2>2, <2>3 DEF LoginIInv, Login!TypeOK, NewTokens, OldTokens, ListedOrGone,
         LoggedOutHasNoKey, Login!tokens, Login!VerifySteps, Login!LogoutSteps
    <2>6. QED
      BY <2>4, <2>5 DEF LoginIInv
  <1>5. CASE Login!DeleteKeys(r)
    <2>1. /\ request' \in [Requests -> Login!Request \cup {Login!Idle}]
          /\ \A q \in Requests \ {r} : request'[q] = request[q]
          /\ request'[r].step \notin Login!VerifySteps \cup Login!LogoutSteps
      BY <1>5, LoginFinished DEF Login!DeleteKeys, LoginIInv
    <2>2. /\ request[r].step = "deleteKeys"
          /\ access' = access \ request[r].keys
          /\ left' = left \cup request[r].before
          /\ UNCHANGED <<deviceKnown, otp, sessions, entered, fate, faults>>
      BY <1>5 DEF Login!DeleteKeys, Login!admin
    <2>3. request[r].before \subseteq entered /\ request[r].before \cap access \subseteq request[r].keys
      BY <2>2 DEF LoginIInv, OldTokens, ListedOrGone, Login!LogoutSteps
    <2>4. Login!TypeOK'
      BY <2>1, <2>2, <2>3 DEF LoginIInv, Login!TypeOK
    <2>5. NewTokens' /\ OldTokens'
      BY <2>1, <2>2, <2>3 DEF LoginIInv, NewTokens, OldTokens
    <2>6. ListedOrGone' /\ LoggedOutHasNoKey'
      BY <2>1, <2>2, <2>3 DEF LoginIInv, ListedOrGone, LoggedOutHasNoKey, Login!LogoutSteps
    <2>7. QED
      BY <2>4, <2>5, <2>6 DEF LoginIInv
  <1>6. QED
    BY <1>1, <1>2, <1>3, <1>4, <1>5 DEF Login!LoggingOut

\* A look-up that goes on keeps its token.
LEMMA ListContinued ==
  ASSUME Login!TypeOK, NEW r \in Requests, request[r].step \in Login!ListSteps, NEW next \in Login!ListSteps,
         Login!Continue(r, next)
  PROVE  /\ request' \in [Requests -> Login!Request \cup {Login!Idle}]
         /\ \A q \in Requests \ {r} : request'[q] = request[q]
         /\ request'[r].step = next
         /\ request'[r].token = request[r].token /\ request'[r].late = request[r].late
  <1> DEFINE n == [request[r] EXCEPT !.step = next]
  <1>1. /\ n \in [step: Login!ListSteps, token: Tokens, late: BOOLEAN]
        /\ n.step = next /\ n.token = request[r].token /\ n.late = request[r].late
    BY LoginRequests, NextList
  <1>2. request' = [request EXCEPT ![r] = n]
    BY DEF Login!Continue
  <1> HIDE DEF n
  <1>3. QED
    BY <1>1, <1>2 DEF Login!TypeOK, Login!Request

\* A request for a list looks its key up, or ends; it is no verification and no
\* log-out.
LEMMA ListingMoves ==
  ASSUME Login!TypeOK, NEW r \in Requests, Login!Listing(r)
  PROVE  /\ request' \in [Requests -> Login!Request \cup {Login!Idle}]
         /\ \A q \in Requests \ {r} : request'[q] = request[q]
         /\ request[r].step \notin Login!VerifySteps
         /\ request'[r].step \notin Login!VerifySteps \cup Login!LogoutSteps
         /\ UNCHANGED <<Login!admin, Login!tokens, fate, faults>>
  <1>1. /\ request[r].step \notin Login!VerifySteps
        /\ UNCHANGED <<Login!admin, Login!tokens, fate, faults>>
    BY DEF Login!Listing, Login!getAll, Login!verifyJwtToken, Login!ReadList, Login!Start, Login!Idle,
           Login!VerifySteps
  <1>2. ASSUME NEW t \in Tokens, Login!getAll(r, t)
        PROVE  /\ request' \in [Requests -> Login!Request \cup {Login!Idle}]
               /\ \A q \in Requests \ {r} : request'[q] = request[q]
               /\ request'[r].step \notin Login!VerifySteps \cup Login!LogoutSteps
    <2> DEFINE q == [step |-> "findKey", token |-> t, late |-> t \in left]
    <2>1. q \in Login!Request /\ q.step \notin Login!VerifySteps \cup Login!LogoutSteps
      BY DEF Login!Request, Login!ListSteps, Login!VerifySteps, Login!LogoutSteps
    <2>2. Login!Start(r, q)
      BY <1>2 DEF Login!getAll
    <2> HIDE DEF q
    <2>3. QED
      BY <2>1, <2>2, LoginStarted
  <1>3. CASE request[r].step \in Login!ListSteps /\ Login!Continue(r, "readList")
    BY <1>1, <1>3, ListContinued DEF Login!ListSteps, Login!VerifySteps, Login!LogoutSteps
  <1>4. CASE Login!Finish(r)
    BY <1>1, <1>4, LoginFinished
  <1>5. QED
    BY <1>1, <1>2, <1>3, <1>4 DEF Login!Listing, Login!verifyJwtToken, Login!ReadList, Login!ListSteps

\* A list is looked up, or refused, and no token changes.
LEMMA ListingKeeps ==
  ASSUME LoginIInv, NEW r \in Requests, Login!Listing(r)
  PROVE  LoginIInv'
  <1>1. Login!TypeOK'
    BY ListingMoves DEF LoginIInv, Login!TypeOK, Login!admin, Login!tokens
  <1>2. QED
    BY <1>1, ListingMoves, LoginOthersKept DEF LoginIInv

\* Codes and keys run out, calls fail, the service restarts.
LEMMA LoginLossKeeps ==
  ASSUME LoginIInv,
         \/ \E r \in Requests : Login!RequestFails(r)
         \/ \E t \in Tokens : Login!KeyExpires(t)
         \/ Login!OtpExpires
         \/ Login!Restart
  PROVE  LoginIInv'
  <1>1. CASE \E r \in Requests : Login!RequestFails(r)
    <2>1. PICK r \in Requests : Login!RequestFails(r)
      BY <1>1
    <2>2. /\ request' \in [Requests -> Login!Request \cup {Login!Idle}]
          /\ \A q \in Requests \ {r} : request'[q] = request[q]
          /\ request'[r].step \notin Login!VerifySteps \cup Login!LogoutSteps
      BY <2>1, LoginFinished DEF Login!RequestFails, Login!Failure, LoginIInv
    <2>3. Login!TypeOK'
      BY <2>1, <2>2, FaultsAssumption
         DEF Login!RequestFails, Login!Failure, Login!Fault, Login!admin, Login!tokens, LoginIInv,
             Login!TypeOK
    <2>4. QED
      BY <2>1, <2>2, <2>3, LoginOthersKept DEF Login!RequestFails, LoginIInv
  <1>2. CASE \E t \in Tokens : Login!KeyExpires(t)
    BY <1>2
       DEF Login!KeyExpires, Login!admin, LoginIInv, Login!TypeOK, NewTokens, OldTokens, ListedOrGone,
           LoggedOutHasNoKey
  <1>3. CASE Login!OtpExpires
    BY <1>3
       DEF Login!OtpExpires, Login!tokens, LoginIInv, Login!TypeOK, NewTokens, OldTokens, ListedOrGone,
           LoggedOutHasNoKey
  <1>4. CASE Login!Restart
    <2>1. /\ request' \in [Requests -> Login!Request \cup {Login!Idle}]
          /\ \A q \in Requests : request'[q].step \notin Login!VerifySteps \cup Login!LogoutSteps
      BY <1>4 DEF Login!Restart, Login!Restarted, Login!Idle, Login!VerifySteps, Login!LogoutSteps
    <2>2. Login!TypeOK'
      BY <1>4, <2>1, FaultsAssumption
         DEF Login!Restart, Login!Restarted, Login!Fault, Login!admin, Login!tokens, LoginIInv,
             Login!TypeOK
    <2>3. NewTokens' /\ OldTokens' /\ ListedOrGone' /\ LoggedOutHasNoKey'
      BY <1>4, <2>1 DEF Login!Restart, Login!tokens, LoginIInv, NewTokens, OldTokens, ListedOrGone,
         LoggedOutHasNoKey, Login!LogoutSteps
    <2>4. QED
      BY <2>2, <2>3 DEF LoginIInv
  <1>5. QED
    BY <1>1, <1>2, <1>3, <1>4

\* Every step keeps the invariant.
LEMMA LoginNextKeeps == ASSUME LoginIInv, Login!Next PROVE LoginIInv'
  BY LoggingInKeeps, LoginVerifyingKeeps, RefreshingKeeps, LoggingOutKeeps, ListingKeeps, LoginLossKeeps
     DEF Login!Next

----------------------------------------------------------------------------
(* Late look-ups *)

\* A request that starts a look-up carries whether it is late; one that goes on
\* has found its key; every other request that moves is no look-up after it.
LEMMA Lookup ==
  ASSUME LoginIInv, Login!Next, NEW r \in Requests,
         request'[r].step \in Login!ListSteps, request'[r] # request[r]
  PROVE  \/ \E t \in Tokens : Login!getAll(r, t)
         \/ Login!verifyJwtToken(r) /\ request[r].token \in access
  <1>2. ASSUME NEW q \in Requests, NEW next, Login!Continue(q, next), next \notin Login!ListSteps
        PROVE  FALSE
    <2>1. q = r
      BY <1>2 DEF Login!Continue, LoginIInv, Login!TypeOK
    <2>2. request'[r] = [request[r] EXCEPT !.step = next]
      BY <1>2, <2>1 DEF Login!Continue, LoginIInv, Login!TypeOK
    <2>3. [request[r] EXCEPT !.step = next].step = next
      BY DEF LoginIInv, Login!TypeOK, Login!Request, Login!Idle
    <2>4. QED
      BY <1>2, <2>2, <2>3
  <1>3. ASSUME NEW q \in Requests, Login!Finish(q) PROVE FALSE
    BY <1>3 DEF Login!Finish, Login!Idle, Login!ListSteps, LoginIInv, Login!TypeOK
  <1>4. ASSUME NEW q \in Requests, NEW s, Login!Start(q, s), s.step \notin Login!ListSteps PROVE FALSE
    BY <1>4 DEF Login!Start, LoginIInv, Login!TypeOK
  <1>5. ASSUME NEW q \in Requests, Login!LoggingIn(q) PROVE FALSE
    <2>1. CASE Login!login(q)
      BY <2>1, <1>4 DEF Login!login, Login!ListSteps
    <2>2. CASE Login!NoteDevice(q) \/ (\E c \in Codes : Login!SetOtp(q, c)) \/ Login!sendEmail(q)
      BY <2>2, <1>2, <1>3 DEF Login!NoteDevice, Login!SetOtp, Login!sendEmail, Login!ListSteps
    <2>3. QED
      BY <1>5, <2>1, <2>2 DEF Login!LoggingIn
  <1>6. ASSUME NEW q \in Requests, Login!Verifying(q) PROVE FALSE
    <2>1. ASSUME NEW t \in Tokens, Login!verifyOtp(q, t) PROVE FALSE
      BY <2>1, <1>4 DEF Login!verifyOtp, Login!ListSteps
    <2>2. CASE Login!UnsetOtp(q) \/ Login!SetKey(q) \/ Login!InsertSession(q)
      BY <2>2, <1>2, <1>3 DEF Login!UnsetOtp, Login!SetKey, Login!InsertSession, Login!ListSteps
    <2>3. QED
      BY <1>6, <2>1, <2>2 DEF Login!Verifying
  <1>7. ASSUME NEW q \in Requests, Login!Refreshing(q) PROVE FALSE
    BY <1>7, <1>3, <1>4 DEF Login!Refreshing, Login!refreshToken, Login!FindSession, Login!ListSteps
  <1>8. ASSUME NEW q \in Requests, Login!LoggingOut(q) PROVE FALSE
    <2>1. CASE Login!logout(q)
      BY <2>1, <1>4 DEF Login!logout, Login!ListSteps
    <2>2. CASE Login!DeleteSessions(q) \/ Login!DeleteKeys(q) \/ (Login!ReadKeys(q) /\ access = {})
      BY <2>2, <1>2, <1>3 DEF Login!DeleteSessions, Login!DeleteKeys, Login!ReadKeys, Login!ListSteps
    <2>3. CASE Login!ReadKeys(q) /\ access # {}
      <3>1. request' = [request EXCEPT ![q].step = "deleteKeys", ![q].keys = access]
        BY <2>3 DEF Login!ReadKeys
      <3>2. request[q].step \in Login!LogoutSteps
        BY <2>3 DEF Login!ReadKeys, Login!LogoutSteps
      <3>3. q = r
        BY <3>1 DEF LoginIInv, Login!TypeOK
      <3>4. request[r] \in [step: Login!LogoutSteps, before: SUBSET Tokens, keys: SUBSET Tokens]
        BY <3>2, <3>3, LoginRequests DEF LoginIInv
      <3>5. request'[r] = [[request[r] EXCEPT !.step = "deleteKeys"] EXCEPT !.keys = access]
        BY <3>1, <3>3 DEF LoginIInv, Login!TypeOK
      <3>6. [[request[r] EXCEPT !.step = "deleteKeys"] EXCEPT !.keys = access].step = "deleteKeys"
        BY <3>4
      <3>7. QED
        BY <3>5, <3>6 DEF Login!ListSteps
    <2>4. QED
      BY <1>8, <2>1, <2>2, <2>3 DEF Login!LoggingOut
  <1>9. ASSUME NEW q \in Requests, Login!RequestFails(q) PROVE FALSE
    BY <1>9, <1>3 DEF Login!RequestFails, Login!Failure
  <1>10. ASSUME NEW q \in Requests, Login!Listing(q)
         PROVE  \/ \E t \in Tokens : Login!getAll(r, t)
                \/ Login!verifyJwtToken(r) /\ request[r].token \in access
    <2>1. q = r
      BY <1>10 DEF Login!Listing, Login!getAll, Login!verifyJwtToken, Login!ReadList, Login!Start,
                   Login!Continue, Login!Finish, LoginIInv, Login!TypeOK
    <2>2. ~Login!Finish(r)
      BY <1>3
    <2>3. QED
      BY <1>10, <2>1, <2>2 DEF Login!Listing, Login!verifyJwtToken, Login!ReadList
  <1>11. CASE (\E t \in Tokens : Login!KeyExpires(t)) \/ Login!OtpExpires
    BY <1>11 DEF Login!KeyExpires, Login!OtpExpires
  <1>12. CASE Login!Restart
    BY <1>12 DEF Login!Restart, Login!Restarted, Login!Idle, Login!ListSteps
  <1>13. QED
    BY <1>5, <1>6, <1>7, <1>8, <1>9, <1>10, <1>11, <1>12 DEF Login!Next

\* What a log-out has ended stays ended.
LEMMA LeftGrows == ASSUME Login!Next PROVE left \subseteq left'
  BY DEF Login!Next, Login!LoggingIn, Login!login, Login!NoteDevice, Login!SetOtp, Login!sendEmail,
         Login!Verifying, Login!verifyOtp, Login!UnsetOtp, Login!SetKey, Login!InsertSession,
         Login!Refreshing, Login!refreshToken, Login!FindSession, Login!LoggingOut, Login!logout,
         Login!DeleteSessions, Login!ReadKeys, Login!DeleteKeys, Login!Listing, Login!getAll,
         Login!verifyJwtToken, Login!ReadList, Login!RequestFails, Login!KeyExpires,
         Login!OtpExpires, Login!Restart, Login!tokens

\* So a late look-up finds no key.
LEMMA LateKept ==
  ASSUME LoginIInv, LateIsRefused, Login!Next
  PROVE  LateIsRefused'
  <1> SUFFICES ASSUME NEW r \in Requests, request'[r].step \in Login!ListSteps
               PROVE  /\ request'[r].late => request'[r].token \in left'
                      /\ request'[r].step = "readList" => ~request'[r].late
    BY DEF LateIsRefused
  <1>1. CASE request'[r] = request[r]
    BY <1>1, LeftGrows DEF LateIsRefused
  <1>2. ASSUME NEW t \in Tokens, Login!getAll(r, t)
        PROVE  /\ request'[r].late => request'[r].token \in left'
               /\ request'[r].step = "readList" => ~request'[r].late
    <2> DEFINE q == [step |-> "findKey", token |-> t, late |-> t \in left]
    <2>1. request'[r] = q
      BY <1>2 DEF Login!getAll, Login!Start, LoginIInv, Login!TypeOK
    <2>2. q.step = "findKey" /\ q.token = t /\ (q.late => t \in left)
      OBVIOUS
    <2> HIDE DEF q
    <2>3. QED
      BY <2>1, <2>2, LeftGrows
  <1>3. CASE Login!verifyJwtToken(r) /\ request[r].token \in access
    <2>1. request[r].step \in Login!ListSteps /\ "readList" \in Login!ListSteps
          /\ Login!Continue(r, "readList")
      BY <1>3 DEF Login!verifyJwtToken, Login!ListSteps
    <2>2. request'[r].token = request[r].token /\ request'[r].late = request[r].late
      BY <2>1, ListContinued DEF LoginIInv
    <2>3. request[r].token \notin left
      BY <1>3 DEF LoginIInv, LoggedOutHasNoKey
    <2>4. QED
      BY <2>1, <2>2, <2>3 DEF LateIsRefused
  <1>4. QED
    BY <1>1, <1>2, <1>3, Lookup

----------------------------------------------------------------------------
\* No other step touches what it is about.
LEMMA LoginStutterKeeps ==
  ASSUME LoginIInv, UNCHANGED <<loginState, otp, fate, request, faults>>
  PROVE  LoginIInv' /\ (LateIsRefused => LateIsRefused')
  BY DEF loginState, LoginIInv, Login!TypeOK, NewTokens, OldTokens, ListedOrGone,
         LoggedOutHasNoKey, LateIsRefused

----------------------------------------------------------------------------
(* Theorems *)

LoginInv == service = "login" => LoginIInv /\ LateIsRefused

\* The invariant holds at all times.
LEMMA LoginAlways == Spec => []LoginInv
  <1>1. Init => LoginInv
    BY LoginInit
       DEF Init, LoginInv, LateIsRefused, Login!Init, Login!NoRequests, Login!Idle, Login!ListSteps
  <1>2. LoginInv /\ [Next]_vars => LoginInv'
    <2> SUFFICES ASSUME LoginInv, [Next]_vars, service' = "login" PROVE LoginIInv' /\ LateIsRefused'
      BY DEF LoginInv
    <2>1. CASE LoginNext
      BY <2>1, LoginNextKeeps, LateKept DEF LoginNext, LoginInv
    <2>2. CASE UNCHANGED vars
      BY <2>2, LoginStutterKeeps DEF vars, LoginInv
    <2>3. QED
      BY <2>1, <2>2 DEF Next, PartnerNext, ManagerNext, ResetNext, CustomerNext, ForgotNext
  <1>3. QED
    BY <1>1, <1>2, PTL DEF Spec

\* Every reachable state of the log-in is of its type.
THEOREM LoginTypeCorrect == Spec => [](service = "login" => Login!TypeOK)
  <1>1. LoginInv => (service = "login" => Login!TypeOK)
    BY DEF LoginInv, LoginIInv
  <1>2. QED
    BY <1>1, LoginAlways, PTL

\* No list is shown to a request that comes, with a token from before a log-out,
\* after it.
THEOREM ListsAlwaysRefuse == Spec => []ListsRefuseLoggedOut
  <1>1. LoginInv => ListsRefuseLoggedOut
    BY DEF LoginInv, LateIsRefused, ListsRefuseLoggedOut, Login!ListsRefuseLoggedOut, Login!ListSteps
  <1>2. QED
    BY <1>1, LoginAlways, PTL
=============================================================================

------------------------------ MODULE Accounts ------------------------------
(***************************************************************************)
(* The services that keep accounts, side by side: delivery partners,       *)
(* restaurant managers, administrators, customers.  Each has stores of its *)
(* own, so a behaviour is that of one of them, chosen at the start; what   *)
(* they have in common is the kind of secret they hand out, and the        *)
(* promise that it serves once (SingleUse).                                *)
(***************************************************************************)
EXTENDS OneTimeCodes

CONSTANTS
  Emails, Managers, Sessions, Tokens, Passwords,
  NoPassword, NoSession,
  ResetRequests,  \* requests at a time that reset an administrator's password
  Life, MaxTime   \* of AdminReset

ASSUME AccountsAssumption == Life \in Nat \ {0} /\ MaxTime \in Nat \ {0}

VARIABLES
  service,                                      \* the service at work
  partner, active, loginKey, tokens,            \* PartnerAccounts
  manager, hashed, resetToken,                  \* ManagerAccounts
  deviceKnown, access, sessions, entered, left, \* AdminLogin
  now, signed, mongo, cache,            \* AdminReset
  session, parent, cached, handed, putBack,     \* Sessions
  reset,                                        \* CustomerReset
  otp, told                                     \* of several of them

Partner == INSTANCE PartnerAccounts
Manager == INSTANCE ManagerAccounts
Login == INSTANCE AdminLogin
Reset == INSTANCE AdminReset WITH Requests <- ResetRequests
Customer == INSTANCE Sessions
Forgot == INSTANCE CustomerReset

Services == {"partner", "manager", "login", "reset", "customer", "forgot"}

partnerState == <<partner, active, loginKey, tokens>>
managerState == <<manager, hashed, resetToken>>
loginState == <<deviceKnown, access, sessions, entered, left>>
resetState == <<now, signed, mongo, cache>>
customerState == <<session, parent, cached, handed, putBack>>

NoPartner == partner = {} /\ active = {} /\ loginKey = {} /\ tokens = {}
NoManager == manager = {} /\ hashed = {} /\ resetToken = {}
NoLogin == deviceKnown = {} /\ access = {} /\ sessions = {} /\ entered = {} /\ left = {}
NoReset == now = 0 /\ signed = {} /\ mongo = {} /\ cache = {}
NoCustomer == session = {} /\ parent = {} /\ cached = {} /\ handed = {} /\ putBack = {}

Init ==
  /\ service \in Services
  /\ IF service = "partner" THEN Partner!Init ELSE NoPartner
  /\ IF service = "manager" THEN Manager!Init ELSE NoManager
  /\ IF service = "login" THEN Login!Init ELSE NoLogin
  /\ IF service = "reset" THEN Reset!Init ELSE NoReset
  /\ IF service = "customer" THEN Customer!Init ELSE NoCustomer
  /\ IF service = "forgot" THEN Forgot!Init ELSE reset = {}
  /\ service \notin {"partner", "login"} => otp = {}
  /\ service \notin {"partner", "manager"} => told = {}
  /\ service = "customer" => fate = [c \in Codes |-> "new"]

PartnerNext ==
  /\ service = "partner" /\ Partner!Next
  /\ UNCHANGED <<service, managerState, loginState, resetState, customerState, reset>>
ManagerNext ==
  /\ service = "manager" /\ Manager!Next
  /\ UNCHANGED <<service, partnerState, loginState, resetState, customerState, reset, otp>>
LoginNext ==
  /\ service = "login" /\ Login!Next
  /\ UNCHANGED <<service, partnerState, managerState, resetState, customerState, reset, told>>
ResetNext ==
  /\ service = "reset" /\ Reset!Next
  /\ UNCHANGED <<service, partnerState, managerState, loginState, customerState, reset, otp, told>>
CustomerNext ==
  /\ service = "customer" /\ Customer!Next
  /\ UNCHANGED <<service, partnerState, managerState, loginState, resetState, reset, otp, fate, told>>
ForgotNext ==
  /\ service = "forgot" /\ Forgot!Next
  /\ UNCHANGED <<service, partnerState, managerState, loginState, resetState, customerState, otp, told>>

Next ==
  PartnerNext \/ ManagerNext \/ LoginNext \/ ResetNext \/ CustomerNext \/ ForgotNext

vars ==
  <<service, partnerState, managerState, loginState, resetState, customerState,
    reset, otp, fate, told, request, faults>>

Spec == Init /\ [][Next]_vars

TypeOK ==
  CASE service = "partner" -> Partner!TypeOK
    [] service = "manager" -> Manager!TypeOK
    [] service = "login" -> Login!TypeOK
    [] service = "reset" -> Reset!TypeOK
    [] service = "customer" -> Customer!TypeOK
    [] service = "forgot" -> Forgot!TypeOK

----------------------------------------------------------------------------
(* What each service hands out, as the one-time secrets of SingleUse.      *)

Valid ==
  CASE service = "partner" -> Partner!Valid
    [] service = "manager" -> Manager!Valid
    [] service = "login" -> Login!Valid
    [] service = "reset" -> Reset!Valid
    [] service = "forgot" -> Forgot!Valid
    [] OTHER -> {}

HoldingOf(f) == [r \in Requests \cup ResetRequests |-> IF r \in DOMAIN f THEN f[r] ELSE NoCode]
Holding ==
  CASE service = "partner" -> HoldingOf(Partner!Holding)
    [] service = "manager" -> HoldingOf(Manager!Holding)
    [] service = "login" -> HoldingOf(Login!Holding)
    [] service = "reset" -> HoldingOf(Reset!Holding)
    [] service = "forgot" -> HoldingOf(Forgot!Holding)
    [] OTHER -> [r \in Requests \cup ResetRequests |-> NoCode]

Secret == INSTANCE SingleUse WITH
  Secrets <- Codes, NoSecret <- NoCode, Requests <- Requests \cup ResetRequests,
  valid <- Valid, spent <- Spent, holding <- Holding

----------------------------------------------------------------------------
(* Properties *)

\* A mailed code or token whose use was acknowledged is never accepted again,
\* although requests that use it at the same time, new ones, expiry, failed
\* calls and restarts change what is stored in between.  Administrators' resets
\* are taken one at a time: of two, a request for a token that read the document
\* before a reset may store the used token in Redis after it.
SecretsServeOnce == Secret!Spec

\* Who was told a password has it until told otherwise: what a log-in, a
\* registration or a reset that started earlier writes late does not bring an
\* old one back.
PasswordsAsTold ==
  /\ service = "partner" => Partner!PasswordsAsTold
  /\ service = "manager" => Manager!PasswordsAsTold

\* After an acknowledged log-out, the lists of managers and of users are not shown
\* to a request with a token that was handed out before the log-out began.
ListsRefuseLoggedOut == service = "login" => Login!ListsRefuseLoggedOut

\* A session that was exchanged at a refresh is marked as used.
ExchangedIsMarked == service = "customer" => Customer!ExchangedIsMarked

\* Only a refused refresh brings a session that is used back into Redis.
UsedIsNotCached == service = "customer" => Customer!UsedIsNotCached
=============================================================================

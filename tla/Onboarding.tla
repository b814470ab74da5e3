----------------------------- MODULE Onboarding -----------------------------
(***************************************************************************)
(* Sign-up: one registration, from the form to the welcome e-mail with the *)
(* owner's temporary password.  upsertRegistration, completeRegistration   *)
(* and Stripe's subscription events (registration.service.js,              *)
(* webhook.service.js) all end in sendWelcomeIfNeeded (welcome-email.js),  *)
(* which opens the dealership account (dealership.service.js) and sends    *)
(* the e-mail under a lock kept in the registration's row.                 *)
(*                                                                         *)
(* A request is cut at its awaits.  It may crash at any of them, its       *)
(* queries may fail, and so may the mail provider.  A request opens at     *)
(* most one account, which has its name; it tries to welcome at most       *)
(* twice, and a temporary password is named by the attempt that minted it. *)
(* Plan, fees, trial dates and the mail's text are left out.               *)
(***************************************************************************)
EXTENDS Integers, FiniteSets

CONSTANTS
  Requests,   \* form posts, completions and webhook deliveries
  None,       \* SQL NULL
  Own,        \* a password the owner chose
  Faults      \* what can go wrong in this instance

ASSUME OnboardingAssumption ==
  /\ None \notin Requests
  /\ None # Own /\ {None, Own} \cap (Requests \X (0..2)) = {}
  /\ Faults \subseteq {"crash", "db", "mail"}

VARIABLES
  reg,        \* the Registration row
  password,   \* the owner's password in each account; None: no such account
  mails,      \* the temporary passwords that left in an e-mail
  failures,   \* the attempts that ended in the catch of sendWelcomeIfNeeded
  pc,         \* the await each request is at
  local       \* what each request carries across its awaits

vars == <<reg, password, mails, failures, pc, local>>

Attempts == Requests \X (1..2)
Ops == {"register", "checkout", "complete", "subscription"}
Locked == {"account", "mint", "mail", "mark", "unlock"}
Awaits == Locked \cup
  {"create", "status", "activate", "current", "recheck", "welcome", "lock", "token", "clear"}
Answered == {"ok", "refused", "crashed"}

NoLocals == [op |-> None, seen |-> None, status |-> "active", attempt |-> 0, first |-> TRUE,
             jammed |-> FALSE]

attempt(r) == <<r, local[r].attempt>>

Goto(r, await) == pc' = [pc EXCEPT ![r] = await]
Begin(r, op, await, status) ==
  /\ pc[r] = "idle"
  /\ Goto(r, await)
  /\ local' = [local EXCEPT ![r] = [NoLocals EXCEPT !.op = op, !.status = status]]
  /\ UNCHANGED <<reg, password, mails, failures>>

-----------------------------------------------------------------------------
(* upsertRegistration: the form.                                           *)

RegisterRead(r) ==
  \/ /\ reg.status = "absent"
     /\ Begin(r, "register", "create", "active")
  \/ /\ reg.status # "absent"
     /\ ~(reg.status = "active" /\ reg.dealership # None)
     /\ Begin(r, "register", "activate", "active")

\* Registration.email is unique: a second create fails the request.
CreateRegistration(r) ==
  /\ pc[r] = "create"
  /\ IF reg.status = "absent"
     THEN reg' = [reg EXCEPT !.status = "pending"] /\ Goto(r, "activate")
     ELSE Goto(r, "refused") /\ UNCHANGED reg
  /\ UNCHANGED <<password, mails, failures, local>>

\* activateNoCardTrial; completeRegistration may call it too.
Activate(r) ==
  /\ pc[r] = "activate"
  /\ reg' = [reg EXCEPT !.status = "active"]
  /\ Goto(r, "welcome")
  /\ UNCHANGED <<password, mails, failures, local>>

\* createCheckout: Stripe's checkout page for a registration without subscription.
CheckoutRead(r) ==
  /\ reg.status # "absent" /\ ~reg.subscribed
  /\ Begin(r, "checkout", "token", "active")

IssueToken(r) ==
  /\ pc[r] = "token"
  /\ reg' = [reg EXCEPT !.token = TRUE, !.session = @ \/ local[r].op = "checkout"]
  /\ Goto(r, IF local[r].op = "complete" THEN "recheck" ELSE "ok")
  /\ UNCHANGED <<password, mails, failures, local>>

-----------------------------------------------------------------------------
(* completeRegistration: the link with the completion token.               *)

\* A checkout session that Stripe reports paid activates the registration.
CompleteRead(r) ==
  /\ reg.status # "absent" /\ reg.token
  /\ \E await \in IF reg.status # "active" /\ reg.session
                 THEN {"current", "status"} ELSE {"current"} :
       Begin(r, "complete", await, "active")

\* Mutant: the second call returns where the first one does.
CompleteAgain(r) ==
  /\ pc[r] \in {"current", "recheck"}
  /\ IF reg.status = "active" \/ reg.dealership # None
     THEN Goto(r, "welcome")
     ELSE Goto(r, IF pc[r] = "current" THEN "activate" ELSE "clear")
  /\ UNCHANGED <<reg, password, mails, failures, local>>

CompleteCurrent(r) ==
  /\ pc[r] \in {"current", "recheck"}
  /\ IF reg.status = "active" \/ reg.dealership # None
     THEN /\ Goto(r, "welcome")
          /\ local' = [local EXCEPT ![r].first = FALSE]
     ELSE /\ Goto(r, IF pc[r] = "current" THEN "activate" ELSE "clear")
          /\ UNCHANGED local
  /\ UNCHANGED <<reg, password, mails, failures>>

ClearToken(r) ==
  /\ pc[r] = "clear"
  /\ reg' = [reg EXCEPT !.token = FALSE]
  /\ Goto(r, "ok")
  /\ UNCHANGED <<password, mails, failures, local>>

-----------------------------------------------------------------------------
(* customer.subscription.*: Stripe reports the subscription's status.      *)

SubscriptionRead(r) == \E status \in {"active", "canceled"} :
  /\ reg.status # "absent"
  /\ Begin(r, "subscription", "status", status)

WriteStatus(r) ==
  /\ pc[r] = "status"
  /\ reg' = [reg EXCEPT !.status = local[r].status, !.subscribed = TRUE]
  /\ Goto(r, IF local[r].op = "complete" THEN "current"
             ELSE IF local[r].status = "active" THEN "welcome" ELSE "ok")
  /\ UNCHANGED <<password, mails, failures, local>>

-----------------------------------------------------------------------------
(* sendWelcomeIfNeeded.                                                    *)

\* Where its caller goes on: it logs an error, only the webhook passes it on.
Return(r, thrown) == Goto(r,
  CASE local[r].op = "subscription" -> IF thrown THEN "refused" ELSE "ok"
    [] local[r].op = "complete" /\ ~local[r].first -> "clear"
    [] OTHER -> "token")

\* The row is read before the lock is taken; dealershipId is used after it.
WelcomeRead(r) ==
  /\ pc[r] = "welcome"
  /\ IF reg.sent
     THEN Return(r, FALSE) /\ UNCHANGED local
     ELSE /\ Goto(r, "lock")
          /\ local' = [local EXCEPT ![r].seen = reg.dealership, ![r].attempt = @ + 1]
  /\ UNCHANGED <<reg, password, mails, failures>>

\* Mutant: only emailSentAt is in the where of the updateMany.
LockUnsent(r) ==
  /\ pc[r] = "lock"
  /\ IF ~reg.sent
     THEN /\ reg' = [reg EXCEPT !.lock = r]
          /\ Goto(r, IF local[r].seen = None THEN "account" ELSE "mint")
     ELSE Return(r, FALSE) /\ UNCHANGED reg
  /\ UNCHANGED <<password, mails, failures, local>>

\* Mutant: only the lock is in the where of the updateMany.
LockFree(r) ==
  /\ pc[r] = "lock"
  /\ IF reg.lock = None
     THEN /\ reg' = [reg EXCEPT !.lock = r]
          /\ Goto(r, IF local[r].seen = None THEN "account" ELSE "mint")
     ELSE Return(r, FALSE) /\ UNCHANGED reg
  /\ UNCHANGED <<password, mails, failures, local>>

Lock(r) ==
  /\ pc[r] = "lock"
  /\ IF ~reg.sent /\ reg.lock = None
     THEN /\ reg' = [reg EXCEPT !.lock = r]
          /\ Goto(r, IF local[r].seen = None THEN "account" ELSE "mint")
     ELSE Return(r, FALSE) /\ UNCHANGED reg
  /\ UNCHANGED <<password, mails, failures, local>>

\* activateFromRegistration: dealership, owner and registration in one transaction.
OpenAccount(r) ==
  /\ pc[r] = "account"
  /\ password' = [password EXCEPT ![r] = attempt(r)]
  /\ reg' = [reg EXCEPT !.dealership = r]
  /\ Goto(r, "mail")
  /\ UNCHANGED <<mails, failures, local>>

\* Mutant: only the registration remembers the new password.
MintUnsaved(r) ==
  /\ pc[r] = "mint"
  /\ Goto(r, "mail")
  /\ UNCHANGED <<reg, password, mails, failures, local>>

\* The owner of the dealership the first read returned gets a new password.
MintPassword(r) ==
  /\ pc[r] = "mint"
  /\ password' = [password EXCEPT ![local[r].seen] = attempt(r)]
  /\ Goto(r, "mail")
  /\ UNCHANGED <<reg, mails, failures, local>>

\* The job is in the queue or, without Redis, at the provider.
SendMail(r) ==
  /\ pc[r] = "mail"
  /\ mails' = mails \cup {attempt(r)}
  /\ Goto(r, "mark")
  /\ UNCHANGED <<reg, password, failures, local>>

\* Mutant: the registration is unlocked but not marked.
MarkNothing(r) ==
  /\ pc[r] = "mark"
  /\ reg' = [reg EXCEPT !.lock = None]
  /\ Return(r, FALSE)
  /\ UNCHANGED <<password, mails, failures, local>>

MarkSent(r) ==
  /\ pc[r] = "mark"
  /\ reg' = [reg EXCEPT !.sent = TRUE, !.lock = None]
  /\ Return(r, FALSE)
  /\ UNCHANGED <<password, mails, failures, local>>

\* Anything thrown in the try: a failed query, or the provider's refusal.
Fail(r) ==
  /\ \/ pc[r] \in {"account", "mint", "mail", "mark"} /\ "db" \in Faults
     \/ pc[r] = "mail" /\ "mail" \in Faults
  /\ failures' = failures \cup {attempt(r)}
  /\ Goto(r, "unlock")
  /\ UNCHANGED <<reg, password, mails, local>>

\* Mutant: the catch gives up without clearing the lock.
UnlockNothing(r) ==
  /\ pc[r] = "unlock"
  /\ Return(r, TRUE)
  /\ UNCHANGED <<reg, password, mails, failures, local>>

\* The catch clears the lock, unless that query fails too.
Unlock(r) ==
  /\ pc[r] = "unlock"
  /\ \/ /\ reg' = IF reg.lock = r THEN [reg EXCEPT !.lock = None] ELSE reg
        /\ UNCHANGED local
     \/ /\ "db" \in Faults
        /\ local' = [local EXCEPT ![r].jammed = TRUE]
        /\ UNCHANGED reg
  /\ Return(r, TRUE)
  /\ UNCHANGED <<password, mails, failures>>

-----------------------------------------------------------------------------
\* The owner signs in with a mailed password and changes it.
ChangePassword(d) ==
  /\ password[d] \in mails
  /\ password' = [password EXCEPT ![d] = Own]
  /\ UNCHANGED <<reg, mails, failures, pc, local>>

Crash(r) ==
  /\ pc[r] \in Awaits
  /\ "crash" \in Faults
  /\ Goto(r, "crashed")
  /\ UNCHANGED <<reg, password, mails, failures, local>>

Init ==
  /\ reg = [status |-> "absent", dealership |-> None, sent |-> FALSE, lock |-> None,
            token |-> FALSE, session |-> FALSE, subscribed |-> FALSE]
  /\ password = [r \in Requests |-> None]
  /\ mails = {}
  /\ failures = {}
  /\ pc = [r \in Requests |-> "idle"]
  /\ local = [r \in Requests |-> NoLocals]

Arrive(r) == RegisterRead(r) \/ CheckoutRead(r) \/ CompleteRead(r) \/ SubscriptionRead(r)

Proceed(r) ==
  \/ CreateRegistration(r) \/ Activate(r) \/ IssueToken(r)
  \/ CompleteCurrent(r) \/ ClearToken(r) \/ WriteStatus(r)
  \/ WelcomeRead(r) \/ Lock(r) \/ OpenAccount(r) \/ MintPassword(r) \/ SendMail(r)
  \/ MarkSent(r) \/ Fail(r) \/ Unlock(r)

Next == \E r \in Requests : Arrive(r) \/ Proceed(r) \/ Crash(r) \/ ChangePassword(r)

\* The event loop resumes every request whose query has been answered.
Spec == Init /\ [][Next]_vars /\ \A r \in Requests : WF_vars(Proceed(r))

-----------------------------------------------------------------------------
Registration ==
  [status : {"absent", "pending", "active", "canceled"}, dealership : Requests \cup {None},
   sent : BOOLEAN, lock : Requests \cup {None}, token : BOOLEAN, session : BOOLEAN,
   subscribed : BOOLEAN]
Locals ==
  [op : Ops \cup {None}, seen : Requests \cup {None}, status : {"active", "canceled"},
   attempt : 0..2, first : BOOLEAN, jammed : BOOLEAN]

(* Rows, mails and requests have the types of the schema and the code.     *)
TypeOK ==
  /\ reg \in Registration
  /\ password \in [Requests -> Attempts \cup {None, Own}]
  /\ mails \subseteq Attempts
  /\ failures \subseteq Attempts
  /\ pc \in [Requests -> Awaits \cup Answered \cup {"idle"}]
  /\ local \in [Requests -> Locals]

(* sendWelcomeIfNeeded works on the registration alone: whoever is past    *)
(* the lock holds it, and nobody holds it without being there, except a    *)
(* request that crashed there or whose catch could not clear it.           *)
LockExplained == \A r \in Requests :
  /\ pc[r] \in Locked => reg.lock = r
  /\ reg.lock = r => pc[r] \in Locked \cup {"crashed"} \/ local[r].jammed

(* The credentials are mailed once: of all the mails that left, one at     *)
(* most came from an attempt that reported no error.                       *)
MailsExplained == \A a, b \in mails \ failures : a = b

(* A second account is only opened after an attempt has failed.            *)
AccountsExplained == \A r, s \in Requests :
  password[r] # None /\ password[s] # None /\ r # s => \E a \in failures : a[1] \in {r, s}

(* When the registration is marked as e-mailed, a password that left in a  *)
(* mail opens an account, or opened it until its owner changed it.         *)
CredentialsWork ==
  reg.sent => \E d \in Requests : password[d] \in mails \cup {Own}

(* Once the registration is marked, no attempt mails another password or   *)
(* overwrites the one the owner has.                                       *)
WelcomedStays == [][reg.sent =>
  /\ mails' = mails
  /\ \A d \in Requests : password'[d] \in {password[d], Own}]_vars

(* A registration somebody starts to welcome is marked in the end, unless  *)
(* an attempt failed or a request crashed.                                 *)
WelcomeArrives ==
  (\E r \in Requests : pc[r] = "welcome") ~>
    reg.sent \/ failures # {} \/ \E r \in Requests : pc[r] = "crashed"

(* One registration, one dealership.                                       *)
OneAccount == \A r, s \in Requests :
  password[r] # None /\ password[s] # None => r = s
=============================================================================

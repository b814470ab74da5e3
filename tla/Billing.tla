------------------------------ MODULE Billing ------------------------------
(***************************************************************************)
(* Billing: one dealership's subscription, as Stripe keeps it and as the   *)
(* Dealership, Registration, BillingPayment and DealershipExpense rows say *)
(* it is.  Stripe tells the backend of every change by a webhook           *)
(* (webhook.service.js), and the owner's Payment Settings page asks Stripe *)
(* (billing.service.js).                                                   *)
(*                                                                         *)
(* Stripe delivers an event at least once, in no promised order, and more  *)
(* than one at a time; a delivery that crashed is made again.  A handler   *)
(* is cut at its awaits.  Events carry the state of their object when they *)
(* were sent.  Plans, fees, cards and period ends are left out: a          *)
(* subscription stands for its plan.                                       *)
(***************************************************************************)
EXTENDS Integers, Sequences, FiniteSets

CONSTANTS
  Handlers,    \* the requests the backend serves at a time
  Subs,        \* subscriptions Stripe may create for this customer
  Invoices,    \* invoices Stripe may issue
  None,        \* SQL NULL
  MaxLog,      \* how many events Stripe sends in this instance
  MaxCrashes   \* how many handlers crash in this instance

VARIABLES
  stripe,      \* status of each subscription at Stripe
  billed,      \* status and subscription of each invoice at Stripe
  log,         \* the events Stripe has sent, oldest first
  dealership, registration, payment,   \* rows
  expenses,    \* how many expense rows stand for each invoice
  pc, local,   \* the await of each handler, and what it carries across it
  handled,     \* history: the events handled in Stripe's order
  orderly,     \* history: no delivery was early, repeated or overlapped another
  crashes      \* history: the number of crashes

rows == <<dealership, registration, payment, expenses>>
history == <<handled, orderly, crashes>>
atStripe == <<stripe, billed, log>>
vars == <<atStripe, rows, pc, local, history>>

SubStatus == {"none", "active", "past_due", "canceled"}
Live == {"active", "past_due"}
Events ==
  [type : {"subscription"}, sub : Subs, status : SubStatus]
    \cup [type : {"checkout"}, sub : Subs, old : Subs \cup {None}]
    \cup [type : {"paid", "failed"}, sub : Subs, invoice : Invoices]

ASSUME BillingAssumption ==
  /\ None \notin Subs \cup Invoices \cup Events
  /\ MaxLog \in Nat /\ MaxCrashes \in Nat

NoLocals == [event |-> None, sub |-> None, status |-> "none", pay |-> "pending",
             linked |-> FALSE, todo |-> {}, next |-> None]

Idle == {h \in Handlers : pc[h] = "idle"}
Goto(h, await) == pc' = [pc EXCEPT ![h] = await] /\ UNCHANGED local

\* The handler answers; a delivery in Stripe's order moves the count on.
Done(h) ==
  /\ pc' = [pc EXCEPT ![h] = "idle"]
  /\ local' = [local EXCEPT ![h] = NoLocals]
  /\ handled' = IF orderly /\ local[h].event # None THEN handled + 1 ELSE handled
  /\ UNCHANGED <<orderly, crashes>>

-----------------------------------------------------------------------------
(* Stripe and its customer.                                                *)

Send(events) ==
  /\ Len(log) + Len(events) <= MaxLog
  /\ log' = log \o events
  /\ UNCHANGED <<rows, pc, local, history>>

SubscriptionEvent(s, status) == [type |-> "subscription", sub |-> s, status |-> status]
InvoiceEvent(i, s, type) == [type |-> type, sub |-> s, invoice |-> i]

\* createBillingCheckout opens the checkout page, the customer pays on it: a
\* first subscription, or an upgrade that names the one it replaces.
Subscribe(s) == \E old \in {None, dealership.sub} :
  /\ stripe[s] = "none"
  /\ old = None => ~(dealership.sub # None /\ dealership.status = "active")
  /\ stripe' = [stripe EXCEPT ![s] = "active"]
  /\ Send(<<SubscriptionEvent(s, "active"), [type |-> "checkout", sub |-> s, old |-> old]>>)
  /\ UNCHANGED billed

PaymentFails(i) == \E s \in Subs :
  /\ stripe[s] \in Live
  /\ billed[i].status = "none" \/ billed[i] = [status |-> "open", sub |-> s]
  /\ stripe' = [stripe EXCEPT ![s] = "past_due"]
  /\ billed' = [billed EXCEPT ![i] = [status |-> "open", sub |-> s]]
  /\ Send(<<InvoiceEvent(i, s, "failed"), SubscriptionEvent(s, "past_due")>>)

\* invoice.paid and invoice.payment_succeeded both report a payment.
PaymentSucceeds(i) == \E s \in Subs :
  /\ stripe[s] \in Live
  /\ billed[i].status = "none" \/ billed[i] = [status |-> "open", sub |-> s]
  /\ stripe' = [stripe EXCEPT ![s] = "active"]
  /\ billed' = [billed EXCEPT ![i] = [status |-> "paid", sub |-> s]]
  /\ Send(<<InvoiceEvent(i, s, "paid"), InvoiceEvent(i, s, "paid")>>
            \o IF stripe[s] = "past_due" THEN <<SubscriptionEvent(s, "active")>> ELSE <<>>)

CancelSubscription(s) ==
  /\ stripe[s] \in Live
  /\ stripe' = [stripe EXCEPT ![s] = "canceled"]
  /\ Send(<<SubscriptionEvent(s, "canceled")>>)
  /\ UNCHANGED billed

-----------------------------------------------------------------------------
(* handleStripeWebhook.                                                    *)

FirstAwait == [subscription |-> "sub_registration", checkout |-> "new_dealership",
               paid |-> "dealership", failed |-> "dealership"]

Deliver(h) == \E n \in 1..Len(log) :
  /\ pc[h] = "idle"
  /\ pc' = [pc EXCEPT ![h] = FirstAwait[log[n].type]]
  /\ local' = [local EXCEPT ![h] = [NoLocals EXCEPT !.event = log[n]]]
  /\ orderly' = (orderly /\ n = handled + 1 /\ Idle = Handlers)
  /\ UNCHANGED <<atStripe, rows, handled, crashes>>

ServiceStatus(status) ==
  CASE status = "canceled" -> "canceled"
    [] status = "past_due" -> "payment_failed"
    [] OTHER -> "active"
PayStatus(status) == IF status = "past_due" THEN "behind" ELSE "on_time"

\* Mutant: every subscription event counts as a payment.
SubRegistrationOnTime(h) == LET e == local[h].event IN
  /\ pc[h] = "sub_registration"
  /\ registration' = [status |-> IF e.status = "canceled" THEN "canceled" ELSE "active",
                      pay |-> "on_time", sub |-> e.sub]
  /\ Goto(h, "sub_dealership")
  /\ UNCHANGED <<atStripe, dealership, payment, expenses, history>>

\* The registration is found by its id, its subscription or its customer.
SubRegistration(h) == LET e == local[h].event IN
  /\ pc[h] = "sub_registration"
  /\ registration' = [status |-> IF e.status = "canceled" THEN "canceled" ELSE "active",
                      pay |-> PayStatus(e.status), sub |-> e.sub]
  /\ Goto(h, "sub_dealership")
  /\ UNCHANGED <<atStripe, dealership, payment, expenses, history>>

\* Mutant: the dealership keeps the subscription it has.
SubDealershipStatus(h) == LET e == local[h].event IN
  /\ pc[h] = "sub_dealership"
  /\ dealership' = [dealership EXCEPT !.status = ServiceStatus(e.status),
                                      !.pay = PayStatus(e.status)]
  /\ Done(h)
  /\ UNCHANGED <<atStripe, registration, payment, expenses>>

SubDealership(h) == LET e == local[h].event IN
  /\ pc[h] = "sub_dealership"
  /\ dealership' = [dealership EXCEPT !.status = ServiceStatus(e.status),
                                      !.pay = PayStatus(e.status), !.sub = e.sub]
  /\ Done(h)
  /\ UNCHANGED <<atStripe, registration, payment, expenses>>

\* checkout.session.completed, of a first subscription or of an upgrade.
NewDealership(h) ==
  /\ pc[h] = "new_dealership"
  /\ dealership' = [dealership EXCEPT !.status = "active", !.pay = "on_time",
                                      !.sub = local[h].event.sub]
  /\ Goto(h, "new_registration")
  /\ UNCHANGED <<atStripe, registration, payment, expenses, history>>

NewRegistration(h) == LET e == local[h].event IN
  /\ pc[h] = "new_registration"
  /\ registration' = [status |-> "active", pay |-> "on_time", sub |-> e.sub]
  /\ IF e.old \in {None, e.sub} THEN Done(h) ELSE Goto(h, "cancel_old") /\ UNCHANGED history
  /\ UNCHANGED <<atStripe, dealership, payment, expenses>>

\* The upgrade cancels the old subscription, which Stripe reports; an error is logged.
CancelOld(h) == LET old == local[h].event.old IN
  /\ pc[h] = "cancel_old"
  /\ \/ /\ stripe[old] \in Live /\ Len(log) < MaxLog
        /\ stripe' = [stripe EXCEPT ![old] = "canceled"]
        /\ log' = Append(log, SubscriptionEvent(old, "canceled"))
     \/ UNCHANGED <<stripe, log>>
  /\ Done(h)
  /\ UNCHANGED <<billed, rows>>

-----------------------------------------------------------------------------
(* handleInvoiceEvent.                                                     *)

\* Mutant: Stripe's word for a failed payment is written to the row.
SetStripeStanding(row, failed) ==
  [row EXCEPT !.status = IF failed THEN "past_due" ELSE "active",
              !.pay = IF failed THEN "behind" ELSE "on_time"]

SetStanding(row, failed) ==
  [row EXCEPT !.status = IF failed THEN "payment_failed" ELSE "active",
              !.pay = IF failed THEN "behind" ELSE "on_time"]
Failed(h) == local[h].event.type = "failed"

InvoiceDealership(h) ==
  /\ pc[h] = "dealership"
  /\ dealership' = SetStanding(dealership, Failed(h))
  /\ Goto(h, "registration")
  /\ UNCHANGED <<atStripe, registration, payment, expenses, history>>

InvoiceRegistration(h) ==
  /\ pc[h] = "registration"
  /\ registration' = SetStanding(registration, Failed(h))
  /\ Goto(h, "record")
  /\ UNCHANGED <<atStripe, dealership, payment, expenses, history>>

\* upsertBillingPaymentFromInvoice; the row it returns is used later.
RecordPayment(h) == LET i == local[h].event.invoice IN
  /\ pc[h] = "record"
  /\ payment' = [payment EXCEPT ![i].status = IF Failed(h) THEN "open" ELSE "paid"]
  /\ local' = [local EXCEPT ![h].linked = payment[i].linked]
  /\ pc' = [pc EXCEPT ![h] = IF Failed(h) THEN "again_registration" ELSE "expense"]
  /\ UNCHANGED <<atStripe, dealership, registration, expenses, history>>

\* Mutant: the payment's expenseId is not looked at.
CreateExpenseAlways(h) == LET i == local[h].event.invoice IN
  /\ pc[h] = "expense"
  /\ IF dealership.autoExpense
     THEN /\ expenses' = [expenses EXCEPT ![i] = @ + 1]
          /\ Goto(h, "link")
          /\ UNCHANGED history
     ELSE /\ Done(h)
          /\ UNCHANGED expenses
  /\ UNCHANGED <<atStripe, dealership, registration, payment>>

\* maybeCreateAutoExpense, on the dealership as it is and the payment as it was.
CreateExpense(h) == LET i == local[h].event.invoice IN
  /\ pc[h] = "expense"
  /\ IF dealership.autoExpense /\ ~local[h].linked
     THEN /\ expenses' = [expenses EXCEPT ![i] = @ + 1]
          /\ Goto(h, "link")
          /\ UNCHANGED history
     ELSE /\ Done(h)
          /\ UNCHANGED expenses
  /\ UNCHANGED <<atStripe, dealership, registration, payment>>

LinkExpense(h) ==
  /\ pc[h] = "link"
  /\ payment' = [payment EXCEPT ![local[h].event.invoice].linked = TRUE]
  /\ Done(h)
  /\ UNCHANGED <<atStripe, dealership, registration, expenses>>

\* After a failed payment the webhook looks the registration up by subscription
\* and writes both rows a second time.
AgainRegistration(h) ==
  /\ pc[h] = "again_registration"
  /\ IF registration.sub = local[h].event.sub
     THEN /\ registration' = SetStanding(registration, TRUE)
          /\ Goto(h, "again_dealership")
          /\ UNCHANGED history
     ELSE /\ Done(h)
          /\ UNCHANGED registration
  /\ UNCHANGED <<atStripe, dealership, payment, expenses>>

AgainDealership(h) ==
  /\ pc[h] = "again_dealership"
  /\ dealership' = SetStanding(dealership, TRUE)
  /\ Done(h)
  /\ UNCHANGED <<atStripe, registration, payment, expenses>>

-----------------------------------------------------------------------------
(* getBilling and getBillingHistory: Payment Settings asks Stripe and      *)
(* writes down the answer.  The history page does not sync the status.     *)

\* loadDealership: its subscription and payment status are used to the end.
BillingRead(h) == \E await \in {"retrieve", "backfill"} :
  /\ pc[h] = "idle"
  /\ local' = [local EXCEPT ![h] = [NoLocals EXCEPT !.sub = dealership.sub,
                                      !.pay = dealership.pay, !.next = await]]
  /\ pc' = [pc EXCEPT ![h] = IF dealership.sub = None THEN "list" ELSE await]
  /\ orderly' = (orderly /\ Idle = Handlers)
  /\ UNCHANGED <<atStripe, rows, handled, crashes>>

\* The subscriptions Stripe lists for the customer, a live one preferred.
Linkable ==
  LET live == {s \in Subs : stripe[s] \in Live}
  IN IF live # {} THEN live ELSE {s \in Subs : stripe[s] # "none"}

\* ensureStripeSubscriptionLinked, of a dealership that names no subscription.
ListSubscriptions(h) ==
  /\ pc[h] = "list"
  /\ IF Linkable = {} THEN Goto(h, "backfill")
     ELSE /\ \E s \in Linkable : local' = [local EXCEPT ![h].sub = s]
          /\ pc' = [pc EXCEPT ![h] = "link_sub"]
  /\ UNCHANGED <<atStripe, rows, history>>

LinkSubscription(h) ==
  /\ pc[h] = "link_sub"
  /\ dealership' = [dealership EXCEPT !.sub = local[h].sub]
  /\ local' = [local EXCEPT ![h].pay = dealership.pay]
  /\ pc' = [pc EXCEPT ![h] = local[h].next]
  /\ UNCHANGED <<atStripe, registration, payment, expenses, history>>

\* syncSubscriptionPeriod retrieves the subscription and writes it down.
RetrieveSubscription(h) ==
  /\ pc[h] = "retrieve"
  /\ local' = [local EXCEPT ![h].status = stripe[local[h].sub]]
  /\ pc' = [pc EXCEPT ![h] = "sync"]
  /\ UNCHANGED <<atStripe, rows, history>>

SyncDealership(h) == LET status == local[h].status IN
  /\ pc[h] = "sync"
  /\ dealership' = [dealership EXCEPT !.status = ServiceStatus(status), !.sub = local[h].sub,
       !.pay = IF status = "canceled" THEN local[h].pay ELSE PayStatus(status)]
  /\ Goto(h, "backfill")
  /\ UNCHANGED <<atStripe, registration, payment, expenses, history>>

\* backfillInvoices lists the invoices when no payment is on record, and
\* upserts them one after another.
BackfillRead(h) ==
  /\ pc[h] = "backfill"
  /\ IF \A i \in Invoices : payment[i].status = "none"
     THEN /\ local' = [local EXCEPT ![h].todo =
               {[invoice |-> i, status |-> billed[i].status] :
                  i \in {j \in Invoices : billed[j].status # "none"}}]
          /\ pc' = [pc EXCEPT ![h] = "upsert"]
          /\ UNCHANGED history
     ELSE Done(h)
  /\ UNCHANGED <<atStripe, rows>>

Backfill(h) ==
  /\ pc[h] = "upsert"
  /\ \/ \E t \in local[h].todo :
          /\ payment' = [payment EXCEPT ![t.invoice].status = t.status]
          /\ local' = [local EXCEPT ![h].todo = @ \ {t}]
          /\ UNCHANGED <<pc, history>>
     \/ /\ local[h].todo = {}
        /\ Done(h)
        /\ UNCHANGED payment
  /\ UNCHANGED <<atStripe, dealership, registration, expenses>>

\* updateBillingSettings
SetAutoExpense ==
  /\ dealership' = [dealership EXCEPT !.autoExpense = ~@]
  /\ UNCHANGED <<atStripe, registration, payment, expenses, pc, local, history>>

Crash(h) ==
  /\ pc[h] # "idle"
  /\ crashes < MaxCrashes
  /\ crashes' = crashes + 1
  /\ pc' = [pc EXCEPT ![h] = "idle"]
  /\ local' = [local EXCEPT ![h] = NoLocals]
  /\ UNCHANGED <<atStripe, rows, handled, orderly>>

\* The dealership is on its trial, or subscribed some time ago.
Init == \E sub \in Subs \cup {None} : LET standing == IF sub = None THEN "pending" ELSE "on_time" IN
  /\ stripe = [s \in Subs |-> IF s = sub THEN "active" ELSE "none"]
  /\ billed = [i \in Invoices |-> [status |-> "none", sub |-> None]]
  /\ log = <<>>
  /\ dealership = [status |-> "active", pay |-> standing, sub |-> sub, autoExpense |-> TRUE]
  /\ registration = [status |-> "active", pay |-> standing, sub |-> sub]
  /\ payment = [i \in Invoices |-> [status |-> "none", linked |-> FALSE]]
  /\ expenses = [i \in Invoices |-> 0]
  /\ pc = [h \in Handlers |-> "idle"]
  /\ local = [h \in Handlers |-> NoLocals]
  /\ handled = 0 /\ orderly = TRUE /\ crashes = 0

Next ==
  \/ \E s \in Subs : Subscribe(s) \/ CancelSubscription(s)
  \/ \E i \in Invoices : PaymentFails(i) \/ PaymentSucceeds(i)
  \/ \E h \in Handlers :
       \/ Deliver(h)
       \/ SubRegistration(h) \/ SubDealership(h)
       \/ NewDealership(h) \/ NewRegistration(h) \/ CancelOld(h)
       \/ InvoiceDealership(h) \/ InvoiceRegistration(h) \/ RecordPayment(h)
       \/ CreateExpense(h) \/ LinkExpense(h)
       \/ AgainRegistration(h) \/ AgainDealership(h)
       \/ BillingRead(h) \/ ListSubscriptions(h) \/ LinkSubscription(h)
       \/ RetrieveSubscription(h) \/ SyncDealership(h)
       \/ BackfillRead(h) \/ Backfill(h)
       \/ Crash(h)
  \/ SetAutoExpense

Spec == Init /\ [][Next]_vars

-----------------------------------------------------------------------------
Row == [status : {"active", "payment_failed", "canceled"},
        pay : {"pending", "on_time", "behind"}, sub : Subs \cup {None}]
Todo == [invoice : Invoices, status : {"open", "paid"}]

(* The rows have the types of the schema, Stripe's objects those of its API. *)
TypeOK ==
  /\ stripe \in [Subs -> SubStatus]
  /\ billed \in [Invoices -> [status : {"none", "open", "paid"}, sub : Subs \cup {None}]]
  /\ log \in Seq(Events) /\ Len(log) <= MaxLog
  /\ registration \in Row
  /\ [f \in {"status", "pay", "sub"} |-> dealership[f]] \in Row
  /\ dealership.autoExpense \in BOOLEAN
  /\ payment \in [Invoices -> [status : {"none", "open", "paid"}, linked : BOOLEAN]]
  /\ expenses \in [Invoices -> Nat]
  /\ \A h \in Handlers : local[h].event \in Events \cup {None} /\ local[h].todo \subseteq Todo
  /\ handled \in 0..Len(log) /\ crashes \in 0..MaxCrashes

Caught == orderly /\ Idle = Handlers /\ handled = Len(log)

(* When Stripe's events were handled one at a time and in order, crashed   *)
(* ones again, every invoice it issued is on record, as paid or open as it *)
(* is; and the backend agrees with Stripe on its customer's one            *)
(* subscription: the service status, and who is behind, in both rows.      *)
AgreesWithStripe == Caught =>
  /\ \A i \in Invoices : payment[i].status = billed[i].status
  /\ \A s \in Subs : stripe[s] # "none" /\ (\A t \in Subs \ {s} : stripe[t] = "none") =>
       /\ dealership.sub = s /\ registration.sub = s
       /\ dealership.status = ServiceStatus(stripe[s])
       /\ dealership.pay = PayStatus(stripe[s]) /\ registration.pay = dealership.pay

(* A row that says canceled names a subscription that is canceled at       *)
(* Stripe: the registration however deliveries are ordered, repeated,      *)
(* overlapped or cut short, the dealership unless requests overlapped.     *)
CanceledAtStripe == \A row \in {registration} \cup IF orderly THEN {dealership} ELSE {} :
  row.status = "canceled" => row.sub # None /\ stripe[row.sub] = "canceled"

(* An expense is only booked for an invoice the customer paid, and every   *)
(* payment that names an expense has one.  Handled one at a time, an       *)
(* invoice is booked once, however often Stripe reports it, and once more  *)
(* for each crash.                                                         *)
ExpensesBacked == \A i \in Invoices :
  /\ expenses[i] > 0 => billed[i].status = "paid"
  /\ payment[i].linked => expenses[i] > 0
  /\ orderly => expenses[i] <= 1 + crashes

(* An upgrade ends the old subscription, not the account: a dealership     *)
(* whose new subscription is live is not told "This account has been       *)
(* canceled.", once every event was handled in order.                      *)
UpgradeKeepsAccount == Caught =>
  \A n \in 1..Len(log) :
    log[n].type = "checkout" /\ log[n].old # None /\ stripe[log[n].sub] \in Live
      => ~(dealership.status = "canceled" /\ dealership.sub = log[n].old)
=============================================================================

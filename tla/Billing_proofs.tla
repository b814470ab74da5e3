--------------------------- MODULE Billing_proofs ---------------------------
(***************************************************************************)
(* Proofs about Billing, for any number of requests, subscriptions and     *)
(* invoices, any length of Stripe's log and any number of crashes.         *)
(***************************************************************************)
EXTENDS Billing, TLAPS

-----------------------------------------------------------------------------
(* Types.                                                                  *)

PayStates == {"pending", "on_time", "behind"}
InvoiceStatus == {"none", "open", "paid"}
DealershipRow == [status : {"active", "payment_failed", "canceled"}, pay : PayStates,
                  sub : Subs \cup {None}, autoExpense : BOOLEAN]

InvoiceAwaits == {"dealership", "registration", "record", "expense", "link",
                  "again_registration", "again_dealership"}
EventAwaits == InvoiceAwaits \cup
  {"sub_registration", "sub_dealership", "new_dealership", "new_registration", "cancel_old"}
PageAwaits == {"list", "link_sub", "retrieve", "sync", "backfill", "upsert"}
Awaits == EventAwaits \cup PageAwaits \cup {"idle"}
Carried == [event : Events \cup {None}, sub : Subs \cup {None}, status : SubStatus,
            pay : PayStates, linked : BOOLEAN, todo : SUBSET Todo,
            next : {None, "retrieve", "backfill"}]

StripeTypes ==
  /\ stripe \in [Subs -> SubStatus]
  /\ billed \in [Invoices -> [status : InvoiceStatus, sub : Subs \cup {None}]]
  /\ log \in Seq(Events) /\ Len(log) <= MaxLog

RowTypes ==
  /\ registration \in Row
  /\ dealership \in DealershipRow
  /\ payment \in [Invoices -> [status : InvoiceStatus, linked : BOOLEAN]]
  /\ expenses \in [Invoices -> Nat]

HandlerTypes ==
  /\ pc \in [Handlers -> Awaits]
  /\ local \in [Handlers -> Carried]
  /\ handled \in Nat /\ orderly \in BOOLEAN /\ crashes \in 0..MaxCrashes

\* What a request at an await carries there.
Carries(await, c) ==
  /\ await = "idle" => c = NoLocals
  /\ await \in EventAwaits <=> c.event # None
  /\ await \in EventAwaits => c.todo = {}
  /\ await \in {"sub_registration", "sub_dealership"} => c.event.type = "subscription"
  /\ await \in {"new_dealership", "new_registration", "cancel_old"} => c.event.type = "checkout"
  /\ await = "cancel_old" => c.event.old \notin {None, c.event.sub}
  /\ await \in InvoiceAwaits => c.event.type \in {"paid", "failed"}
  /\ await \in {"expense", "link"} => c.event.type = "paid"
  /\ await \in {"again_registration", "again_dealership"} => c.event.type = "failed"
  /\ await \in {"list", "link_sub"} => c.next \in {"retrieve", "backfill"}
  /\ await \in {"link_sub", "retrieve", "sync"} => c.sub # None

BillTypes ==
  StripeTypes /\ RowTypes /\ HandlerTypes /\ \A h \in Handlers : Carries(pc[h], local[h])

-----------------------------------------------------------------------------
(* Stripe's log.                                                           *)

OnInvoice(e, i) == e.type \in {"paid", "failed"} /\ e.invoice = i
Says(e) == IF e.type = "paid" THEN "paid" ELSE "open"

\* What an event says for good.
EventTrue(e) ==
  /\ stripe[e.sub] # "none"
  /\ e.type = "checkout" /\ e.old # None => stripe[e.old] # "none"
  /\ e.type = "subscription" /\ e.status = "canceled" => stripe[e.sub] = "canceled"
  /\ e.type = "paid" => billed[e.invoice].status = "paid"

\* What the last event says until the next one.
LastTrue(e) ==
  /\ e.type # "failed"
  /\ stripe[e.sub] = IF e.type = "subscription" THEN e.status ELSE "active"

LogInv ==
  /\ \A n \in 1..Len(log) : EventTrue(log[n])
  /\ Len(log) > 0 => LastTrue(log[Len(log)])
  /\ \A i \in Invoices, n \in 1..Len(log) : OnInvoice(log[n], i) =>
       Says(log[n]) = billed[i].status \/ \E m \in n + 1..Len(log) : OnInvoice(log[m], i)

\* A row names a subscription that exists, and says canceled of one that is.
RowNames ==
  /\ dealership.sub # None => stripe[dealership.sub] # "none"
  /\ registration.sub # None => stripe[registration.sub] # "none"
  /\ registration.status = "canceled" =>
       registration.sub # None /\ stripe[registration.sub] = "canceled"

\* So does what a request carries: of an event of the log, or of what Stripe answered.
Named(await, c) ==
  /\ await \in {"link_sub", "retrieve", "sync"} => stripe[c.sub] # "none"
  /\ await = "sync" /\ c.status = "canceled" => stripe[c.sub] = "canceled"
  /\ c.event # None => EventTrue(c.event)

NamesInv == RowNames /\ \A h \in Handlers : Named(pc[h], local[h])

-----------------------------------------------------------------------------
(* Expenses.                                                               *)

Linking(i) == \E h \in Handlers : pc[h] = "link" /\ local[h].event.invoice = i

Booked(i) == payment[i].linked \/ Linking(i)

\* An expense that no payment names and nobody will link was cut off by a crash.
ExpenseOf(i) ==
  /\ expenses[i] > 0 => billed[i].status = "paid"
  /\ Booked(i) => expenses[i] > 0
  /\ orderly => expenses[i] <= crashes + IF Booked(i) THEN 1 ELSE 0
ExpenseInv == \A i \in Invoices : ExpenseOf(i)

-----------------------------------------------------------------------------
(* One delivery at a time, in order.                                       *)

\* One request is served at a time, and a delivery is the next event.
TurnInv == orderly =>
  /\ handled <= Len(log)
  /\ \A g, h \in Handlers : pc[g] # "idle" /\ pc[h] # "idle" => g = h
  /\ \A h \in Handlers : local[h].event # None =>
       handled < Len(log) /\ local[h].event = log[handled + 1]

\* What a request has written or read is so until its next step.
Progress(h) == LET e == local[h].event IN
  /\ pc[h] = "sub_dealership" => registration.sub = e.sub /\ registration.pay = PayStatus(e.status)
  /\ pc[h] = "new_registration" =>
       dealership.status = "active" /\ dealership.pay = "on_time" /\ dealership.sub = e.sub
  /\ pc[h] \in {"registration", "record", "expense", "link"} /\ e.type = "paid" =>
       dealership.status = "active" /\ dealership.pay = "on_time"
  /\ pc[h] \in {"record", "expense", "link"} /\ e.type = "paid" => registration.pay = "on_time"
  /\ pc[h] \in {"expense", "link", "again_registration", "again_dealership"} =>
       payment[e.invoice].status = Says(e)
  /\ pc[h] = "expense" => local[h].linked = payment[e.invoice].linked
  /\ pc[h] \in {"list", "link_sub"} => dealership.sub = None
  /\ pc[h] \in {"retrieve", "sync"} => local[h].sub = dealership.sub /\ local[h].pay = dealership.pay
  /\ pc[h] = "sync" /\ handled = Len(log) => local[h].status = stripe[local[h].sub]

\* An event on the invoice is still to be handled.
Pending(i) == \E n \in handled + 1..Len(log) : OnInvoice(log[n], i)

Sole(s) == stripe[s] # "none" /\ \A t \in Subs \ {s} : stripe[t] = "none"
Agreed(s) ==
  /\ dealership.sub = s /\ registration.sub = s
  /\ dealership.status = ServiceStatus(stripe[s])
  /\ dealership.pay = PayStatus(stripe[s]) /\ registration.pay = dealership.pay

\* The rows are what Stripe says, or an event to be handled says so.
Recorded == \A i \in Invoices : payment[i].status = billed[i].status \/ Pending(i)
Listed(h) == \A t \in local[h].todo : t.status = billed[t.invoice].status \/ Pending(t.invoice)
Subscribed ==
  \/ dealership.sub # None /\ registration.sub # None
  \/ /\ handled = 0
     /\ IF log = <<>> THEN \A s \in Subs : stripe[s] = "none" ELSE log[1].type = "subscription"
Standing == handled = Len(log) => \A s \in Subs : Sole(s) => Agreed(s)
CanceledRow ==
  dealership.status = "canceled" => dealership.sub # None /\ stripe[dealership.sub] = "canceled"

CaughtUp ==
  /\ \A h \in Handlers : Progress(h) /\ Listed(h)
  /\ Recorded /\ Subscribed /\ Standing /\ CanceledRow

OrderlyInv == orderly => CaughtUp

HandledInv == handled <= Len(log)

BillInv ==
  BillTypes /\ LogInv /\ NamesInv /\ ExpenseInv /\ HandledInv /\ TurnInv /\ OrderlyInv

-----------------------------------------------------------------------------
(* The steps the actions are built from.                                   *)

\* A step of one request leaves the others where they are.
Elsewhere(h) == \A g \in Handlers \ {h} : pc'[g] = pc[g] /\ local'[g] = local[g]

\* Where the request is after the step, and what it carries.
At(h, await, c) ==
  /\ pc' \in [Handlers -> Awaits] /\ local' \in [Handlers -> Carried]
  /\ \A g \in Handlers : Carries(pc'[g], local'[g])
  /\ Elsewhere(h) /\ pc'[h] = await /\ local'[h] = c

LEMMA MoveStep ==
  ASSUME BillTypes, NEW h \in Handlers, NEW await \in Awaits, NEW c \in Carried, Carries(await, c),
         pc' = [pc EXCEPT ![h] = await], local' = [local EXCEPT ![h] = c]
  PROVE  At(h, await, c)
  BY DEF BillTypes, HandlerTypes, At, Elsewhere

LEMMA GotoStep ==
  ASSUME BillTypes, NEW h \in Handlers, NEW await \in Awaits, Carries(await, local[h]), Goto(h, await)
  PROVE  At(h, await, local[h])
  <1>1. local' = [local EXCEPT ![h] = local[h]] /\ local[h] \in Carried
    BY DEF Goto, BillTypes, HandlerTypes
  <1>2. QED
    BY <1>1, MoveStep DEF Goto

LEMMA NoLocalsType == NoLocals \in Carried /\ Carries("idle", NoLocals)
  BY DEF NoLocals, Carried, Carries, EventAwaits, InvoiceAwaits, SubStatus, PayStates

LEMMA DoneStep ==
  ASSUME BillTypes, NEW h \in Handlers, Done(h)
  PROVE  /\ At(h, "idle", NoLocals)
         /\ UNCHANGED <<orderly, crashes>>
         /\ handled' = IF orderly /\ local[h].event # None THEN handled + 1 ELSE handled
  BY MoveStep, NoLocalsType DEF Done, Awaits

\* The event a delivery carries is one of Stripe's.
LEMMA EventType ==
  ASSUME BillTypes, NEW h \in Handlers, pc[h] \in EventAwaits
  PROVE  /\ local[h].event \in Events /\ local[h].event.sub \in Subs
         /\ local[h].event.type = "subscription" => local[h].event.status \in SubStatus
         /\ local[h].event.type = "checkout" => local[h].event.old \in Subs \cup {None}
         /\ local[h].event.type \in {"paid", "failed"} => local[h].event.invoice \in Invoices
  <1>1. local[h].event \in Events
    BY DEF BillTypes, HandlerTypes, Carries, Carried
  <1>2. QED
    BY <1>1 DEF Events

\* What such a step changes among the rest, where it is typed.
LEMMA TypesFrom ==
  ASSUME BillTypes, NEW h \in Handlers, NEW await, NEW c, At(h, await, c), RowTypes', StripeTypes',
         handled' \in Nat, orderly' \in BOOLEAN, crashes' \in 0..MaxCrashes
  PROVE  BillTypes'
  BY DEF BillTypes, At, HandlerTypes

-----------------------------------------------------------------------------
(* Types.                                                                  *)

\* The requests that begin, and the ones that are cut short.
Turns(h) == Deliver(h) \/ BillingRead(h) \/ Crash(h)

\* The steps of a delivery, and of a request for the Payment Settings page.
Delivery(h) ==
  \/ SubRegistration(h) \/ SubDealership(h)
  \/ NewDealership(h) \/ NewRegistration(h) \/ CancelOld(h)
  \/ InvoiceDealership(h) \/ InvoiceRegistration(h) \/ RecordPayment(h)
  \/ CreateExpense(h) \/ LinkExpense(h)
  \/ AgainRegistration(h) \/ AgainDealership(h)
Page(h) ==
  \/ ListSubscriptions(h) \/ LinkSubscription(h)
  \/ RetrieveSubscription(h) \/ SyncDealership(h)
  \/ BackfillRead(h) \/ Backfill(h)

LEMMA StandingType ==
  ASSUME NEW failed \in BOOLEAN
  PROVE  /\ \A row \in Row : SetStanding(row, failed) \in Row
         /\ \A row \in DealershipRow : SetStanding(row, failed) \in DealershipRow
  <1>1. ASSUME NEW row \in Row PROVE SetStanding(row, failed) \in Row
    BY <1>1 DEF SetStanding, Row
  <1>2. ASSUME NEW row \in DealershipRow PROVE SetStanding(row, failed) \in DealershipRow
    BY <1>2 DEF SetStanding, DealershipRow, PayStates
  <1>3. QED
    BY <1>1, <1>2

LEMMA TurnTypes ==
  ASSUME BillTypes, NEW h \in Handlers, Turns(h)
  PROVE  /\ BillTypes' /\ Elsewhere(h)
         /\ UNCHANGED <<atStripe, rows>>
  <1>0. /\ StripeTypes /\ RowTypes /\ handled \in Nat /\ orderly \in BOOLEAN
        /\ crashes \in 0..MaxCrashes /\ MaxCrashes \in Nat
    BY BillingAssumption DEF BillTypes, HandlerTypes
  <1>1. ASSUME UNCHANGED <<atStripe, rows>> PROVE StripeTypes' /\ RowTypes'
    BY <1>0, <1>1 DEF atStripe, rows, StripeTypes, RowTypes
  <1>2. CASE Deliver(h)
    <2>1. PICK n \in 1..Len(log) :
            /\ pc' = [pc EXCEPT ![h] = FirstAwait[log[n].type]]
            /\ local' = [local EXCEPT ![h] = [NoLocals EXCEPT !.event = log[n]]]
            /\ orderly' = (orderly /\ n = handled + 1 /\ Idle = Handlers)
            /\ UNCHANGED <<atStripe, rows, handled, crashes>>
      BY <1>2 DEF Deliver
    <2>2. log[n] \in Events
      BY <1>0 DEF StripeTypes
    <2>3. /\ FirstAwait[log[n].type] \in Awaits
          /\ [NoLocals EXCEPT !.event = log[n]] \in Carried
          /\ Carries(FirstAwait[log[n].type], [NoLocals EXCEPT !.event = log[n]])
      <3>1. PICK e \in Events : e = log[n]
        BY <2>2
      <3>2. e # None
        BY <3>1, BillingAssumption
      <3>3. [NoLocals EXCEPT !.event = e] \in Carried
        BY DEF NoLocals, Carried, PayStates, SubStatus
      <3>4. FirstAwait[e.type] \in EventAwaits
        BY DEF FirstAwait, Events, EventAwaits, InvoiceAwaits
      <3>5. Carries(FirstAwait[e.type], [NoLocals EXCEPT !.event = e])
        BY <3>2, <3>4 DEF NoLocals, Carries, FirstAwait, Events, EventAwaits, InvoiceAwaits
      <3>6. QED
        BY <3>1, <3>3, <3>4, <3>5 DEF Awaits
    <2>4. QED
      BY <1>0, <1>1, <2>1, <2>3, MoveStep, TypesFrom DEF At
  <1>3. CASE BillingRead(h)
    <2>1. PICK next \in {"retrieve", "backfill"} :
            /\ local' = [local EXCEPT ![h] = [NoLocals EXCEPT !.sub = dealership.sub,
                                               !.pay = dealership.pay, !.next = next]]
            /\ pc' = [pc EXCEPT ![h] = IF dealership.sub = None THEN "list" ELSE next]
            /\ orderly' = (orderly /\ Idle = Handlers)
            /\ UNCHANGED <<atStripe, rows, handled, crashes>>
      BY <1>3 DEF BillingRead
    <2> DEFINE c == [NoLocals EXCEPT !.sub = dealership.sub, !.pay = dealership.pay, !.next = next]
               await == IF dealership.sub = None THEN "list" ELSE next
    <2>2. dealership.sub \in Subs \cup {None} /\ dealership.pay \in PayStates
      BY <1>0 DEF RowTypes, DealershipRow
    <2>3. c \in Carried
      BY <2>2 DEF NoLocals, Carried, PayStates, SubStatus
    <2>4. await \in Awaits /\ Carries(await, c)
      BY <2>2 DEF NoLocals, Carries, Awaits, EventAwaits, PageAwaits, InvoiceAwaits
    <2> HIDE DEF c, await
    <2>5. At(h, await, c)
      BY <2>1, <2>3, <2>4, MoveStep DEF c, await
    <2>6. QED
      BY <1>0, <1>1, <2>1, <2>5, TypesFrom DEF At
  <1>4. CASE Crash(h)
    <2>1. At(h, "idle", NoLocals)
      BY <1>4, MoveStep, NoLocalsType DEF Crash, Awaits
    <2>2. QED
      BY <1>0, <1>1, <1>4, <2>1, TypesFrom DEF Crash, At
  <1>5. QED
    BY <1>2, <1>3, <1>4 DEF Turns

\* Where each step of a delivery leads, and what is typed after it.
LEMMA DeliveryTypes ==
  ASSUME BillTypes, NEW h \in Handlers, Delivery(h)
  PROVE  /\ BillTypes' /\ Elsewhere(h)
         /\ local[h].event # None /\ pc[h] \in EventAwaits
         /\ \/ Done(h) /\ pc'[h] = "idle" /\ local'[h] = NoLocals
            \/ /\ UNCHANGED history /\ pc'[h] \in EventAwaits
               /\ local'[h].event = local[h].event /\ local'[h].todo = {}
         /\ ~CancelOld(h) => UNCHANGED atStripe
  <1> DEFINE e == local[h].event
  <1>0. /\ StripeTypes /\ RowTypes /\ handled \in Nat /\ orderly \in BOOLEAN
        /\ crashes \in 0..MaxCrashes /\ local[h] \in Carried /\ Carries(pc[h], local[h])
    BY DEF BillTypes, HandlerTypes
  <1>1. /\ pc[h] \in EventAwaits /\ e # None /\ e \in Events /\ e.sub \in Subs
        /\ local[h].todo = {}
        /\ e.type = "subscription" => e.status \in SubStatus
        /\ e.type = "checkout" => e.old \in Subs \cup {None}
        /\ e.type \in {"paid", "failed"} => e.invoice \in Invoices
    <2>1. pc[h] \in EventAwaits
      BY DEF Delivery, SubRegistration, SubDealership, NewDealership, NewRegistration, CancelOld,
         InvoiceDealership, InvoiceRegistration, RecordPayment, CreateExpense, LinkExpense,
         AgainRegistration, AgainDealership, EventAwaits, InvoiceAwaits
    <2>2. QED
      BY <1>0, <2>1, EventType DEF Carries
  \* A step that answers.
  <1>2. ASSUME Done(h), RowTypes', StripeTypes'
        PROVE  /\ BillTypes' /\ Elsewhere(h)
               /\ pc'[h] = "idle" /\ local'[h] = NoLocals
    <2>1. At(h, "idle", NoLocals) /\ UNCHANGED <<orderly, crashes>> /\ handled' \in Nat
      BY <1>0, <1>2, DoneStep
    <2>2. QED
      BY <1>0, <1>2, <2>1, TypesFrom DEF At
  \* A step that goes on.
  <1>3. ASSUME NEW await \in EventAwaits, NEW c \in Carried, At(h, await, c), c.event = e,
               UNCHANGED history, RowTypes', StripeTypes'
        PROVE  /\ BillTypes' /\ Elsewhere(h) /\ pc'[h] \in EventAwaits
               /\ local'[h].event = e /\ local'[h].todo = {}
    <2>1. local'[h] = c /\ pc'[h] = await /\ Carries(await, c) /\ Elsewhere(h)
      BY <1>3 DEF At
    <2>2. QED
      BY <1>0, <1>3, <2>1, TypesFrom DEF history, Carries
  <1>4. ASSUME NEW await \in EventAwaits, Carries(await, local[h]), Goto(h, await),
               UNCHANGED history, RowTypes', StripeTypes'
        PROVE  /\ BillTypes' /\ Elsewhere(h) /\ pc'[h] \in EventAwaits
               /\ local'[h].event = e /\ local'[h].todo = {}
    BY <1>0, <1>3, <1>4, GotoStep DEF Awaits
  <1>5. ASSUME UNCHANGED atStripe PROVE StripeTypes'
    BY <1>0, <1>5 DEF atStripe, StripeTypes
  <1>6. ASSUME NEW await \in EventAwaits, pc[h] \in EventAwaits,
               await \in {"sub_dealership"} => pc[h] = "sub_registration",
               await = "new_registration" => pc[h] = "new_dealership",
               await = "cancel_old" => pc[h] = "new_registration" /\ e.old \notin {None, e.sub},
               await \in {"registration", "record"} => pc[h] \in InvoiceAwaits,
               await \in {"link"} => pc[h] = "expense",
               await = "again_dealership" => pc[h] = "again_registration",
               await \notin {"sub_registration", "new_dealership", "dealership", "expense",
                            "again_registration"}
        PROVE  Carries(await, local[h])
    BY <1>0, <1>6 DEF Carries, EventAwaits, InvoiceAwaits
  <1>7. /\ dealership \in DealershipRow /\ registration \in Row
        /\ payment \in [Invoices -> [status : InvoiceStatus, linked : BOOLEAN]]
        /\ expenses \in [Invoices -> Nat]
    BY <1>0 DEF RowTypes
  <1>8. \A status \in SubStatus : /\ ServiceStatus(status) \in {"active", "payment_failed", "canceled"}
                                  /\ PayStatus(status) \in PayStates
    BY DEF SubStatus, ServiceStatus, PayStatus, PayStates
  <1>9. CASE SubRegistration(h)
    <2>1. registration' \in Row
      BY <1>0, <1>1, <1>8, <1>9 DEF SubRegistration, Row, Carries, PayStates
    <2>2. RowTypes' /\ UNCHANGED <<atStripe, history>> /\ Goto(h, "sub_dealership")
      BY <1>7, <1>9, <2>1 DEF SubRegistration, RowTypes
    <2>3. Carries("sub_dealership", local[h])
      BY <1>1, <1>6, <1>9 DEF SubRegistration, EventAwaits, InvoiceAwaits
    <2>4. QED
      BY <1>1, <1>4, <1>5, <1>9, <2>2, <2>3 DEF EventAwaits
  <1>10. CASE SubDealership(h)
    <2> DEFINE row == [dealership EXCEPT !.status = ServiceStatus(e.status), !.pay = PayStatus(e.status)]
    <2>1. ServiceStatus(e.status) \in {"active", "payment_failed", "canceled"}
          /\ PayStatus(e.status) \in PayStates
      BY <1>0, <1>1, <1>8, <1>10 DEF SubDealership, Carries
    <2>2. row \in DealershipRow
      BY <1>7, <2>1 DEF DealershipRow
    <2>3. dealership' = [row EXCEPT !.sub = e.sub]
      BY <1>10 DEF SubDealership
    <2>4. dealership' \in DealershipRow
      <3> HIDE DEF row
      <3> QED
        BY <1>1, <2>2, <2>3 DEF DealershipRow
    <2>5. RowTypes' /\ UNCHANGED atStripe /\ Done(h)
      BY <1>7, <1>10, <2>4 DEF SubDealership, RowTypes
    <2>6. QED
      BY <1>1, <1>2, <1>5, <2>5
  <1>11. CASE NewDealership(h)
    <2>1. dealership' \in DealershipRow
      BY <1>1, <1>7, <1>11 DEF NewDealership, DealershipRow, PayStates
    <2>2. RowTypes' /\ UNCHANGED <<atStripe, history>> /\ Goto(h, "new_registration")
      BY <1>7, <1>11, <2>1 DEF NewDealership, RowTypes
    <2>3. Carries("new_registration", local[h])
      BY <1>1, <1>6, <1>11 DEF NewDealership, EventAwaits, InvoiceAwaits
    <2>4. QED
      BY <1>1, <1>4, <1>5, <1>11, <2>2, <2>3 DEF EventAwaits
  <1>12. CASE NewRegistration(h)
    <2>1. registration' \in Row
      BY <1>1, <1>12 DEF NewRegistration, Row, PayStates
    <2>2. RowTypes' /\ UNCHANGED atStripe
      BY <1>7, <1>12, <2>1 DEF NewRegistration, RowTypes
    <2>3. CASE Done(h)
      BY <1>1, <1>2, <1>5, <2>2, <2>3
    <2>4. CASE Goto(h, "cancel_old") /\ UNCHANGED history /\ e.old \notin {None, e.sub}
      <3>1. Carries("cancel_old", local[h])
        BY <1>1, <1>6, <1>12, <2>4 DEF NewRegistration, EventAwaits, InvoiceAwaits
      <3>2. QED
        BY <1>1, <1>4, <1>5, <2>2, <2>4, <3>1 DEF EventAwaits
    <2>5. QED
      BY <1>12, <2>3, <2>4 DEF NewRegistration
  <1>13. CASE CancelOld(h)
    <2>1. e.old \in Subs /\ Done(h) /\ UNCHANGED rows
      BY <1>0, <1>1, <1>13 DEF CancelOld, Carries
    <2>2. StripeTypes'
      <3>1. CASE UNCHANGED <<stripe, log>>
        BY <1>0, <1>13, <3>1 DEF CancelOld, StripeTypes
      <3>2. CASE /\ Len(log) < MaxLog /\ stripe' = [stripe EXCEPT ![e.old] = "canceled"]
                 /\ log' = Append(log, SubscriptionEvent(e.old, "canceled"))
        <4>1. SubscriptionEvent(e.old, "canceled") \in Events
          BY <2>1 DEF SubscriptionEvent, Events, SubStatus
        <4>2. log' \in Seq(Events) /\ Len(log') = Len(log) + 1
          BY <1>0, <3>2, <4>1 DEF StripeTypes
        <4>3. stripe' \in [Subs -> SubStatus] /\ billed' = billed
          BY <1>0, <1>13, <2>1, <3>2 DEF CancelOld, StripeTypes, SubStatus
        <4>4. QED
          BY <1>0, <3>2, <4>2, <4>3, BillingAssumption DEF StripeTypes
      <3>3. QED
        BY <1>13, <3>1, <3>2 DEF CancelOld
    <2>3. RowTypes'
      BY <1>7, <2>1 DEF rows, RowTypes
    <2>4. QED
      BY <1>1, <1>2, <1>13, <2>1, <2>2, <2>3
  <1>14. CASE InvoiceDealership(h)
    <2>1. dealership' \in DealershipRow
      BY <1>7, <1>14, StandingType DEF InvoiceDealership, Failed
    <2>2. RowTypes' /\ UNCHANGED <<atStripe, history>> /\ Goto(h, "registration")
      BY <1>7, <1>14, <2>1 DEF InvoiceDealership, RowTypes
    <2>3. Carries("registration", local[h])
      BY <1>1, <1>6, <1>14 DEF InvoiceDealership, EventAwaits, InvoiceAwaits
    <2>4. QED
      BY <1>1, <1>4, <1>5, <1>14, <2>2, <2>3 DEF EventAwaits, InvoiceAwaits
  <1>15. CASE InvoiceRegistration(h)
    <2>1. registration' \in Row
      BY <1>7, <1>15, StandingType DEF InvoiceRegistration, Failed
    <2>2. RowTypes' /\ UNCHANGED <<atStripe, history>> /\ Goto(h, "record")
      BY <1>7, <1>15, <2>1 DEF InvoiceRegistration, RowTypes
    <2>3. Carries("record", local[h])
      BY <1>1, <1>6, <1>15 DEF InvoiceRegistration, EventAwaits, InvoiceAwaits
    <2>4. QED
      BY <1>1, <1>4, <1>5, <1>15, <2>2, <2>3 DEF EventAwaits, InvoiceAwaits
  <1>16. CASE RecordPayment(h)
    <2> DEFINE await == IF Failed(h) THEN "again_registration" ELSE "expense"
               c == [local[h] EXCEPT !.linked = payment[e.invoice].linked]
    <2>1. /\ e.invoice \in Invoices /\ e.type \in {"paid", "failed"}
          /\ pc' = [pc EXCEPT ![h] = await] /\ local' = [local EXCEPT ![h] = c]
      BY <1>0, <1>1, <1>16 DEF RecordPayment, Carries, InvoiceAwaits, BillTypes, HandlerTypes
    <2>2. payment' \in [Invoices -> [status : InvoiceStatus, linked : BOOLEAN]]
      BY <1>7, <1>16, <2>1 DEF RecordPayment, InvoiceStatus
    <2>3. RowTypes' /\ UNCHANGED <<atStripe, history>>
      BY <1>7, <1>16, <2>2 DEF RecordPayment, RowTypes
    <2>4. c \in Carried /\ c.event = e
      BY <1>0, <1>7, <2>1 DEF Carried
    <2>5. await \in EventAwaits /\ Carries(await, c)
      BY <1>0, <1>1, <2>1 DEF Carried, Carries, EventAwaits, InvoiceAwaits, Failed
    <2> HIDE DEF c, await
    <2>6. At(h, await, c)
      BY <2>1, <2>4, <2>5, MoveStep DEF Awaits
    <2>7. QED
      BY <1>1, <1>3, <1>5, <2>3, <2>4, <2>5, <2>6
  <1>17. CASE CreateExpense(h)
    <2>1. e.invoice \in Invoices
      BY <1>0, <1>1, <1>17 DEF CreateExpense, Carries, InvoiceAwaits
    <2>2. RowTypes' /\ UNCHANGED atStripe
      <3>1. expenses' \in [Invoices -> Nat]
        BY <1>7, <1>17, <2>1 DEF CreateExpense
      <3>2. QED
        BY <1>7, <1>17, <3>1 DEF CreateExpense, RowTypes
    <2>3. CASE Done(h)
      BY <1>1, <1>2, <1>5, <2>2, <2>3
    <2>4. CASE Goto(h, "link") /\ UNCHANGED history
      <3>1. Carries("link", local[h])
        BY <1>1, <1>6, <1>17 DEF CreateExpense, EventAwaits, InvoiceAwaits
      <3>2. QED
        BY <1>1, <1>4, <1>5, <2>2, <2>4, <3>1 DEF EventAwaits, InvoiceAwaits
    <2>5. QED
      BY <1>17, <2>3, <2>4 DEF CreateExpense
  <1>18. CASE LinkExpense(h)
    <2>1. e.invoice \in Invoices
      BY <1>0, <1>1, <1>18 DEF LinkExpense, Carries, InvoiceAwaits
    <2>2. payment' \in [Invoices -> [status : InvoiceStatus, linked : BOOLEAN]]
      BY <1>7, <1>18, <2>1 DEF LinkExpense
    <2>3. RowTypes' /\ UNCHANGED atStripe /\ Done(h)
      BY <1>7, <1>18, <2>2 DEF LinkExpense, RowTypes
    <2>4. QED
      BY <1>1, <1>2, <1>5, <2>3
  <1>19. CASE AgainRegistration(h)
    <2>1. RowTypes' /\ UNCHANGED atStripe
      <3>1. registration' \in Row
        BY <1>7, <1>19, StandingType DEF AgainRegistration
      <3>2. QED
        BY <1>7, <1>19, <3>1 DEF AgainRegistration, RowTypes
    <2>2. CASE Done(h)
      BY <1>1, <1>2, <1>5, <2>1, <2>2
    <2>3. CASE Goto(h, "again_dealership") /\ UNCHANGED history
      <3>1. Carries("again_dealership", local[h])
        BY <1>1, <1>6, <1>19 DEF AgainRegistration, EventAwaits, InvoiceAwaits
      <3>2. QED
        BY <1>1, <1>4, <1>5, <2>1, <2>3, <3>1 DEF EventAwaits, InvoiceAwaits
    <2>4. QED
      BY <1>19, <2>2, <2>3 DEF AgainRegistration
  <1>20. CASE AgainDealership(h)
    <2>1. dealership' \in DealershipRow
      BY <1>7, <1>20, StandingType DEF AgainDealership
    <2>2. RowTypes' /\ UNCHANGED atStripe /\ Done(h)
      BY <1>7, <1>20, <2>1 DEF AgainDealership, RowTypes
    <2>3. QED
      BY <1>1, <1>2, <1>5, <2>2
  <1>21. QED
    BY <1>9, <1>10, <1>11, <1>12, <1>13, <1>14, <1>15, <1>16, <1>17, <1>18, <1>19, <1>20 DEF Delivery

\* Where each step of a request for the page leads, and what is typed after it.
LEMMA PageTypes ==
  ASSUME BillTypes, NEW h \in Handlers, Page(h)
  PROVE  /\ BillTypes' /\ Elsewhere(h)
         /\ local[h].event = None /\ pc[h] \in PageAwaits
         /\ \/ Done(h) /\ pc'[h] = "idle" /\ local'[h] = NoLocals
            \/ UNCHANGED history /\ pc'[h] \in PageAwaits /\ local'[h].event = None
         /\ UNCHANGED <<atStripe, registration, expenses>>
  <1>0. /\ StripeTypes /\ RowTypes /\ handled \in Nat /\ orderly \in BOOLEAN
        /\ crashes \in 0..MaxCrashes /\ local[h] \in Carried /\ Carries(pc[h], local[h])
    BY DEF BillTypes, HandlerTypes
  <1>1. /\ pc[h] \in PageAwaits
        /\ UNCHANGED <<atStripe, registration, expenses>>
    BY DEF Page, ListSubscriptions, LinkSubscription, RetrieveSubscription, SyncDealership,
       BackfillRead, Backfill, PageAwaits, rows
  <1>2. local[h].event = None
    BY <1>0, <1>1 DEF Carries, PageAwaits, EventAwaits, InvoiceAwaits
  <1>3. StripeTypes'
    BY <1>0, <1>1 DEF atStripe, StripeTypes
  <1>4. ASSUME Done(h), RowTypes'
        PROVE  /\ BillTypes' /\ Elsewhere(h)
               /\ pc'[h] = "idle" /\ local'[h] = NoLocals
    <2>1. At(h, "idle", NoLocals) /\ UNCHANGED <<orderly, crashes>> /\ handled' \in Nat
      BY <1>0, <1>4, DoneStep
    <2>2. QED
      BY <1>0, <1>3, <1>4, <2>1, TypesFrom DEF At
  <1>5. ASSUME NEW await \in PageAwaits, NEW c \in Carried, At(h, await, c), c.event = None,
               UNCHANGED history, RowTypes'
        PROVE  BillTypes' /\ Elsewhere(h) /\ pc'[h] \in PageAwaits /\ local'[h].event = None
    <2>1. local'[h] = c /\ pc'[h] = await /\ Elsewhere(h)
      BY <1>5 DEF At
    <2>2. QED
      BY <1>0, <1>3, <1>5, <2>1, TypesFrom DEF history
  <1>6. ASSUME NEW await \in PageAwaits, NEW c \in Carried, c.event = None,
               await \in {"list", "link_sub"} => c.next \in {"retrieve", "backfill"},
               await \in {"link_sub", "retrieve", "sync"} => c.sub # None
        PROVE  Carries(await, c) /\ await \in Awaits
    BY <1>6 DEF Carries, PageAwaits, EventAwaits, InvoiceAwaits, Awaits
  <1>7. /\ dealership \in DealershipRow /\ registration \in Row
        /\ payment \in [Invoices -> [status : InvoiceStatus, linked : BOOLEAN]]
        /\ expenses \in [Invoices -> Nat]
        /\ stripe \in [Subs -> SubStatus]
        /\ billed \in [Invoices -> [status : InvoiceStatus, sub : Subs \cup {None}]]
    BY <1>0 DEF RowTypes, StripeTypes
  <1>8. \A status \in SubStatus : /\ ServiceStatus(status) \in {"active", "payment_failed", "canceled"}
                                  /\ PayStatus(status) \in PayStates
    BY DEF SubStatus, ServiceStatus, PayStatus, PayStates
  <1>9. UNCHANGED rows => RowTypes'
    BY <1>7 DEF rows, RowTypes
  <1>10. CASE ListSubscriptions(h)
    <2>1. UNCHANGED <<rows, history>> /\ local[h].next \in {"retrieve", "backfill"}
      BY <1>0, <1>10 DEF ListSubscriptions, Carries
    <2>2. CASE Goto(h, "backfill")
      <3>1. Carries("backfill", local[h])
        BY <1>0, <1>2, <1>6 DEF PageAwaits
      <3>2. At(h, "backfill", local[h])
        BY <2>2, <3>1, GotoStep DEF Awaits, PageAwaits
      <3>3. QED
        BY <1>0, <1>1, <1>2, <1>5, <1>9, <2>1, <3>2 DEF PageAwaits
    <2>3. CASE /\ \E s \in Linkable : local' = [local EXCEPT ![h].sub = s]
               /\ pc' = [pc EXCEPT ![h] = "link_sub"]
      <3>1. PICK s \in Linkable : local' = [local EXCEPT ![h].sub = s]
        BY <2>3
      <3>2. s \in Subs /\ s # None
        BY BillingAssumption DEF Linkable
      <3> DEFINE c == [local[h] EXCEPT !.sub = s]
      <3>3. c \in Carried /\ c.event = None /\ c.next \in {"retrieve", "backfill"} /\ c.sub # None
        BY <1>0, <1>2, <2>1, <3>2 DEF Carried
      <3>4. local' = [local EXCEPT ![h] = c]
        BY <3>1 DEF BillTypes, HandlerTypes
      <3> HIDE DEF c
      <3>5. At(h, "link_sub", c)
        BY <1>6, <2>3, <3>3, <3>4, MoveStep DEF PageAwaits
      <3>6. QED
        BY <1>1, <1>2, <1>5, <1>9, <2>1, <3>3, <3>5 DEF PageAwaits
    <2>4. QED
      BY <1>10, <2>2, <2>3 DEF ListSubscriptions
  <1>11. CASE LinkSubscription(h)
    <2>1. /\ local[h].next \in {"retrieve", "backfill"} /\ local[h].sub # None
          /\ UNCHANGED <<history, payment>>
      BY <1>0, <1>11 DEF LinkSubscription, Carries
    <2>2. dealership' \in DealershipRow
      BY <1>0, <1>7, <1>11 DEF LinkSubscription, Carried, DealershipRow
    <2>3. RowTypes'
      BY <1>1, <1>7, <2>1, <2>2 DEF RowTypes
    <2> DEFINE c == [local[h] EXCEPT !.pay = dealership.pay]
    <2>4. c \in Carried /\ c.event = None /\ c.sub # None
      BY <1>0, <1>2, <1>7, <2>1 DEF Carried, DealershipRow
    <2>5. local' = [local EXCEPT ![h] = c] /\ pc' = [pc EXCEPT ![h] = local[h].next]
      BY <1>11 DEF LinkSubscription, BillTypes, HandlerTypes
    <2> HIDE DEF c
    <2>6. At(h, local[h].next, c)
      BY <1>6, <2>1, <2>4, <2>5, MoveStep DEF PageAwaits
    <2>7. QED
      BY <1>1, <1>2, <1>5, <2>1, <2>3, <2>4, <2>6 DEF PageAwaits
  <1>12. CASE RetrieveSubscription(h)
    <2>1. local[h].sub \in Subs /\ UNCHANGED <<rows, history>>
      BY <1>0, <1>12 DEF RetrieveSubscription, Carries, Carried
    <2> DEFINE c == [local[h] EXCEPT !.status = stripe[local[h].sub]]
    <2>2. c \in Carried /\ c.event = None /\ c.sub # None
      BY <1>0, <1>2, <1>7, <2>1, BillingAssumption DEF Carried
    <2>3. local' = [local EXCEPT ![h] = c] /\ pc' = [pc EXCEPT ![h] = "sync"]
      BY <1>12 DEF RetrieveSubscription, BillTypes, HandlerTypes
    <2> HIDE DEF c
    <2>4. At(h, "sync", c)
      BY <1>6, <2>2, <2>3, MoveStep DEF PageAwaits
    <2>5. QED
      BY <1>1, <1>2, <1>5, <1>9, <2>1, <2>2, <2>4 DEF PageAwaits
  <1>13. CASE SyncDealership(h)
    <2> DEFINE status == local[h].status
               paid == IF status = "canceled" THEN local[h].pay ELSE PayStatus(status)
               row == [dealership EXCEPT !.status = ServiceStatus(status), !.sub = local[h].sub]
    <2>1. /\ ServiceStatus(status) \in {"active", "payment_failed", "canceled"}
          /\ paid \in PayStates /\ local[h].sub \in Subs \cup {None}
      BY <1>0, <1>8 DEF Carried
    <2>2. row \in DealershipRow
      BY <1>7, <2>1 DEF DealershipRow
    <2>3. dealership' = [row EXCEPT !.pay = paid]
      BY <1>13 DEF SyncDealership
    <2>4. dealership' \in DealershipRow
      <3> HIDE DEF row, paid
      <3> QED
        BY <2>1, <2>2, <2>3 DEF DealershipRow
    <2>5. RowTypes' /\ UNCHANGED history /\ Goto(h, "backfill")
      BY <1>1, <1>7, <1>13, <2>4 DEF SyncDealership, RowTypes
    <2>6. At(h, "backfill", local[h])
      BY <1>0, <1>2, <1>6, <2>5, GotoStep DEF PageAwaits
    <2>7. QED
      BY <1>0, <1>1, <1>2, <1>5, <2>5, <2>6 DEF PageAwaits
  <1>14. CASE BackfillRead(h)
    <2>1. UNCHANGED rows
      BY <1>14 DEF BackfillRead
    <2>2. CASE Done(h)
      BY <1>1, <1>2, <1>4, <1>9, <2>1, <2>2
    <2>3. CASE ~Done(h)
      <3> DEFINE issued == {[invoice |-> i, status |-> billed[i].status] :
                              i \in {j \in Invoices : billed[j].status # "none"}}
                 c == [local[h] EXCEPT !.todo = issued]
      <3>1. issued \in SUBSET Todo
        BY <1>7 DEF Todo, InvoiceStatus
      <3>2. /\ local' = [local EXCEPT ![h].todo = issued]
            /\ pc' = [pc EXCEPT ![h] = "upsert"] /\ UNCHANGED history
        BY <1>14, <2>3 DEF BackfillRead
      <3>3. local' = [local EXCEPT ![h] = c]
        BY <3>2 DEF BillTypes, HandlerTypes
      <3> HIDE DEF issued
      <3>4. c \in Carried /\ c.event = None
        BY <1>0, <1>2, <3>1 DEF Carried
      <3> HIDE DEF c
      <3>5. At(h, "upsert", c)
        BY <1>6, <3>2, <3>3, <3>4, MoveStep DEF PageAwaits
      <3>6. QED
        BY <1>1, <1>2, <1>5, <1>9, <2>1, <3>2, <3>4, <3>5 DEF PageAwaits
    <2>4. QED
      BY <2>2, <2>3
  <1>15. CASE Backfill(h)
    <2>1. UNCHANGED dealership
      BY <1>15 DEF Backfill
    <2>2. CASE Done(h) /\ UNCHANGED payment
      <3>1. RowTypes'
        BY <1>1, <1>7, <2>1, <2>2 DEF RowTypes
      <3>2. QED
        BY <1>1, <1>2, <1>4, <2>2, <3>1
    <2>3. CASE \E t \in local[h].todo :
                 /\ payment' = [payment EXCEPT ![t.invoice].status = t.status]
                 /\ local' = [local EXCEPT ![h].todo = @ \ {t}]
                 /\ UNCHANGED <<pc, history>>
      <3>1. PICK t \in local[h].todo :
                 /\ payment' = [payment EXCEPT ![t.invoice].status = t.status]
                 /\ local' = [local EXCEPT ![h].todo = @ \ {t}]
                 /\ UNCHANGED <<pc, history>>
        BY <2>3
      <3>2. t \in Todo
        BY <1>0 DEF Carried
      <3>3. payment' \in [Invoices -> [status : InvoiceStatus, linked : BOOLEAN]]
        BY <1>7, <3>1, <3>2 DEF Todo, InvoiceStatus
      <3>4. RowTypes'
        BY <1>1, <1>7, <2>1, <3>3 DEF RowTypes
      <3> DEFINE c == [local[h] EXCEPT !.todo = local[h].todo \ {t}]
      <3>5. c \in Carried /\ c.event = None
        BY <1>0, <1>2 DEF Carried
      <3>6. local' = [local EXCEPT ![h] = c] /\ pc' = [pc EXCEPT ![h] = "upsert"]
        BY <1>15, <3>1 DEF Backfill, BillTypes, HandlerTypes
      <3> HIDE DEF c
      <3>7. At(h, "upsert", c)
        BY <1>6, <3>5, <3>6, MoveStep DEF PageAwaits
      <3>8. QED
        BY <1>1, <1>2, <1>5, <3>1, <3>4, <3>5, <3>7 DEF PageAwaits
    <2>4. QED
      BY <1>15, <2>2, <2>3 DEF Backfill
  <1>16. QED
    BY <1>10, <1>11, <1>12, <1>13, <1>14, <1>15 DEF Page

-----------------------------------------------------------------------------
(* Stripe's steps.                                                         *)

\* What Stripe does it reports: the log grows, and the new events are true.
Reported ==
  /\ StripeTypes' /\ Len(log) \in Nat /\ Len(log') \in Nat /\ Len(log) < Len(log')
  /\ \A n \in 1..Len(log) : log'[n] = log[n]
  /\ \A n \in Len(log) + 1..Len(log') : EventTrue(log[n])'
  /\ LastTrue(log[Len(log)])'
  /\ \A i \in Invoices, n \in Len(log) + 1..Len(log') :
       OnInvoice(log'[n], i) => Says(log'[n]) = billed'[i].status
  /\ \A i \in Invoices : billed'[i].status # billed[i].status =>
       \E n \in Len(log) + 1..Len(log') : OnInvoice(log'[n], i)
  /\ (\A s \in Subs : stripe[s] = "none") => log'[Len(log) + 1].type = "subscription"

\* What is over at Stripe stays over.
Final ==
  /\ \A s \in Subs : stripe[s] # "none" => stripe'[s] # "none"
  /\ \A s \in Subs : stripe[s] = "canceled" => stripe'[s] = "canceled"
  /\ \A i \in Invoices : billed[i].status = "paid" => billed'[i].status = "paid"

Business ==
  \/ \E s \in Subs : Subscribe(s) \/ CancelSubscription(s)
  \/ \E i \in Invoices : PaymentFails(i) \/ PaymentSucceeds(i)

LEMMA Sent ==
  ASSUME log \in Seq(Events), NEW events \in Seq(Events), events # <<>>, log' = log \o events
  PROVE  /\ log' \in Seq(Events) /\ Len(log) \in Nat /\ Len(log') \in Nat
         /\ Len(log) < Len(log') /\ Len(log') = Len(log) + Len(events)
         /\ \A n \in 1..Len(log) : log'[n] = log[n]
         /\ \A m \in 1..Len(events) : log'[Len(log) + m] = events[m]
         /\ \A n \in Len(log) + 1..Len(log') : \E m \in 1..Len(events) : n = Len(log) + m
  <1>1. /\ log' \in Seq(Events) /\ Len(log) \in Nat /\ Len(events) \in Nat /\ Len(events) > 0
        /\ Len(log') = Len(log) + Len(events)
    OBVIOUS
  <1>2. \A n \in 1..Len(log) : log'[n] = log[n]
    OBVIOUS
  <1>3. \A m \in 1..Len(events) : log'[Len(log) + m] = events[m]
    OBVIOUS
  <1>4. ASSUME NEW n \in Len(log) + 1..Len(log') PROVE \E m \in 1..Len(events) : n = Len(log) + m
    <2>1. n - Len(log) \in 1..Len(events) /\ n = Len(log) + (n - Len(log))
      BY <1>1, <1>4
    <2>2. QED
      BY <2>1
  <1>5. QED
    BY <1>1, <1>2, <1>3, <1>4

\* A list of true events, the last of which is the state of things.
LEMMA Reports ==
  ASSUME BillTypes, NEW events \in Seq(Events), events # <<>>, log' = log \o events,
         Len(log) + Len(events) <= MaxLog, stripe' \in [Subs -> SubStatus],
         billed' \in [Invoices -> [status : InvoiceStatus, sub : Subs \cup {None}]],
         \A m \in 1..Len(events) : EventTrue(events[m])',
         LastTrue(events[Len(events)])',
         \A i \in Invoices, m \in 1..Len(events) :
           OnInvoice(events[m], i) => Says(events[m]) = billed'[i].status,
         \A i \in Invoices : billed'[i].status # billed[i].status =>
           \E m \in 1..Len(events) : OnInvoice(events[m], i),
         (\A s \in Subs : stripe[s] = "none") => events[1].type = "subscription"
  PROVE  Reported
  <1>1. log \in Seq(Events) /\ Len(events) \in Nat /\ Len(events) > 0
    BY DEF BillTypes, StripeTypes
  <1>2. /\ log' \in Seq(Events) /\ Len(log) \in Nat /\ Len(log') \in Nat
        /\ Len(log) < Len(log') /\ Len(log') = Len(log) + Len(events)
        /\ \A n \in 1..Len(log) : log'[n] = log[n]
        /\ \A m \in 1..Len(events) : log'[Len(log) + m] = events[m]
        /\ \A n \in Len(log) + 1..Len(log') : \E m \in 1..Len(events) : n = Len(log) + m
    BY <1>1, Sent
  <1>3. StripeTypes'
    BY <1>2 DEF StripeTypes
  <1>4. ASSUME NEW n \in Len(log) + 1..Len(log') PROVE EventTrue(log[n])'
    <2>1. PICK m \in 1..Len(events) : n = Len(log) + m
      BY <1>2
    <2>2. log'[n] = events[m] /\ EventTrue(events[m])'
      BY <1>2, <2>1
    <2>3. QED
      BY <2>2 DEF EventTrue
  <1>5. LastTrue(log[Len(log)])'
    <2>1. log'[Len(log')] = events[Len(events)]
      BY <1>1, <1>2
    <2>2. QED
      BY <2>1 DEF LastTrue
  <1>6. \A i \in Invoices, n \in Len(log) + 1..Len(log') :
          OnInvoice(log'[n], i) => Says(log'[n]) = billed'[i].status
    BY <1>2, SMTT(60)
  <1>7. ASSUME NEW i \in Invoices, billed'[i].status # billed[i].status
        PROVE  \E n \in Len(log) + 1..Len(log') : OnInvoice(log'[n], i)
    <2>1. PICK m \in 1..Len(events) : OnInvoice(events[m], i)
      BY <1>7
    <2>2. Len(log) + m \in Len(log) + 1..Len(log') /\ log'[Len(log) + m] = events[m]
      BY <1>2
    <2>3. QED
      BY <2>1, <2>2
  <1>8. log'[Len(log) + 1] = events[1]
    BY <1>1, <1>2
  <1>9. QED
    BY <1>2, <1>3, <1>4, <1>5, <1>6, <1>7, <1>8 DEF Reported

LEMMA EventMade ==
  ASSUME NEW s \in Subs
  PROVE  /\ \A status \in SubStatus : SubscriptionEvent(s, status) \in Events
         /\ \A i \in Invoices : \A type \in {"paid", "failed"} : InvoiceEvent(i, s, type) \in Events
         /\ \A old \in Subs \cup {None} : [type |-> "checkout", sub |-> s, old |-> old] \in Events
  BY DEF SubscriptionEvent, InvoiceEvent, Events

LEMMA BusinessStep ==
  ASSUME BillTypes, NamesInv, Business
  PROVE  Reported /\ Final /\ UNCHANGED <<rows, pc, local, history>>
  <1>0. /\ stripe \in [Subs -> SubStatus]
        /\ billed \in [Invoices -> [status : InvoiceStatus, sub : Subs \cup {None}]]
        /\ dealership.sub \in Subs \cup {None}
    BY DEF BillTypes, StripeTypes, RowTypes, DealershipRow
  <1>1. ASSUME NEW s \in Subs, Subscribe(s)
        PROVE  Reported /\ Final /\ UNCHANGED <<rows, pc, local, history>>
    <2>1. PICK old \in {None, dealership.sub} :
            /\ stripe[s] = "none" /\ stripe' = [stripe EXCEPT ![s] = "active"] /\ billed' = billed
            /\ Send(<<SubscriptionEvent(s, "active"), [type |-> "checkout", sub |-> s, old |-> old]>>)
      BY <1>1 DEF Subscribe
    <2>2. PICK a, b : a = SubscriptionEvent(s, "active") /\ b = [type |-> "checkout", sub |-> s, old |-> old]
      OBVIOUS
    <2>3. a \in Events /\ b \in Events
      BY <1>0, <2>1, <2>2, EventMade DEF SubStatus
    <2>4. stripe' \in [Subs -> SubStatus] /\ stripe'[s] = "active"
      BY <1>0, <2>1 DEF SubStatus
    <2>5. EventTrue(a)'
      BY <2>2, <2>4 DEF EventTrue, SubscriptionEvent
    <2>6. EventTrue(b)'
      <3>1. old # None => old \in Subs /\ stripe[old] # "none"
        BY <1>0, <2>1 DEF NamesInv, RowNames
      <3>2. old # None => stripe'[old] # "none"
        BY <1>0, <2>1, <3>1
      <3>3. QED
        BY <2>2, <2>4, <3>2 DEF EventTrue
    <2>7. LastTrue(b)'
      BY <2>2, <2>4 DEF LastTrue
    <2>8. \A i \in Invoices : ~OnInvoice(a, i) /\ ~OnInvoice(b, i)
      BY <2>2 DEF OnInvoice, SubscriptionEvent
    <2>9. a.type = "subscription"
      BY <2>2 DEF SubscriptionEvent
    <2>10. <<a, b>> \in Seq(Events) /\ <<a, b>> # <<>> /\ Len(<<a, b>>) = 2 /\ 1..2 = {1, 2}
           /\ <<a, b>>[1] = a /\ <<a, b>>[2] = b
      BY <2>3
    <2>11. /\ log' = log \o <<a, b>> /\ Len(log) + Len(<<a, b>>) <= MaxLog
           /\ UNCHANGED <<rows, pc, local, history>>
      BY <2>1, <2>2 DEF Send
    <2>12. Reported
      <3>1. \A m \in 1..Len(<<a, b>>) : EventTrue(<<a, b>>[m])'
        BY <2>5, <2>6, <2>10
      <3>2. LastTrue(<<a, b>>[Len(<<a, b>>)])'
        BY <2>7, <2>10
      <3>3. \A i \in Invoices, m \in 1..Len(<<a, b>>) : ~OnInvoice(<<a, b>>[m], i)
        BY <2>8, <2>10
      <3>4. QED
        BY <1>0, <2>1, <2>4, <2>9, <2>10, <2>11, <3>1, <3>2, <3>3, Reports
    <2>13. Final
      BY <1>0, <2>1 DEF Final
    <2>14. QED
      BY <2>11, <2>12, <2>13
  <1>2. ASSUME NEW s \in Subs, CancelSubscription(s)
        PROVE  Reported /\ Final /\ UNCHANGED <<rows, pc, local, history>>
    <2>1. /\ stripe[s] \in Live /\ stripe' = [stripe EXCEPT ![s] = "canceled"] /\ billed' = billed
          /\ Send(<<SubscriptionEvent(s, "canceled")>>)
      BY <1>2 DEF CancelSubscription
    <2>2. PICK a : a = SubscriptionEvent(s, "canceled")
      OBVIOUS
    <2>3. a \in Events /\ a.type = "subscription"
      BY <2>2, EventMade DEF SubStatus, SubscriptionEvent
    <2>4. stripe' \in [Subs -> SubStatus] /\ stripe'[s] = "canceled"
      BY <1>0, <2>1 DEF SubStatus
    <2>5. EventTrue(a)' /\ LastTrue(a)'
      BY <2>2, <2>4 DEF EventTrue, LastTrue, SubscriptionEvent
    <2>6. \A i \in Invoices : ~OnInvoice(a, i)
      BY <2>2 DEF OnInvoice, SubscriptionEvent
    <2>7. <<a>> \in Seq(Events) /\ <<a>> # <<>> /\ Len(<<a>>) = 1 /\ 1..1 = {1} /\ <<a>>[1] = a
      BY <2>3
    <2>8. /\ log' = log \o <<a>> /\ Len(log) + Len(<<a>>) <= MaxLog
          /\ UNCHANGED <<rows, pc, local, history>>
      BY <2>1, <2>2 DEF Send
    <2>9. Reported
      <3>1. \A m \in 1..Len(<<a>>) : EventTrue(<<a>>[m])'
        BY <2>5, <2>7
      <3>2. LastTrue(<<a>>[Len(<<a>>)])'
        BY <2>5, <2>7
      <3>3. \A i \in Invoices, m \in 1..Len(<<a>>) : ~OnInvoice(<<a>>[m], i)
        BY <2>6, <2>7
      <3>4. QED
        BY <1>0, <2>1, <2>3, <2>4, <2>7, <2>8, <3>1, <3>2, <3>3, Reports
    <2>10. Final
      BY <1>0, <2>1 DEF Final, Live
    <2>11. QED
      BY <2>8, <2>9, <2>10
  <1>3. ASSUME NEW i \in Invoices, PaymentFails(i)
        PROVE  Reported /\ Final /\ UNCHANGED <<rows, pc, local, history>>
    <2>1. PICK s \in Subs :
            /\ stripe[s] \in Live
            /\ billed[i].status = "none" \/ billed[i] = [status |-> "open", sub |-> s]
            /\ stripe' = [stripe EXCEPT ![s] = "past_due"]
            /\ billed' = [billed EXCEPT ![i] = [status |-> "open", sub |-> s]]
            /\ Send(<<InvoiceEvent(i, s, "failed"), SubscriptionEvent(s, "past_due")>>)
      BY <1>3 DEF PaymentFails
    <2>2. PICK a, b : a = InvoiceEvent(i, s, "failed") /\ b = SubscriptionEvent(s, "past_due")
      OBVIOUS
    <2>3. a \in Events /\ b \in Events
      BY <2>2, EventMade DEF SubStatus
    <2>4. /\ stripe' \in [Subs -> SubStatus] /\ stripe'[s] = "past_due" /\ stripe[s] # "none"
          /\ billed' \in [Invoices -> [status : InvoiceStatus, sub : Subs \cup {None}]]
          /\ billed'[i].status = "open"
          /\ \A j \in Invoices : j # i => billed'[j] = billed[j]
      BY <1>0, <2>1 DEF SubStatus, InvoiceStatus, Live
    <2>5. EventTrue(a)'
      BY <2>2, <2>4 DEF EventTrue, InvoiceEvent
    <2>6. EventTrue(b)' /\ LastTrue(b)'
      BY <2>2, <2>4 DEF EventTrue, LastTrue, SubscriptionEvent
    <2>7. \A j \in Invoices : /\ OnInvoice(a, j) <=> j = i
                              /\ ~OnInvoice(b, j)
      BY <2>2 DEF OnInvoice, InvoiceEvent, SubscriptionEvent
    <2>8. Says(a) = "open"
      BY <2>2 DEF Says, InvoiceEvent
    <2>9. <<a, b>> \in Seq(Events) /\ <<a, b>> # <<>> /\ Len(<<a, b>>) = 2 /\ 1..2 = {1, 2}
          /\ <<a, b>>[1] = a /\ <<a, b>>[2] = b
      BY <2>3
    <2>10. /\ log' = log \o <<a, b>> /\ Len(log) + Len(<<a, b>>) <= MaxLog
           /\ UNCHANGED <<rows, pc, local, history>>
      BY <2>1, <2>2 DEF Send
    <2>11. Reported
      <3>1. \A m \in 1..Len(<<a, b>>) : EventTrue(<<a, b>>[m])'
        BY <2>5, <2>6, <2>9
      <3>2. LastTrue(<<a, b>>[Len(<<a, b>>)])'
        BY <2>6, <2>9
      <3>3. \A j \in Invoices, m \in 1..Len(<<a, b>>) :
              OnInvoice(<<a, b>>[m], j) => Says(<<a, b>>[m]) = billed'[j].status
        BY <2>4, <2>7, <2>8, <2>9
      <3>4. \A j \in Invoices : billed'[j].status # billed[j].status =>
              \E m \in 1..Len(<<a, b>>) : OnInvoice(<<a, b>>[m], j)
        BY <2>4, <2>7, <2>9
      <3>5. ~(\A t \in Subs : stripe[t] = "none")
        BY <2>4
      <3>6. QED
        BY <2>4, <2>9, <2>10, <3>1, <3>2, <3>3, <3>4, <3>5, Reports
    <2>12. Final
      BY <1>0, <2>1, <2>4 DEF Final, Live
    <2>13. QED
      BY <2>10, <2>11, <2>12
  <1>4. ASSUME NEW i \in Invoices, PaymentSucceeds(i)
        PROVE  Reported /\ Final /\ UNCHANGED <<rows, pc, local, history>>
    <2>1. PICK s \in Subs :
            /\ stripe[s] \in Live
            /\ billed[i].status = "none" \/ billed[i] = [status |-> "open", sub |-> s]
            /\ stripe' = [stripe EXCEPT ![s] = "active"]
            /\ billed' = [billed EXCEPT ![i] = [status |-> "paid", sub |-> s]]
            /\ Send(<<InvoiceEvent(i, s, "paid"), InvoiceEvent(i, s, "paid")>>
                      \o IF stripe[s] = "past_due" THEN <<SubscriptionEvent(s, "active")>> ELSE <<>>)
      BY <1>4 DEF PaymentSucceeds
    <2>2. PICK a, b : a = InvoiceEvent(i, s, "paid") /\ b = SubscriptionEvent(s, "active")
      OBVIOUS
    <2>3. a \in Events /\ b \in Events
      BY <2>2, EventMade DEF SubStatus
    <2>4. /\ stripe' \in [Subs -> SubStatus] /\ stripe'[s] = "active" /\ stripe[s] # "none"
          /\ billed' \in [Invoices -> [status : InvoiceStatus, sub : Subs \cup {None}]]
          /\ billed'[i].status = "paid"
          /\ \A j \in Invoices : j # i => billed'[j] = billed[j]
      BY <1>0, <2>1 DEF SubStatus, InvoiceStatus, Live
    <2>5. EventTrue(a)' /\ LastTrue(a)'
      BY <2>2, <2>4 DEF EventTrue, LastTrue, InvoiceEvent
    <2>6. EventTrue(b)' /\ LastTrue(b)'
      BY <2>2, <2>4 DEF EventTrue, LastTrue, SubscriptionEvent
    <2>7. \A j \in Invoices : /\ OnInvoice(a, j) <=> j = i
                              /\ ~OnInvoice(b, j)
      BY <2>2 DEF OnInvoice, InvoiceEvent, SubscriptionEvent
    <2>8. Says(a) = "paid"
      BY <2>2 DEF Says, InvoiceEvent
    <2>9. PICK events : events \in {<<a, a>> \o <<b>>, <<a, a>> \o <<>>} /\ Send(events)
      BY <2>1, <2>2
    <2>10. /\ events \in Seq(Events) /\ events # <<>> /\ Len(events) \in {2, 3}
           /\ \A m \in 1..Len(events) : events[m] \in {a, b}
           /\ events[1] = a /\ 1 \in 1..Len(events) /\ events[Len(events)] \in {a, b}
      <3>0. /\ <<a, a>> \in Seq(Events) /\ Len(<<a, a>>) = 2
            /\ <<a, a>>[1] = a /\ <<a, a>>[2] = a
        BY <2>3
      <3>1. CASE events = <<a, a>> \o <<b>>
        <4>1. <<b>> \in Seq(Events) /\ Len(<<b>>) = 1 /\ <<b>>[1] = b
          BY <2>3
        <4>2. /\ events \in Seq(Events) /\ Len(events) = 3
              /\ events[1] = a /\ events[2] = a /\ events[3] = b
          BY <3>0, <3>1, <4>1
        <4>3. events # <<>> /\ 1..3 = {1, 2, 3}
          BY <4>2
        <4>4. QED
          BY <4>2, <4>3
      <3>2. CASE events = <<a, a>> \o <<>>
        <4>1. /\ events \in Seq(Events) /\ Len(events) = 2
              /\ events[1] = a /\ events[2] = a
          BY <3>0, <3>2
        <4>2. events # <<>> /\ 1..2 = {1, 2}
          BY <4>1
        <4>3. QED
          BY <4>1, <4>2
      <3>3. QED
        BY <2>9, <3>1, <3>2
    <2>11. /\ log' = log \o events /\ Len(log) + Len(events) <= MaxLog
           /\ UNCHANGED <<rows, pc, local, history>>
      BY <2>9 DEF Send
    <2>12. Reported
      <3>1. ASSUME NEW m \in 1..Len(events) PROVE EventTrue(events[m])'
        <4>1. events[m] = a \/ events[m] = b
          BY <2>10
        <4>2. QED
          BY <2>5, <2>6, <4>1 DEF EventTrue
      <3>2. LastTrue(events[Len(events)])'
        <4>1. events[Len(events)] = a \/ events[Len(events)] = b
          BY <2>10
        <4>2. QED
          BY <2>5, <2>6, <4>1 DEF LastTrue
      <3>3. \A j \in Invoices, m \in 1..Len(events) :
              OnInvoice(events[m], j) => Says(events[m]) = billed'[j].status
        BY <2>4, <2>7, <2>8, <2>10
      <3>4. \A j \in Invoices : billed'[j].status # billed[j].status =>
              \E m \in 1..Len(events) : OnInvoice(events[m], j)
        BY <2>4, <2>7, <2>10
      <3>5. ~(\A t \in Subs : stripe[t] = "none")
        BY <2>4
      <3>6. QED
        BY <2>4, <2>10, <2>11, <3>1, <3>2, <3>3, <3>4, <3>5, Reports
    <2>13. Final
      BY <1>0, <2>1, <2>4 DEF Final, Live
    <2>14. QED
      BY <2>11, <2>12, <2>13
  <1>5. QED
    BY <1>1, <1>2, <1>3, <1>4 DEF Business

\* The upgrade's handler may have Stripe cancel the old subscription.
LEMMA CancelStep ==
  ASSUME BillTypes, NEW h \in Handlers, CancelOld(h)
  PROVE  /\ Reported \/ UNCHANGED atStripe
         /\ Final /\ UNCHANGED rows /\ Done(h)
  <1> DEFINE old == local[h].event.old
  <1>0. /\ stripe \in [Subs -> SubStatus] /\ old \in Subs
        /\ billed \in [Invoices -> [status : InvoiceStatus, sub : Subs \cup {None}]]
        /\ log \in Seq(Events) /\ Len(log) \in Nat /\ MaxLog \in Nat
    <2>1. pc[h] \in EventAwaits /\ Carries(pc[h], local[h])
      BY DEF CancelOld, EventAwaits, BillTypes
    <2>2. old \in Subs
      BY <2>1, EventType DEF CancelOld, Carries
    <2>3. QED
      BY <2>2, BillingAssumption DEF BillTypes, StripeTypes
  <1>1. CASE UNCHANGED <<stripe, log>>
    BY <1>1 DEF CancelOld, atStripe, Final
  <1>2. CASE /\ stripe[old] \in Live /\ Len(log) < MaxLog
             /\ stripe' = [stripe EXCEPT ![old] = "canceled"]
             /\ log' = Append(log, SubscriptionEvent(old, "canceled"))
    <2>1. PICK a, o : o = old /\ a = SubscriptionEvent(o, "canceled")
      OBVIOUS
    <2>2. a \in Events /\ a.type = "subscription" /\ o \in Subs
      BY <1>0, <2>1, EventMade DEF SubStatus, SubscriptionEvent
    <2>3. /\ stripe' \in [Subs -> SubStatus] /\ stripe'[o] = "canceled" /\ billed' = billed
          /\ stripe[o] # "none"
      BY <1>0, <1>2, <2>1 DEF SubStatus, CancelOld, Live
    <2>4. EventTrue(a)' /\ LastTrue(a)'
      BY <2>1, <2>3 DEF EventTrue, LastTrue, SubscriptionEvent
    <2>5. \A i \in Invoices : ~OnInvoice(a, i)
      BY <2>1 DEF OnInvoice, SubscriptionEvent
    <2>6. <<a>> \in Seq(Events) /\ <<a>> # <<>> /\ Len(<<a>>) = 1 /\ 1..1 = {1} /\ <<a>>[1] = a
      BY <2>2
    <2>7. log' = log \o <<a>> /\ Len(log) + Len(<<a>>) <= MaxLog
      <3>1. log' = Append(log, a) /\ Append(log, a) = log \o <<a>>
        BY <1>0, <1>2, <2>1, <2>2
      <3>2. QED
        BY <1>0, <1>2, <2>6, <3>1
    <2>8. Reported
      <3>1. \A m \in 1..Len(<<a>>) : EventTrue(<<a>>[m])'
        BY <2>4, <2>6
      <3>2. LastTrue(<<a>>[Len(<<a>>)])'
        BY <2>4, <2>6
      <3>3. \A i \in Invoices, m \in 1..Len(<<a>>) : ~OnInvoice(<<a>>[m], i)
        BY <2>5, <2>6
      <3>4. QED
        BY <1>0, <2>2, <2>3, <2>6, <2>7, <3>1, <3>2, <3>3, Reports
    <2>9. Final
      BY <1>0, <1>2, <2>3 DEF Final, Live
    <2>10. QED
      BY <2>8, <2>9 DEF CancelOld
  <1>3. QED
    BY <1>1, <1>2 DEF CancelOld

\* Every step of the backend but that one leaves Stripe alone.
LEMMA StripeSide ==
  ASSUME BillTypes, NamesInv,
         Business \/ SetAutoExpense \/ \E h \in Handlers : Turns(h) \/ Delivery(h) \/ Page(h)
  PROVE  Final /\ (Reported \/ UNCHANGED atStripe)
  <1>1. UNCHANGED atStripe => Final
    BY DEF atStripe, Final
  <1>2. CASE Business
    BY <1>2, BusinessStep
  <1>3. CASE SetAutoExpense
    BY <1>1, <1>3 DEF SetAutoExpense
  <1>4. ASSUME NEW h \in Handlers, Turns(h) \/ Delivery(h) \/ Page(h)
        PROVE  Final /\ (Reported \/ UNCHANGED atStripe)
    <2>1. CASE Turns(h)
      BY <1>1, <2>1, TurnTypes
    <2>2. CASE CancelOld(h)
      BY <2>2, CancelStep
    <2>3. CASE Delivery(h) /\ ~CancelOld(h)
      BY <1>1, <2>3, DeliveryTypes
    <2>4. CASE Page(h)
      BY <1>1, <2>4, PageTypes
    <2>5. QED
      BY <1>4, <2>1, <2>2, <2>3, <2>4
  <1>5. QED
    BY <1>2, <1>3, <1>4

\* A true event stays true.
LEMMA TrueStays ==
  ASSUME BillTypes, Final, NEW e \in Events, EventTrue(e)
  PROVE  EventTrue(e)'
  <1>1. /\ e.sub \in Subs
        /\ e.type = "checkout" => e.old \in Subs \cup {None}
        /\ e.type \in {"paid", "failed"} => e.invoice \in Invoices
    BY DEF Events
  <1>2. QED
    BY <1>1 DEF EventTrue, Final

LEMMA LogStep ==
  ASSUME BillTypes, LogInv, Final, Reported \/ UNCHANGED atStripe
  PROVE  LogInv'
  <1>1. CASE UNCHANGED atStripe
    BY <1>1 DEF atStripe, LogInv, EventTrue, LastTrue
  <1>2. CASE Reported
    <2>0. /\ Len(log) \in Nat /\ Len(log') \in Nat /\ Len(log) < Len(log')
          /\ log \in Seq(Events) /\ log' \in Seq(Events)
          /\ \A n \in 1..Len(log) : log'[n] = log[n] /\ n \in 1..Len(log')
          /\ \A n \in 1..Len(log') : n \in 1..Len(log) \/ n \in Len(log) + 1..Len(log')
          /\ Len(log') \in Len(log) + 1..Len(log')
      BY <1>2 DEF Reported, BillTypes, StripeTypes
    <2>1. ASSUME NEW n \in 1..Len(log') PROVE EventTrue(log[n])'
      <3>1. CASE n \in Len(log) + 1..Len(log')
        BY <1>2, <3>1 DEF Reported
      <3>2. CASE n \in 1..Len(log)
        <4>1. PICK e \in Events : e = log[n]
          BY <2>0, <3>2
        <4>2. EventTrue(e) /\ e = log'[n]
          BY <2>0, <3>2, <4>1 DEF LogInv
        <4>3. EventTrue(e)'
          BY <4>2, TrueStays
        <4>4. QED
          BY <4>2, <4>3 DEF EventTrue
      <3>3. QED
        BY <2>0, <3>1, <3>2
    <2>2. LastTrue(log[Len(log)])'
      BY <1>2 DEF Reported
    <2>3. ASSUME NEW i \in Invoices, NEW n \in 1..Len(log'), OnInvoice(log'[n], i)
          PROVE  \/ Says(log'[n]) = billed'[i].status
                 \/ \E m \in n + 1..Len(log') : OnInvoice(log'[m], i)
      <3>1. CASE n \in Len(log) + 1..Len(log')
        BY <1>2, <2>3, <3>1 DEF Reported
      <3>2. CASE n \in 1..Len(log)
        <4>1. OnInvoice(log[n], i) /\ log'[n] = log[n]
          BY <2>0, <2>3, <3>2
        <4>2. CASE Says(log[n]) = billed[i].status
          <5>1. CASE billed'[i].status = billed[i].status
            BY <4>1, <4>2, <5>1
          <5>2. CASE billed'[i].status # billed[i].status
            <6>1. PICK m \in Len(log) + 1..Len(log') : OnInvoice(log'[m], i)
              BY <1>2, <5>2 DEF Reported
            <6>2. m \in n + 1..Len(log')
              BY <2>0, <3>2
            <6>3. QED
              BY <6>1, <6>2
          <5>3. QED
            BY <5>1, <5>2
        <4>3. CASE \E m \in n + 1..Len(log) : OnInvoice(log[m], i)
          <5>1. PICK m \in n + 1..Len(log) : OnInvoice(log[m], i)
            BY <4>3
          <5>2. m \in 1..Len(log) /\ m \in n + 1..Len(log')
            BY <2>0, <3>2
          <5>3. QED
            BY <2>0, <5>1, <5>2
        <4>4. QED
          BY <3>2, <4>1, <4>2, <4>3 DEF LogInv
      <3>3. QED
        BY <2>0, <3>1, <3>2
    <2>4. QED
      BY <2>1, <2>2, <2>3 DEF LogInv
  <1>3. QED
    BY <1>1, <1>2

-----------------------------------------------------------------------------
(* The names in the rows and in what a request carries.                    *)

LEMMA NamedStays ==
  ASSUME BillTypes, Final, NEW g \in Handlers, Named(pc[g], local[g]),
         pc'[g] = pc[g], local'[g] = local[g]
  PROVE  Named(pc[g], local[g])'
  <1>1. local[g] \in Carried /\ Carries(pc[g], local[g])
    BY DEF BillTypes, HandlerTypes
  <1>2. ASSUME pc[g] \in {"link_sub", "retrieve", "sync"} PROVE local[g].sub \in Subs
    BY <1>1, <1>2 DEF Carried, Carries
  <1>3. ASSUME local[g].event # None PROVE EventTrue(local[g].event)'
    <2>1. PICK e \in Events : e = local[g].event
      BY <1>1, <1>3 DEF Carried
    <2>2. EventTrue(e)'
      BY <1>3, <2>1, TrueStays DEF Named
    <2>3. QED
      BY <2>1, <2>2 DEF EventTrue
  <1>4. QED
    BY <1>2, <1>3 DEF Named, Final

LEMMA RowNamesStay ==
  ASSUME BillTypes, RowNames, Final, UNCHANGED <<dealership, registration>>
  PROVE  RowNames'
  BY DEF BillTypes, RowTypes, DealershipRow, Row, RowNames, Final

LEMMA NamesFrom ==
  ASSUME BillTypes, NamesInv, Final, NEW h \in Handlers, Elsewhere(h), RowNames',
         Named(pc[h], local[h])'
  PROVE  NamesInv'
  <1>1. ASSUME NEW g \in Handlers PROVE Named(pc[g], local[g])'
    <2>1. CASE g = h
      BY <2>1
    <2>2. CASE g # h
      BY <2>2, NamedStays DEF Elsewhere, NamesInv
    <2>3. QED
      BY <2>1, <2>2
  <1>2. QED
    BY <1>1 DEF NamesInv

LEMMA NamesTurn ==
  ASSUME BillTypes, LogInv, NamesInv, NEW h \in Handlers, Turns(h)
  PROVE  NamesInv'
  <1>0. Final /\ RowNames' /\ Elsewhere(h) /\ BillTypes'
    BY TurnTypes, RowNamesStay DEF rows, atStripe, Final, NamesInv
  <1>1. stripe' = stripe /\ billed' = billed
    BY TurnTypes DEF atStripe
  <1>2. CASE Deliver(h)
    <2>1. PICK n \in 1..Len(log) :
            /\ pc' = [pc EXCEPT ![h] = FirstAwait[log[n].type]]
            /\ local' = [local EXCEPT ![h] = [NoLocals EXCEPT !.event = log[n]]]
      BY <1>2 DEF Deliver
    <2>2. PICK e \in Events : e = log[n] /\ EventTrue(e)
      BY DEF BillTypes, StripeTypes, LogInv
    <2>3. pc'[h] = FirstAwait[e.type] /\ local'[h].event = e
      BY <2>1, <2>2 DEF BillTypes, HandlerTypes, NoLocals
    <2>4. FirstAwait[e.type] \notin {"link_sub", "retrieve", "sync"}
      BY DEF FirstAwait, Events
    <2>5. EventTrue(e)'
      BY <1>0, <2>2, TrueStays
    <2>6. Named(pc[h], local[h])'
      BY <2>3, <2>4, <2>5 DEF Named, EventTrue
    <2>7. QED
      BY <1>0, <2>6, NamesFrom
  <1>3. CASE BillingRead(h)
    <2>1. PICK next \in {"retrieve", "backfill"} :
            /\ local' = [local EXCEPT ![h] = [NoLocals EXCEPT !.sub = dealership.sub,
                                               !.pay = dealership.pay, !.next = next]]
            /\ pc' = [pc EXCEPT ![h] = IF dealership.sub = None THEN "list" ELSE next]
      BY <1>3 DEF BillingRead
    <2>2. /\ pc'[h] = IF dealership.sub = None THEN "list" ELSE next
          /\ local'[h].sub = dealership.sub /\ local'[h].event = None
      BY <2>1 DEF BillTypes, HandlerTypes, NoLocals
    <2>3. Named(pc[h], local[h])'
      BY <1>1, <2>2 DEF Named, NamesInv, RowNames
    <2>4. QED
      BY <1>0, <2>3, NamesFrom
  <1>4. CASE Crash(h)
    <2>1. pc'[h] = "idle" /\ local'[h] = NoLocals
      BY <1>4 DEF Crash, BillTypes, HandlerTypes
    <2>2. Named(pc[h], local[h])'
      BY <2>1 DEF Named, NoLocals
    <2>3. QED
      BY <1>0, <2>2, NamesFrom
  <1>5. QED
    BY <1>2, <1>3, <1>4 DEF Turns

LEMMA StandingNames ==
  ASSUME NEW row, NEW failed, row \in Row \/ row \in DealershipRow
  PROVE  /\ SetStanding(row, failed).sub = row.sub
         /\ SetStanding(row, failed).status = IF failed THEN "payment_failed" ELSE "active"
         /\ SetStanding(row, failed).pay = IF failed THEN "behind" ELSE "on_time"
  <1>1. CASE row \in Row
    BY <1>1 DEF SetStanding, Row
  <1>2. CASE row \in DealershipRow
    BY <1>2 DEF SetStanding, DealershipRow
  <1>3. QED
    BY <1>1, <1>2

\* The standing each step of a delivery leaves in the rows.
LEMMA DeliveryRows ==
  ASSUME BillTypes, NEW h \in Handlers
  PROVE  LET e == local[h].event IN
         /\ SubRegistration(h) =>
              /\ dealership' = dealership /\ registration'.sub = e.sub
              /\ registration'.pay = PayStatus(e.status)
              /\ registration'.status = "canceled" => e.status = "canceled"
         /\ SubDealership(h) =>
              /\ registration' = registration /\ dealership'.sub = e.sub
              /\ dealership'.status = ServiceStatus(e.status) /\ dealership'.pay = PayStatus(e.status)
         /\ NewDealership(h) =>
              /\ registration' = registration /\ dealership'.sub = e.sub
              /\ dealership'.status = "active" /\ dealership'.pay = "on_time"
         /\ NewRegistration(h) =>
              /\ dealership' = dealership /\ registration'.sub = e.sub
              /\ registration'.status = "active" /\ registration'.pay = "on_time"
         /\ InvoiceDealership(h) =>
              /\ registration' = registration /\ dealership'.sub = dealership.sub
              /\ dealership'.status = IF Failed(h) THEN "payment_failed" ELSE "active"
              /\ dealership'.pay = IF Failed(h) THEN "behind" ELSE "on_time"
         /\ InvoiceRegistration(h) =>
              /\ dealership' = dealership /\ registration'.sub = registration.sub
              /\ registration'.status = IF Failed(h) THEN "payment_failed" ELSE "active"
              /\ registration'.pay = IF Failed(h) THEN "behind" ELSE "on_time"
         /\ AgainRegistration(h) =>
              /\ dealership' = dealership /\ registration'.sub = registration.sub
              /\ registration' = registration \/ registration'.status # "canceled"
         /\ AgainDealership(h) =>
              /\ registration' = registration /\ dealership'.sub = dealership.sub
              /\ dealership'.status = "payment_failed"
         /\ RecordPayment(h) \/ CreateExpense(h) \/ LinkExpense(h) \/ CancelOld(h) =>
              UNCHANGED <<dealership, registration>>
  <1>1. dealership \in DealershipRow /\ registration \in Row
    BY DEF BillTypes, RowTypes
  <1>2. SubRegistration(h) =>
              /\ dealership' = dealership /\ registration'.sub = local[h].event.sub
              /\ registration'.pay = PayStatus(local[h].event.status)
              /\ registration'.status = "canceled" => local[h].event.status = "canceled"
    BY DEF SubRegistration
  <1>3. SubDealership(h) =>
              /\ registration' = registration /\ dealership'.sub = local[h].event.sub
              /\ dealership'.status = ServiceStatus(local[h].event.status)
              /\ dealership'.pay = PayStatus(local[h].event.status)
    BY <1>1 DEF SubDealership, DealershipRow
  <1>4. NewDealership(h) =>
              /\ registration' = registration /\ dealership'.sub = local[h].event.sub
              /\ dealership'.status = "active" /\ dealership'.pay = "on_time"
    BY <1>1 DEF NewDealership, DealershipRow
  <1>5. NewRegistration(h) =>
              /\ dealership' = dealership /\ registration'.sub = local[h].event.sub
              /\ registration'.status = "active" /\ registration'.pay = "on_time"
    BY DEF NewRegistration
  <1>6. InvoiceDealership(h) =>
              /\ registration' = registration /\ dealership'.sub = dealership.sub
              /\ dealership'.status = IF Failed(h) THEN "payment_failed" ELSE "active"
              /\ dealership'.pay = IF Failed(h) THEN "behind" ELSE "on_time"
    BY <1>1, StandingNames DEF InvoiceDealership
  <1>7. InvoiceRegistration(h) =>
              /\ dealership' = dealership /\ registration'.sub = registration.sub
              /\ registration'.status = IF Failed(h) THEN "payment_failed" ELSE "active"
              /\ registration'.pay = IF Failed(h) THEN "behind" ELSE "on_time"
    BY <1>1, StandingNames DEF InvoiceRegistration
  <1>8. AgainRegistration(h) =>
              /\ dealership' = dealership /\ registration'.sub = registration.sub
              /\ registration' = registration \/ registration'.status # "canceled"
    BY <1>1, StandingNames DEF AgainRegistration
  <1>9. AgainDealership(h) =>
              /\ registration' = registration /\ dealership'.sub = dealership.sub
              /\ dealership'.status = "payment_failed"
    BY <1>1, StandingNames DEF AgainDealership
  <1>10. RecordPayment(h) \/ CreateExpense(h) \/ LinkExpense(h) \/ CancelOld(h) =>
              UNCHANGED <<dealership, registration>>
    BY DEF RecordPayment, CreateExpense, LinkExpense, CancelOld, rows
  <1>11. QED
    BY <1>2, <1>3, <1>4, <1>5, <1>6, <1>7, <1>8, <1>9, <1>10

LEMMA NamesDelivery ==
  ASSUME BillTypes, NamesInv, NEW h \in Handlers, Delivery(h)
  PROVE  NamesInv'
  <1>0. Final /\ BillTypes' /\ Elsewhere(h) /\ local[h].event # None /\ pc[h] \in EventAwaits
    BY DeliveryTypes, StripeSide
  <1>1. PICK e \in Events : e = local[h].event /\ EventTrue(e) /\ e.sub \in Subs
    BY <1>0, EventType DEF NamesInv, Named
  <1>2. EventTrue(e)' /\ stripe'[e.sub] # "none"
    BY <1>0, <1>1, TrueStays DEF EventTrue
  <1>3. Named(pc[h], local[h])'
    <2>1. CASE pc'[h] = "idle" /\ local'[h] = NoLocals
      BY <2>1 DEF Named, NoLocals
    <2>2. CASE pc'[h] \in EventAwaits /\ local'[h].event = local[h].event
      <3>1. pc'[h] \notin {"link_sub", "retrieve", "sync"}
        BY <2>2 DEF EventAwaits, InvoiceAwaits
      <3>2. QED
        BY <1>1, <1>2, <2>2, <3>1 DEF Named, EventTrue
    <2>3. QED
      BY <2>1, <2>2, DeliveryTypes
  <1>4. RowNames'
    <2>0. /\ dealership.sub \in Subs \cup {None} /\ registration.sub \in Subs \cup {None}
          /\ Carries(pc[h], local[h]) /\ None \notin Subs
      BY BillingAssumption DEF BillTypes, RowTypes, DealershipRow, Row
    <2>1. CASE SubRegistration(h)
      <3>1. e.type = "subscription"
        BY <1>1, <2>0, <2>1 DEF SubRegistration, Carries
      <3>2. e.status = "canceled" => stripe'[e.sub] = "canceled"
        BY <1>2, <3>1 DEF EventTrue
      <3>3. QED
        BY <1>0, <1>1, <1>2, <2>0, <2>1, <3>2, DeliveryRows DEF RowNames, NamesInv, Final
    <2>2. CASE SubDealership(h) \/ NewDealership(h)
      BY <1>0, <1>1, <1>2, <2>0, <2>2, DeliveryRows DEF RowNames, NamesInv, Final
    <2>3. CASE NewRegistration(h)
      BY <1>0, <1>1, <1>2, <2>0, <2>3, DeliveryRows DEF RowNames, NamesInv, Final
    <2>4. CASE InvoiceDealership(h) \/ AgainDealership(h)
      BY <1>0, <2>0, <2>4, DeliveryRows DEF RowNames, NamesInv, Final
    <2>5. CASE InvoiceRegistration(h) \/ AgainRegistration(h)
      BY <1>0, <2>0, <2>5, DeliveryRows DEF RowNames, NamesInv, Final
    <2>6. CASE RecordPayment(h) \/ CreateExpense(h) \/ LinkExpense(h) \/ CancelOld(h)
      BY <1>0, <2>6, DeliveryRows, RowNamesStay DEF NamesInv
    <2>7. QED
      BY <2>1, <2>2, <2>3, <2>4, <2>5, <2>6 DEF Delivery
  <1>5. QED
    BY <1>0, <1>3, <1>4, NamesFrom

LEMMA NamesPage ==
  ASSUME BillTypes, NamesInv, NEW h \in Handlers, Page(h)
  PROVE  NamesInv'
  <1>0. /\ Final /\ BillTypes' /\ Elsewhere(h)
        /\ stripe' = stripe /\ registration' = registration
        /\ (pc'[h] = "idle" /\ local'[h] = NoLocals) \/ local'[h].event = None
    BY PageTypes, StripeSide DEF atStripe
  <1>1. /\ Carries(pc[h], local[h]) /\ Named(pc[h], local[h]) /\ RowNames
        /\ pc \in [Handlers -> Awaits] /\ local \in [Handlers -> Carried] /\ local[h] \in Carried
        /\ dealership \in DealershipRow
    BY DEF BillTypes, HandlerTypes, RowTypes, NamesInv
  <1>2. ASSUME dealership' = dealership PROVE RowNames'
    BY <1>0, <1>2, RowNamesStay, <1>1
  <1>3. ASSUME pc'[h] \notin {"link_sub", "retrieve", "sync"} PROVE Named(pc[h], local[h])'
    BY <1>0, <1>3 DEF Named, NoLocals
  <1>4. CASE ListSubscriptions(h)
    <2>1. CASE Goto(h, "backfill")
      <3>1. pc'[h] = "backfill"
        BY <1>1, <2>1 DEF Goto
      <3>2. QED
        BY <1>0, <1>2, <1>3, <1>4, <3>1, NamesFrom DEF ListSubscriptions, rows
    <2>2. CASE /\ \E s \in Linkable : local' = [local EXCEPT ![h].sub = s]
               /\ pc' = [pc EXCEPT ![h] = "link_sub"]
      <3>1. PICK s \in Linkable : local' = [local EXCEPT ![h].sub = s]
        BY <2>2
      <3>2. stripe[s] # "none"
        BY DEF Linkable, Live
      <3>3. pc'[h] = "link_sub" /\ local'[h].sub = s
        BY <1>1, <2>2, <3>1 DEF Carried
      <3>4. Named(pc[h], local[h])'
        BY <1>0, <3>2, <3>3 DEF Named
      <3>5. QED
        BY <1>0, <1>2, <1>4, <3>4, NamesFrom DEF ListSubscriptions, rows
    <2>3. QED
      BY <1>4, <2>1, <2>2 DEF ListSubscriptions
  <1>5. CASE LinkSubscription(h)
    <2>1. /\ stripe[local[h].sub] # "none" /\ local[h].next \in {"retrieve", "backfill"}
          /\ local'[h].sub = local[h].sub /\ pc'[h] = local[h].next
          /\ dealership'.sub = local[h].sub
      BY <1>1, <1>5 DEF LinkSubscription, Named, Carries, Carried, DealershipRow
    <2>2. Named(pc[h], local[h])'
      BY <1>0, <2>1 DEF Named
    <2>3. RowNames'
      BY <1>0, <1>1, <2>1 DEF RowNames
    <2>4. QED
      BY <1>0, <2>2, <2>3, NamesFrom
  <1>6. CASE RetrieveSubscription(h)
    <2>1. /\ stripe[local[h].sub] # "none" /\ local'[h].sub = local[h].sub
          /\ local'[h].status = stripe[local[h].sub]
      BY <1>1, <1>6 DEF RetrieveSubscription, Named, Carried
    <2>2. Named(pc[h], local[h])'
      BY <1>0, <2>1 DEF Named, NoLocals
    <2>3. QED
      BY <1>0, <1>2, <1>6, <2>2, NamesFrom DEF RetrieveSubscription, rows
  <1>7. CASE SyncDealership(h)
    <2>1. /\ stripe[local[h].sub] # "none" /\ pc'[h] = "backfill"
          /\ dealership'.sub = local[h].sub
      BY <1>1, <1>7 DEF SyncDealership, Named, Goto, DealershipRow
    <2>2. RowNames'
      BY <1>0, <1>1, <2>1 DEF RowNames
    <2>3. QED
      BY <1>0, <1>3, <2>1, <2>2, NamesFrom
  <1>8. CASE BackfillRead(h) \/ Backfill(h)
    <2>1. pc'[h] \in {"idle", "upsert"} /\ dealership' = dealership
      BY <1>1, <1>8 DEF BackfillRead, Backfill, Done, rows
    <2>2. QED
      BY <1>0, <1>2, <1>3, <2>1, NamesFrom
  <1>9. QED
    BY <1>4, <1>5, <1>6, <1>7, <1>8 DEF Page

LEMMA NamesStep ==
  ASSUME BillTypes, LogInv, NamesInv, Next
  PROVE  NamesInv'
  <1>1. ASSUME Final, UNCHANGED <<registration, pc, local>>, dealership'.sub = dealership.sub
        PROVE  NamesInv'
    <2>1. RowNames'
      BY <1>1 DEF BillTypes, RowTypes, DealershipRow, Row, RowNames, Final, NamesInv
    <2>2. ASSUME NEW g \in Handlers PROVE Named(pc[g], local[g])'
      BY <1>1, NamedStays DEF NamesInv
    <2>3. QED
      BY <2>1, <2>2 DEF NamesInv
  <1>2. CASE Business
    BY <1>1, <1>2, BusinessStep DEF rows
  <1>3. CASE SetAutoExpense
    <2>1. dealership'.sub = dealership.sub
      BY <1>3 DEF SetAutoExpense, BillTypes, RowTypes, DealershipRow
    <2>2. QED
      BY <1>1, <1>3, <2>1, StripeSide DEF SetAutoExpense
  <1>4. ASSUME NEW h \in Handlers, Turns(h) \/ Delivery(h) \/ Page(h) PROVE NamesInv'
    BY <1>4, NamesTurn, NamesDelivery, NamesPage
  <1>5. QED
    BY <1>2, <1>3, <1>4 DEF Next, Business, Turns, Delivery, Page

-----------------------------------------------------------------------------
(* One request at a time.                                                  *)

LEMMA OthersIdle ==
  ASSUME BillTypes, TurnInv, orderly, NEW h \in Handlers, pc[h] # "idle"
  PROVE  \A g \in Handlers \ {h} : pc[g] = "idle" /\ local[g] = NoLocals
  BY DEF BillTypes, TurnInv, Carries

\* The delivery that is being handled is of the next event.
LEMMA NextEvent ==
  ASSUME BillTypes, TurnInv, orderly, NEW h \in Handlers, local[h].event # None
  PROVE  /\ handled \in Nat /\ Len(log) \in Nat /\ handled < Len(log)
         /\ handled + 1 \in 1..Len(log) /\ local[h].event = log[handled + 1]
  BY DEF BillTypes, HandlerTypes, StripeTypes, TurnInv

LEMMA TurnFrom ==
  ASSUME BillTypes, BillTypes', TurnInv, NEW h \in Handlers, Elsewhere(h), pc[h] # "idle",
         orderly' => orderly,
         orderly' => handled' <= Len(log'),
         orderly' /\ local'[h].event # None =>
           handled' < Len(log') /\ local'[h].event = log'[handled' + 1]
  PROVE  TurnInv'
  <1> SUFFICES ASSUME orderly'
               PROVE  /\ handled' <= Len(log')
                      /\ \A g, k \in Handlers : pc'[g] # "idle" /\ pc'[k] # "idle" => g = k
                      /\ \A g \in Handlers : local'[g].event # None =>
                           handled' < Len(log') /\ local'[g].event = log'[handled' + 1]
    BY DEF TurnInv
  <1>1. \A g \in Handlers \ {h} : pc'[g] = "idle" /\ local'[g] = NoLocals
    BY OthersIdle DEF Elsewhere
  <1>2. \A g, k \in Handlers : pc'[g] # "idle" /\ pc'[k] # "idle" => g = k
    BY <1>1
  <1>3. NoLocals.event = None
    BY DEF NoLocals
  <1>4. QED
    BY <1>1, <1>2, <1>3

LEMMA TurnBusiness ==
  ASSUME BillTypes, TurnInv, Reported, UNCHANGED <<pc, local, history>>
  PROVE  TurnInv'
  <1> SUFFICES ASSUME orderly'
               PROVE  /\ handled' <= Len(log')
                      /\ \A g, k \in Handlers : pc'[g] # "idle" /\ pc'[k] # "idle" => g = k
                      /\ \A g \in Handlers : local'[g].event # None =>
                           handled' < Len(log') /\ local'[g].event = log'[handled' + 1]
    BY DEF TurnInv
  <1>1. orderly /\ handled' = handled /\ handled \in Nat /\ pc' = pc /\ local' = local
    BY DEF history, BillTypes, HandlerTypes
  <1>2. /\ handled <= Len(log)
        /\ \A g, k \in Handlers : pc[g] # "idle" /\ pc[k] # "idle" => g = k
        /\ \A g \in Handlers : local[g].event # None =>
             handled < Len(log) /\ local[g].event = log[handled + 1]
    BY <1>1 DEF TurnInv
  <1>3. /\ Len(log) \in Nat /\ Len(log') \in Nat /\ Len(log) < Len(log')
        /\ \A n \in 1..Len(log) : log'[n] = log[n]
    BY DEF Reported
  <1>4. handled < Len(log) => handled + 1 \in 1..Len(log)
    BY <1>1, <1>3
  <1>5. QED
    BY <1>1, <1>2, <1>3, <1>4

LEMMA TurnStart ==
  ASSUME BillTypes, TurnInv, NEW h \in Handlers, Turns(h)
  PROVE  TurnInv' /\ (orderly' => orderly)
  <1>0. /\ BillTypes' /\ Elsewhere(h) /\ log' = log /\ Len(log) \in Nat /\ handled \in Nat
        /\ pc \in [Handlers -> Awaits] /\ local \in [Handlers -> Carried]
    BY TurnTypes DEF atStripe, BillTypes, HandlerTypes, StripeTypes
  <1>1. CASE Crash(h)
    <2>1. pc[h] # "idle" /\ local'[h] = NoLocals /\ handled' = handled /\ orderly' = orderly
      BY <1>0, <1>1 DEF Crash
    <2>2. NoLocals.event = None
      BY DEF NoLocals
    <2>3. orderly' => handled' <= Len(log')
      BY <1>0, <2>1 DEF TurnInv
    <2>4. QED
      BY <1>0, <2>1, <2>2, <2>3, TurnFrom
  <1>2. CASE Deliver(h) \/ BillingRead(h)
    <2>1. /\ orderly' => orderly /\ Idle = Handlers
          /\ handled' = handled
      BY <1>2 DEF Deliver, BillingRead
    <2>2. orderly' /\ local'[h].event # None => handled < Len(log) /\ local'[h].event = log[handled + 1]
      <3>1. CASE Deliver(h)
        <4>1. PICK n \in 1..Len(log) :
                /\ local' = [local EXCEPT ![h] = [NoLocals EXCEPT !.event = log[n]]]
                /\ orderly' = (orderly /\ n = handled + 1 /\ Idle = Handlers)
          BY <3>1 DEF Deliver
        <4>2. local'[h].event = log[n]
          BY <1>0, <4>1 DEF NoLocals
        <4>3. orderly' => n = handled + 1
          BY <4>1
        <4>4. QED
          BY <1>0, <4>2, <4>3
      <3>2. CASE BillingRead(h)
        <4>1. local'[h].event = None
          BY <1>0, <3>2 DEF BillingRead, NoLocals
        <4>2. QED
          BY <4>1
      <3>3. QED
        BY <1>2, <3>1, <3>2
    <2>3. ASSUME orderly' PROVE \A g \in Handlers \ {h} : pc'[g] = "idle" /\ local'[g] = NoLocals
      <3>1. \A g \in Handlers : pc[g] = "idle"
        BY <2>1, <2>3 DEF Idle
      <3>2. QED
        BY <1>0, <3>1 DEF Elsewhere, BillTypes, Carries
    <2>4. NoLocals.event = None
      BY DEF NoLocals
    <2>5. ASSUME orderly'
          PROVE  /\ handled' <= Len(log')
                 /\ \A g, k \in Handlers : pc'[g] # "idle" /\ pc'[k] # "idle" => g = k
                 /\ \A g \in Handlers : local'[g].event # None =>
                      handled' < Len(log') /\ local'[g].event = log'[handled' + 1]
      <3>1. handled' <= Len(log')
        BY <1>0, <2>1, <2>5 DEF TurnInv
      <3>2. \A g, k \in Handlers : pc'[g] # "idle" /\ pc'[k] # "idle" => g = k
        BY <2>3, <2>5
      <3>3. QED
        BY <1>0, <2>1, <2>2, <2>3, <2>4, <2>5, <3>1, <3>2
    <2>6. QED
      BY <2>1, <2>5 DEF TurnInv
  <1>3. QED
    BY <1>1, <1>2 DEF Turns

LEMMA TurnDelivery ==
  ASSUME BillTypes, NamesInv, TurnInv, NEW h \in Handlers, Delivery(h)
  PROVE  TurnInv' /\ (orderly' => orderly)
  <1>0. /\ BillTypes' /\ Elsewhere(h) /\ local[h].event # None /\ pc[h] # "idle"
        /\ Len(log) \in Nat /\ handled \in Nat
    BY DeliveryTypes DEF EventAwaits, InvoiceAwaits, BillTypes, StripeTypes, HandlerTypes
  <1>1. /\ Len(log') \in Nat /\ Len(log) <= Len(log')
        /\ \A n \in 1..Len(log) : log'[n] = log[n]
    <2>1. CASE Reported
      BY <1>0, <2>1 DEF Reported
    <2>2. CASE UNCHANGED atStripe
      BY <1>0, <2>2 DEF atStripe
    <2>3. QED
      BY <2>1, <2>2, StripeSide
  <1>2. /\ orderly' => orderly
        /\ orderly' => handled' <= Len(log')
        /\ orderly' /\ local'[h].event # None =>
             handled' < Len(log') /\ local'[h].event = log'[handled' + 1]
    <2>1. CASE Done(h) /\ local'[h] = NoLocals
      <3>1. /\ local'[h].event = None /\ orderly' = orderly
            /\ orderly => handled' = handled + 1
        BY <1>0, <2>1 DEF NoLocals, Done
      <3>2. orderly => handled + 1 <= Len(log)
        BY <1>0, NextEvent
      <3>3. orderly => handled' <= Len(log')
        BY <1>0, <1>1, <3>1, <3>2
      <3>4. QED
        BY <3>1, <3>3
    <2>2. CASE UNCHANGED history /\ local'[h].event = local[h].event
      <3>1. orderly' = orderly /\ handled' = handled
        BY <2>2 DEF history
      <3>2. orderly => handled < Len(log) /\ handled + 1 \in 1..Len(log) /\ local[h].event = log[handled + 1]
        BY <1>0, NextEvent
      <3>3. QED
        BY <1>0, <1>1, <2>2, <3>1, <3>2
    <2>3. QED
      BY <2>1, <2>2, DeliveryTypes
  <1>3. QED
    BY <1>0, <1>2, TurnFrom

LEMMA TurnPage ==
  ASSUME BillTypes, TurnInv, NEW h \in Handlers, Page(h)
  PROVE  /\ TurnInv' /\ (orderly' => orderly)
         /\ handled' = handled /\ orderly' = orderly /\ crashes' = crashes
  <1>0. /\ BillTypes' /\ Elsewhere(h) /\ local[h].event = None /\ pc[h] # "idle" /\ log' = log
    BY PageTypes DEF PageAwaits, atStripe
  <1>1. /\ orderly' = orderly /\ handled' = handled /\ local'[h].event = None /\ crashes' = crashes
    <2>1. CASE Done(h) /\ local'[h] = NoLocals
      BY <1>0, <2>1 DEF NoLocals, Done
    <2>2. CASE UNCHANGED history /\ local'[h].event = None
      BY <2>2 DEF history
    <2>3. QED
      BY <2>1, <2>2, PageTypes
  <1>2. orderly => handled <= Len(log)
    BY DEF TurnInv
  <1>3. QED
    BY <1>0, <1>1, <1>2, TurnFrom

LEMMA TurnStep ==
  ASSUME BillTypes, NamesInv, TurnInv, Next
  PROVE  TurnInv'
  <1>1. CASE Business
    BY <1>1, BusinessStep, TurnBusiness
  <1>2. CASE SetAutoExpense
    BY <1>2 DEF SetAutoExpense, TurnInv, atStripe, history
  <1>3. ASSUME NEW h \in Handlers, Turns(h) \/ Delivery(h) \/ Page(h) PROVE TurnInv'
    BY <1>3, TurnStart, TurnDelivery, TurnPage
  <1>4. QED
    BY <1>1, <1>2, <1>3 DEF Next, Business, Turns, Delivery, Page

-----------------------------------------------------------------------------
(* Expenses.                                                               *)

\* An invoice no expense is booked for in this step.
LEMMA ExpenseStays ==
  ASSUME BillTypes, BillTypes', NEW i \in Invoices, ExpenseOf(i), Final,
         orderly' => orderly, expenses'[i] = expenses[i], Booked(i)' => Booked(i),
         \/ crashes' = crashes /\ (Booked(i) => Booked(i)')
         \/ crashes' = crashes + 1
  PROVE  ExpenseOf(i)'
  <1>1. /\ expenses[i] \in Nat /\ crashes \in Nat /\ crashes' \in Nat
        /\ billed[i].status = "paid" => billed'[i].status = "paid"
    BY BillingAssumption DEF BillTypes, RowTypes, HandlerTypes, Final
  <1>2. PICK was, is \in BOOLEAN : was = Booked(i) /\ is = Booked(i)'
    BY DEF Booked, Linking, BillTypes, RowTypes
  <1>3. expenses[i] > 0 => billed[i].status = "paid"
    BY DEF ExpenseOf
  <1>4. was => expenses[i] > 0
    BY <1>2 DEF ExpenseOf
  <1>5. orderly => expenses[i] <= crashes + IF was THEN 1 ELSE 0
    BY <1>2 DEF ExpenseOf
  <1>6. /\ is => was
        /\ (crashes' = crashes /\ (was => is)) \/ crashes' = crashes + 1
    BY <1>2
  <1>7. orderly' => expenses'[i] <= crashes' + IF is THEN 1 ELSE 0
    BY <1>1, <1>5, <1>6
  <1>8. QED
    BY <1>1, <1>2, <1>3, <1>4, <1>6, <1>7 DEF ExpenseOf

\* A step that neither begins nor ends the linking of an expense.
LEMMA LinkingStays ==
  ASSUME NEW h \in Handlers, Elsewhere(h), NEW i,
         pc[h] = "link" => local[h].event.invoice # i,
         pc'[h] = "link" => local'[h].event.invoice # i
  PROVE  Linking(i)' <=> Linking(i)
  BY DEF Linking, Elsewhere

LEMMA ExpenseOthers ==
  ASSUME BillTypes, NamesInv, ExpenseInv, TurnInv, NEW h \in Handlers, Delivery(h),
         ~CreateExpense(h), ~LinkExpense(h)
  PROVE  ExpenseInv'
  <1>0. /\ BillTypes' /\ Elsewhere(h) /\ Final /\ (orderly' => orderly)
        /\ pc \in [Handlers -> Awaits] /\ payment \in [Invoices -> [status : InvoiceStatus, linked : BOOLEAN]]
    BY DeliveryTypes, StripeSide, TurnDelivery DEF BillTypes, HandlerTypes, RowTypes
  <1>1. pc[h] # "link" /\ pc'[h] # "link" /\ crashes' = crashes
    BY <1>0 DEF Delivery, SubRegistration, SubDealership, NewDealership, NewRegistration, CancelOld,
       InvoiceDealership, InvoiceRegistration, RecordPayment, AgainRegistration, AgainDealership,
       Goto, Done, history
  <1>2. expenses' = expenses /\ \A i \in Invoices : payment'[i].linked = payment[i].linked
    <2>1. CASE RecordPayment(h)
      BY <1>0, <2>1 DEF RecordPayment
    <2>2. CASE ~RecordPayment(h)
      BY <2>2 DEF Delivery, SubRegistration, SubDealership, NewDealership, NewRegistration, CancelOld,
         InvoiceDealership, InvoiceRegistration, AgainRegistration, AgainDealership, rows
    <2>3. QED
      BY <2>1, <2>2
  <1>3. ASSUME NEW i \in Invoices PROVE ExpenseOf(i)'
    <2>1. Linking(i)' <=> Linking(i)
      BY <1>0, <1>1, LinkingStays
    <2>2. Booked(i)' <=> Booked(i)
      BY <1>2, <2>1 DEF Booked
    <2>3. QED
      BY <1>0, <1>1, <1>2, <2>2, ExpenseStays DEF ExpenseInv
  <1>4. QED
    BY <1>3 DEF ExpenseInv

LEMMA ExpenseCreated ==
  ASSUME BillTypes, NamesInv, ExpenseInv, TurnInv, OrderlyInv, NEW h \in Handlers, CreateExpense(h)
  PROVE  ExpenseInv'
  <1>0. /\ BillTypes' /\ Elsewhere(h) /\ Final /\ (orderly' => orderly)
        /\ pc \in [Handlers -> Awaits] /\ local \in [Handlers -> Carried]
        /\ expenses \in [Invoices -> Nat] /\ payment' = payment
        /\ crashes \in Nat /\ crashes' = crashes /\ Delivery(h)
    <2>1. Delivery(h)
      BY DEF Delivery
    <2>2. crashes \in Nat /\ crashes' = crashes
      BY BillingAssumption DEF BillTypes, HandlerTypes, CreateExpense, Done, history
    <2>3. QED
      BY <2>1, <2>2, DeliveryTypes, StripeSide, TurnDelivery
         DEF BillTypes, HandlerTypes, RowTypes, CreateExpense
  <1>1. /\ pc[h] = "expense" /\ local[h].event # None /\ local[h].event.type = "paid"
        /\ EventTrue(local[h].event)
    <2>1. pc[h] = "expense"
      BY DEF CreateExpense
    <2>2. QED
      BY <2>1, <1>0 DEF BillTypes, Carries, EventAwaits, InvoiceAwaits, NamesInv, Named
  <1>2. PICK i \in Invoices : i = local[h].event.invoice /\ billed[i].status = "paid"
    BY <1>1, EventType DEF EventTrue, EventAwaits, InvoiceAwaits
  <1>3. ASSUME NEW j \in Invoices, pc'[h] # "link" \/ j # i, expenses'[j] = expenses[j]
        PROVE  ExpenseOf(j)'
    <2>1. pc'[h] = "link" => local'[h].event.invoice = i
      BY <1>0, <1>2 DEF CreateExpense, Goto, Done
    <2>2. Linking(j)' <=> Linking(j)
      BY <1>0, <1>1, <1>3, <2>1, LinkingStays
    <2>3. Booked(j)' <=> Booked(j)
      BY <1>0, <2>2 DEF Booked
    <2>4. QED
      BY <1>0, <1>3, <2>3, ExpenseStays DEF ExpenseInv
  <1>4. CASE dealership.autoExpense /\ ~local[h].linked
    <2>1. /\ expenses' = [expenses EXCEPT ![i] = @ + 1] /\ Goto(h, "link") /\ UNCHANGED history
      BY <1>2, <1>4 DEF CreateExpense
    <2>2. ExpenseOf(i)'
      <3>1. Linking(i)'
        BY <1>0, <1>2, <2>1 DEF Linking, Goto
      <3>2. expenses'[i] = expenses[i] + 1 /\ expenses[i] \in Nat
        BY <1>0, <2>1
      <3>3. billed'[i].status = "paid"
        BY <1>0, <1>2 DEF Final
      <3>4. ASSUME orderly PROVE ~Booked(i)
        <4>1. ~payment[i].linked
          BY <1>1, <1>2, <1>4, <3>4 DEF OrderlyInv, CaughtUp, Progress
        <4>2. ~Linking(i)
          BY <1>1, <3>4, OthersIdle DEF Linking
        <4>3. QED
          BY <4>1, <4>2 DEF Booked
      <3>5. orderly => expenses[i] <= crashes
        <4>1. ASSUME orderly PROVE expenses[i] <= crashes
          <5>1. expenses[i] <= crashes + IF Booked(i) THEN 1 ELSE 0
            BY <4>1 DEF ExpenseInv, ExpenseOf
          <5>2. expenses[i] <= crashes + 0
            BY <3>4, <4>1, <5>1
          <5>3. QED
            BY <1>0, <5>2
        <4>2. QED
          BY <4>1
      <3>6. Booked(i)'
        BY <3>1 DEF Booked
      <3>7. orderly' => expenses'[i] <= crashes' + 1
        BY <1>0, <3>2, <3>5
      <3>8. QED
        BY <3>2, <3>3, <3>6, <3>7 DEF ExpenseOf
    <2>3. ASSUME NEW j \in Invoices, j # i PROVE ExpenseOf(j)'
      BY <1>0, <1>3, <2>1, <2>3
    <2>4. QED
      BY <2>2, <2>3 DEF ExpenseInv
  <1>5. CASE ~(dealership.autoExpense /\ ~local[h].linked)
    <2>1. Done(h) /\ expenses' = expenses
      BY <1>5 DEF CreateExpense
    <2>2. pc'[h] # "link"
      BY <1>0, <2>1 DEF Done
    <2>3. QED
      BY <1>3, <2>1, <2>2 DEF ExpenseInv
  <1>6. QED
    BY <1>4, <1>5

LEMMA ExpenseLinked ==
  ASSUME BillTypes, NamesInv, ExpenseInv, TurnInv, NEW h \in Handlers, LinkExpense(h)
  PROVE  ExpenseInv'
  <1>0. /\ BillTypes' /\ Elsewhere(h) /\ Final /\ (orderly' => orderly)
        /\ pc \in [Handlers -> Awaits]
        /\ payment \in [Invoices -> [status : InvoiceStatus, linked : BOOLEAN]]
        /\ crashes' = crashes /\ expenses' = expenses
    <2>1. Delivery(h)
      BY DEF Delivery
    <2>2. QED
      BY <2>1, DeliveryTypes, StripeSide, TurnDelivery
         DEF BillTypes, HandlerTypes, RowTypes, LinkExpense, Done
  <1>1. pc[h] = "link" /\ pc'[h] = "idle"
    BY <1>0 DEF LinkExpense, Done
  <1>2. PICK i \in Invoices : i = local[h].event.invoice
    BY <1>1, EventType DEF EventAwaits, InvoiceAwaits, BillTypes, Carries
  <1>3. payment' = [payment EXCEPT ![i].linked = TRUE]
    BY <1>2 DEF LinkExpense
  <1>4. ASSUME NEW j \in Invoices PROVE Booked(j)' <=> Booked(j)
    <2>1. CASE j = i
      <3>1. payment'[i].linked
        BY <1>0, <1>3
      <3>2. Linking(i)
        BY <1>1, <1>2 DEF Linking
      <3>3. QED
        BY <2>1, <3>1, <3>2 DEF Booked
    <2>2. CASE j # i
      <3>1. payment'[j] = payment[j]
        BY <1>0, <1>3, <2>2
      <3>2. Linking(j)' <=> Linking(j)
        BY <1>0, <1>1, <1>2, <2>2, LinkingStays
      <3>3. QED
        BY <3>1, <3>2 DEF Booked
    <2>3. QED
      BY <2>1, <2>2
  <1>5. QED
    BY <1>0, <1>4, ExpenseStays DEF ExpenseInv

LEMMA ExpenseStep ==
  ASSUME BillTypes, BillTypes', NamesInv, ExpenseInv, TurnInv, OrderlyInv, Next
  PROVE  ExpenseInv'
  <1>1. CASE Business \/ SetAutoExpense
    <2>1. /\ Final /\ UNCHANGED <<payment, expenses, pc, local, orderly, crashes>>
      BY <1>1, StripeSide, BusinessStep DEF SetAutoExpense, rows, history
    <2>2. ASSUME NEW i \in Invoices PROVE Booked(i)' <=> Booked(i)
      BY <2>1 DEF Booked, Linking
    <2>3. QED
      BY <2>1, <2>2, ExpenseStays DEF ExpenseInv
  <1>2. ASSUME NEW h \in Handlers, Turns(h) PROVE ExpenseInv'
    <2>0. /\ Elsewhere(h) /\ Final /\ (orderly' => orderly)
          /\ UNCHANGED <<payment, expenses>> /\ (crashes' = crashes \/ (Crash(h) /\ crashes' = crashes + 1))
          /\ pc \in [Handlers -> Awaits]
      <3>1. crashes' = crashes \/ (Crash(h) /\ crashes' = crashes + 1)
        BY <1>2 DEF Turns, Deliver, BillingRead, Crash
      <3>2. QED
        BY <1>2, <3>1, TurnTypes, TurnStart, StripeSide DEF BillTypes, HandlerTypes, rows
    <2>1. pc'[h] # "link"
      <3>1. CASE Deliver(h)
        <4>1. PICK n \in 1..Len(log) : pc' = [pc EXCEPT ![h] = FirstAwait[log[n].type]]
          BY <3>1 DEF Deliver
        <4>2. PICK e \in Events : e = log[n]
          BY DEF BillTypes, StripeTypes
        <4>3. FirstAwait[e.type] # "link"
          BY DEF FirstAwait, Events
        <4>4. QED
          BY <2>0, <4>1, <4>2, <4>3
      <3>2. CASE BillingRead(h) \/ Crash(h)
        BY <2>0, <3>2 DEF BillingRead, Crash
      <3>3. QED
        BY <1>2, <3>1, <3>2 DEF Turns
    <2>2. ASSUME NEW i \in Invoices PROVE Booked(i)' => Booked(i)
      BY <2>0, <2>1, <2>2 DEF Booked, Linking, Elsewhere
    <2>3. CASE Crash(h) /\ crashes' = crashes + 1
      BY <2>0, <2>2, <2>3, ExpenseStays DEF ExpenseInv
    <2>4. CASE crashes' = crashes
      <3>1. pc[h] # "link"
        <4>1. crashes \in Nat
          BY BillingAssumption DEF BillTypes, HandlerTypes
        <4>2. QED
          BY <1>2, <2>4, <4>1 DEF Turns, Deliver, BillingRead, Crash
      <3>2. ASSUME NEW i \in Invoices PROVE Booked(i) => Booked(i)'
        BY <2>0, <3>1 DEF Booked, Linking, Elsewhere
      <3>3. QED
        BY <2>0, <2>2, <2>4, <3>2, ExpenseStays DEF ExpenseInv
    <2>5. QED
      BY <2>0, <2>3, <2>4
  <1>3. ASSUME NEW h \in Handlers, Page(h) PROVE ExpenseInv'
    <2>0. /\ Elsewhere(h) /\ Final /\ (orderly' => orderly) /\ crashes' = crashes
          /\ expenses' = expenses /\ local[h].event = None /\ pc[h] \in PageAwaits
      BY <1>3, PageTypes, TurnPage, StripeSide
    <2>1. pc[h] # "link" /\ pc'[h] # "link"
      BY <1>3, <2>0, PageTypes DEF PageAwaits
    <2>2. \A i \in Invoices : payment'[i].linked = payment[i].linked
      <3>1. CASE payment' = payment
        BY <3>1
      <3>2. CASE Backfill(h) /\ payment' # payment
        <4>1. PICK t \in local[h].todo : payment' = [payment EXCEPT ![t.invoice].status = t.status]
          BY <3>2 DEF Backfill
        <4>2. payment \in [Invoices -> [status : InvoiceStatus, linked : BOOLEAN]]
          BY DEF BillTypes, RowTypes
        <4>3. QED
          BY <4>1, <4>2
      <3>3. QED
        BY <1>3, <3>1, <3>2 DEF Page, ListSubscriptions, LinkSubscription, RetrieveSubscription,
           SyncDealership, BackfillRead, rows
    <2>3. ASSUME NEW i \in Invoices PROVE Booked(i)' <=> Booked(i)
      <3>1. Linking(i)' <=> Linking(i)
        BY <2>0, <2>1, LinkingStays
      <3>2. QED
        BY <2>2, <3>1 DEF Booked
    <2>4. QED
      BY <2>0, <2>3, ExpenseStays DEF ExpenseInv
  <1>4. ASSUME NEW h \in Handlers, Delivery(h) PROVE ExpenseInv'
    BY <1>4, ExpenseOthers, ExpenseCreated, ExpenseLinked
  <1>5. QED
    BY <1>1, <1>2, <1>3, <1>4 DEF Next, Business, Turns, Delivery, Page

-----------------------------------------------------------------------------
(* One delivery at a time, in order.                                       *)

LEMMA IdleProgress ==
  ASSUME NEW g \in Handlers, pc'[g] = "idle", local'[g] = NoLocals
  PROVE  Progress(g)' /\ Listed(g)'
  BY DEF Progress, Listed, NoLocals

LEMMA CaughtFrom ==
  ASSUME NEW h \in Handlers, \A g \in Handlers \ {h} : pc'[g] = "idle" /\ local'[g] = NoLocals,
         Progress(h)', Listed(h)', Recorded', Subscribed', Standing', CanceledRow'
  PROVE  CaughtUp'
  <1>1. ASSUME NEW g \in Handlers PROVE Progress(g)' /\ Listed(g)'
    <2>1. CASE g = h
      BY <2>1
    <2>2. CASE g # h
      BY <2>2, IdleProgress
    <2>3. QED
      BY <2>1, <2>2
  <1>2. QED
    BY <1>1 DEF CaughtUp

LEMMA PendingStays ==
  ASSUME BillTypes, BillTypes', NEW i \in Invoices, Pending(i), handled' = handled,
         Len(log) <= Len(log'), \A n \in 1..Len(log) : log'[n] = log[n]
  PROVE  Pending(i)'
  <1>1. PICK n \in handled + 1..Len(log) : OnInvoice(log[n], i)
    BY DEF Pending
  <1>2. handled \in Nat /\ Len(log) \in Nat /\ Len(log') \in Nat
    BY DEF BillTypes, HandlerTypes, StripeTypes
  <1>3. n \in 1..Len(log) /\ n \in handled' + 1..Len(log')
    BY <1>2
  <1>4. OnInvoice(log'[n], i)
    BY <1>1, <1>3
  <1>5. QED
    BY <1>3, <1>4 DEF Pending

\* What Stripe does is for its events to tell.
LEMMA OrderlyBusiness ==
  ASSUME BillTypes, BillTypes', TurnInv, OrderlyInv, orderly, Reported, Final,
         UNCHANGED <<rows, pc, local, history>>
  PROVE  CaughtUp'
  <1>0. /\ CaughtUp /\ handled \in Nat /\ handled' = handled /\ handled <= Len(log)
        /\ Len(log) \in Nat /\ Len(log') \in Nat /\ Len(log) < Len(log')
        /\ \A n \in 1..Len(log) : log'[n] = log[n]
        /\ UNCHANGED <<dealership, registration, payment, pc, local>>
        /\ local \in [Handlers -> Carried] /\ log \in Seq(Events) /\ log' \in Seq(Events)
    BY DEF OrderlyInv, BillTypes, HandlerTypes, TurnInv, Reported, rows, history, StripeTypes
  <1>1. ASSUME NEW i \in Invoices, NEW status, status = billed[i].status \/ Pending(i)
        PROVE  status = billed'[i].status \/ Pending(i)'
    <2>1. CASE Pending(i)
      BY <1>0, <2>1, PendingStays
    <2>2. CASE billed'[i].status # billed[i].status
      <3>1. PICK n \in Len(log) + 1..Len(log') : OnInvoice(log'[n], i)
        BY <2>2 DEF Reported
      <3>2. n \in handled' + 1..Len(log')
        BY <1>0
      <3>3. QED
        BY <3>1, <3>2 DEF Pending
    <2>3. QED
      BY <1>1, <2>1, <2>2
  <1>2. ASSUME NEW g \in Handlers PROVE Progress(g)'
    <2>1. handled' # Len(log')
      BY <1>0
    <2>2. Progress(g)
      BY <1>0 DEF CaughtUp
    <2>3. QED
      BY <1>0, <2>1, <2>2 DEF Progress
  <1>3. ASSUME NEW g \in Handlers PROVE Listed(g)'
    <2>1. ASSUME NEW t \in local[g].todo PROVE t.status = billed'[t.invoice].status \/ Pending(t.invoice)'
      <3>1. t.invoice \in Invoices
        BY <1>0 DEF Carried, Todo
      <3>2. PICK i \in Invoices : i = t.invoice
        BY <3>1
      <3>3. t.status = billed[i].status \/ Pending(i)
        BY <1>0, <3>2 DEF CaughtUp, Listed
      <3>4. t.status = billed'[i].status \/ Pending(i)'
        BY <1>1, <3>3
      <3>5. QED
        BY <3>2, <3>4
    <2>2. QED
      BY <1>0, <2>1 DEF Listed
  <1>4. Recorded'
    BY <1>0, <1>1 DEF Recorded, CaughtUp
  <1>5. Subscribed'
    <2>1. CASE dealership.sub # None /\ registration.sub # None
      BY <1>0, <2>1 DEF Subscribed
    <2>2. CASE /\ handled = 0
               /\ IF log = <<>> THEN \A s \in Subs : stripe[s] = "none" ELSE log[1].type = "subscription"
      <3>1. log' # <<>>
        BY <1>0
      <3>2. CASE log = <<>>
        <4>1. Len(log) = 0
          BY <3>2
        <4>2. log'[1].type = "subscription"
          BY <2>2, <3>2, <4>1 DEF Reported
        <4>3. QED
          BY <1>0, <2>2, <3>1, <4>2 DEF Subscribed
      <3>3. CASE log # <<>>
        <4>1. 1 \in 1..Len(log)
          BY <1>0, <3>3
        <4>2. QED
          BY <1>0, <2>2, <3>1, <3>3, <4>1 DEF Subscribed
      <3>4. QED
        BY <3>2, <3>3
    <2>3. QED
      BY <1>0, <2>1, <2>2 DEF CaughtUp, Subscribed
  <1>6. Standing'
    BY <1>0 DEF Standing
  <1>7. CanceledRow'
    BY <1>0 DEF CanceledRow, CaughtUp, Final, BillTypes, RowTypes, DealershipRow
  <1>8. QED
    BY <1>2, <1>3, <1>4, <1>5, <1>6, <1>7 DEF CaughtUp

\* A change of the setting for expenses is none of Stripe's concern.
LEMMA OrderlySetting ==
  ASSUME BillTypes, OrderlyInv, orderly, SetAutoExpense
  PROVE  CaughtUp'
  <1>1. /\ CaughtUp /\ dealership \in DealershipRow
    BY DEF OrderlyInv, BillTypes, RowTypes
  <1>2. /\ dealership'.sub = dealership.sub /\ dealership'.status = dealership.status
        /\ dealership'.pay = dealership.pay
        /\ UNCHANGED <<stripe, billed, log, registration, payment, pc, local, handled>>
    BY <1>1 DEF SetAutoExpense, DealershipRow, atStripe, history
  <1>3. \A g \in Handlers : Progress(g)' /\ Listed(g)'
    BY <1>1, <1>2 DEF CaughtUp, Progress, Listed, Pending
  <1>4. Recorded' /\ Subscribed' /\ CanceledRow'
    BY <1>1, <1>2 DEF CaughtUp, Recorded, Subscribed, CanceledRow, Pending
  <1>5. Standing'
    BY <1>1, <1>2 DEF CaughtUp, Standing, Sole, Agreed
  <1>6. QED
    BY <1>3, <1>4, <1>5 DEF CaughtUp

\* Rows and Stripe as they were, and no event handled.
LEMMA RestStays ==
  ASSUME CaughtUp, UNCHANGED <<atStripe, rows, handled>>
  PROVE  Recorded' /\ Subscribed' /\ Standing' /\ CanceledRow'
  <1>1. UNCHANGED <<stripe, billed, log, dealership, registration, payment, handled>>
    BY DEF atStripe, rows
  <1>2. Recorded' /\ Subscribed' /\ CanceledRow'
    BY <1>1 DEF CaughtUp, Recorded, Subscribed, CanceledRow, Pending
  <1>3. Standing'
    BY <1>1 DEF CaughtUp, Standing, Sole, Agreed
  <1>4. QED
    BY <1>2, <1>3

LEMMA OrderlyTurn ==
  ASSUME BillTypes, TurnInv, OrderlyInv, NEW h \in Handlers, Turns(h), orderly'
  PROVE  CaughtUp'
  <1>0. /\ BillTypes' /\ Elsewhere(h) /\ UNCHANGED <<atStripe, rows>> /\ orderly
        /\ handled' = handled /\ CaughtUp
        /\ pc \in [Handlers -> Awaits] /\ local \in [Handlers -> Carried]
    <2>1. handled' = handled
      BY DEF Turns, Deliver, BillingRead, Crash
    <2>2. QED
      BY <2>1, TurnTypes, TurnStart DEF OrderlyInv, BillTypes, HandlerTypes
  <1>1. \A g \in Handlers \ {h} : pc'[g] = "idle" /\ local'[g] = NoLocals
    <2>1. CASE Crash(h)
      BY <1>0, <2>1, OthersIdle DEF Crash, Elsewhere
    <2>2. CASE Deliver(h) \/ BillingRead(h)
      <3>1. \A g \in Handlers : pc[g] = "idle"
        BY <1>0, <2>2 DEF Deliver, BillingRead, Idle
      <3>2. QED
        BY <1>0, <3>1 DEF Elsewhere, BillTypes, Carries
    <2>3. QED
      BY <2>1, <2>2 DEF Turns
  <1>2. Progress(h)' /\ Listed(h)'
    <2>1. CASE Crash(h)
      <3>1. pc'[h] = "idle" /\ local'[h] = NoLocals
        BY <1>0, <2>1 DEF Crash
      <3>2. QED
        BY <3>1, IdleProgress
    <2>2. CASE Deliver(h)
      <3>1. PICK n \in 1..Len(log) :
              /\ pc' = [pc EXCEPT ![h] = FirstAwait[log[n].type]]
              /\ local' = [local EXCEPT ![h] = [NoLocals EXCEPT !.event = log[n]]]
        BY <2>2 DEF Deliver
      <3>2. PICK e \in Events : e = log[n]
        BY DEF BillTypes, StripeTypes
      <3>3. FirstAwait[e.type] \in {"sub_registration", "new_dealership", "dealership"}
        BY DEF FirstAwait, Events
      <3>4. pc'[h] \in {"sub_registration", "new_dealership", "dealership"} /\ local'[h].todo = {}
        BY <1>0, <3>1, <3>2, <3>3 DEF NoLocals
      <3>5. QED
        BY <3>4 DEF Progress, Listed
    <2>3. CASE BillingRead(h)
      <3>1. PICK next \in {"retrieve", "backfill"} :
              /\ local' = [local EXCEPT ![h] = [NoLocals EXCEPT !.sub = dealership.sub,
                                                 !.pay = dealership.pay, !.next = next]]
              /\ pc' = [pc EXCEPT ![h] = IF dealership.sub = None THEN "list" ELSE next]
        BY <2>3 DEF BillingRead
      <3>2. /\ local'[h].sub = dealership.sub /\ local'[h].pay = dealership.pay /\ local'[h].todo = {}
            /\ pc'[h] = IF dealership.sub = None THEN "list" ELSE next
        BY <1>0, <3>1 DEF NoLocals
      <3>3. dealership' = dealership
        BY <1>0 DEF rows
      <3>4. QED
        BY <3>2, <3>3 DEF Progress, Listed
    <2>4. QED
      BY <2>1, <2>2, <2>3 DEF Turns
  <1>3. QED
    BY <1>0, <1>1, <1>2, RestStays, CaughtFrom

\* A delivery that goes on is of an event that is still to be handled, so its
\* writes owe Stripe nothing yet.
LEMMA GoingRest ==
  ASSUME BillTypes, BillTypes', TurnInv, OrderlyInv, orderly, NEW h \in Handlers,
         local[h].event # None, UNCHANGED <<atStripe, handled>>,
         dealership.sub # None => dealership'.sub # None,
         registration.sub # None => registration'.sub # None,
         dealership' = dealership \/ dealership'.status # "canceled",
         \A i \in Invoices : \/ payment'[i].status = payment[i].status
                             \/ OnInvoice(local[h].event, i)
  PROVE  Recorded' /\ Subscribed' /\ Standing' /\ CanceledRow'
  <1>0. /\ CaughtUp /\ handled \in Nat /\ Len(log) \in Nat /\ handled < Len(log)
        /\ handled' = handled /\ log' = log /\ stripe' = stripe /\ billed' = billed
        /\ local[h].event = log[handled + 1] /\ handled + 1 \in handled + 1..Len(log)
    BY NextEvent DEF OrderlyInv, atStripe
  <1>1. ASSUME NEW i \in Invoices PROVE payment'[i].status = billed'[i].status \/ Pending(i)'
    <2>1. Pending(i) => Pending(i)'
      BY <1>0 DEF Pending
    <2>2. OnInvoice(local[h].event, i) => Pending(i)
      BY <1>0 DEF Pending
    <2>3. payment[i].status = billed[i].status \/ Pending(i)
      BY <1>0 DEF CaughtUp, Recorded
    <2>4. QED
      BY <1>0, <2>1, <2>2, <2>3
  <1>2. Recorded'
    BY <1>1 DEF Recorded
  <1>3. Subscribed'
    BY <1>0 DEF CaughtUp, Subscribed
  <1>4. Standing'
    BY <1>0 DEF Standing
  <1>5. CanceledRow'
    BY <1>0 DEF CaughtUp, CanceledRow
  <1>6. QED
    BY <1>2, <1>3, <1>4, <1>5

LEMMA OrderlyGoing ==
  ASSUME BillTypes, TurnInv, OrderlyInv, orderly, NamesInv, NEW h \in Handlers, Delivery(h), ~Done(h)
  PROVE  CaughtUp'
  <1>0. /\ BillTypes' /\ Elsewhere(h) /\ local[h].event # None /\ pc[h] \in EventAwaits
        /\ UNCHANGED <<atStripe, history>> /\ pc'[h] \in EventAwaits
        /\ local'[h].event = local[h].event /\ local'[h].todo = {}
        /\ Carries(pc[h], local[h]) /\ CaughtUp /\ Progress(h)
    <2>1. ~CancelOld(h)
      BY DEF CancelOld
    <2>2. QED
      BY <2>1, DeliveryTypes DEF BillTypes, OrderlyInv, CaughtUp
  <1>1. handled' = handled
    BY <1>0 DEF history
  <1>2. \A g \in Handlers \ {h} : pc'[g] = "idle" /\ local'[g] = NoLocals
    BY <1>0, OthersIdle DEF Elsewhere, EventAwaits, InvoiceAwaits
  <1>3. Listed(h)'
    BY <1>0 DEF Listed
  <1>4. PICK e \in Events : e = local[h].event /\ e.sub \in Subs /\ e.sub # None
    BY <1>0, EventType, BillingAssumption
  <1>5. /\ pc \in [Handlers -> Awaits] /\ local \in [Handlers -> Carried] /\ local[h] \in Carried
        /\ payment \in [Invoices -> [status : InvoiceStatus, linked : BOOLEAN]]
    BY DEF BillTypes, HandlerTypes, RowTypes
  <1>6. ASSUME Progress(h)',
               dealership.sub # None => dealership'.sub # None,
               registration.sub # None => registration'.sub # None,
               dealership' = dealership \/ dealership'.status # "canceled",
               \A i \in Invoices : payment'[i].status = payment[i].status \/ OnInvoice(e, i)
        PROVE  CaughtUp'
    BY <1>0, <1>1, <1>2, <1>3, <1>4, <1>6, GoingRest, CaughtFrom
  <1>7. CASE SubRegistration(h)
    <2>1. pc'[h] = "sub_dealership"
      BY <1>5, <1>7 DEF SubRegistration, Goto
    <2>2. Progress(h)'
      BY <1>0, <1>7, <2>1, DeliveryRows DEF Progress
    <2>3. payment' = payment
      BY <1>7 DEF SubRegistration
    <2>4. QED
      BY <1>4, <1>6, <1>7, <2>2, <2>3, DeliveryRows
  <1>8. CASE NewDealership(h)
    <2>1. pc'[h] = "new_registration"
      BY <1>5, <1>8 DEF NewDealership, Goto
    <2>2. Progress(h)'
      BY <1>0, <1>8, <2>1, DeliveryRows DEF Progress
    <2>3. payment' = payment
      BY <1>8 DEF NewDealership
    <2>4. QED
      BY <1>4, <1>6, <1>8, <2>2, <2>3, DeliveryRows
  <1>9. CASE NewRegistration(h)
    <2>1. pc'[h] = "cancel_old"
      BY <1>5, <1>9 DEF NewRegistration, Goto
    <2>2. Progress(h)'
      BY <2>1 DEF Progress
    <2>3. payment' = payment
      BY <1>9 DEF NewRegistration
    <2>4. QED
      BY <1>4, <1>6, <1>9, <2>2, <2>3, DeliveryRows
  <1>10. CASE InvoiceDealership(h)
    <2>1. pc'[h] = "registration"
      BY <1>5, <1>10 DEF InvoiceDealership, Goto
    <2>2. e.type = "paid" => ~Failed(h)
      BY <1>4 DEF Failed
    <2>3. Progress(h)'
      BY <1>0, <1>4, <1>10, <2>1, <2>2, DeliveryRows DEF Progress
    <2>4. payment' = payment /\ dealership'.status # "canceled"
      BY <1>10, DeliveryRows DEF InvoiceDealership
    <2>5. QED
      BY <1>6, <1>10, <2>3, <2>4, DeliveryRows
  <1>11. CASE InvoiceRegistration(h)
    <2>1. pc[h] = "registration" /\ pc'[h] = "record"
      BY <1>5, <1>11 DEF InvoiceRegistration, Goto
    <2>2. e.type = "paid" => ~Failed(h)
      BY <1>4 DEF Failed
    <2>3. Progress(h)'
      BY <1>0, <1>4, <1>11, <2>1, <2>2, DeliveryRows DEF Progress
    <2>4. payment' = payment
      BY <1>11 DEF InvoiceRegistration
    <2>5. QED
      BY <1>6, <1>11, <2>3, <2>4, DeliveryRows
  <1>12. CASE RecordPayment(h)
    <2>1. pc[h] = "record" /\ e.type \in {"paid", "failed"} /\ e.invoice \in Invoices
      BY <1>0, <1>4, <1>12, EventType DEF RecordPayment, Carries, InvoiceAwaits
    <2>2. /\ pc'[h] = IF e.type = "failed" THEN "again_registration" ELSE "expense"
          /\ local'[h].linked = payment[e.invoice].linked
          /\ payment' = [payment EXCEPT ![e.invoice].status = IF e.type = "failed" THEN "open" ELSE "paid"]
          /\ UNCHANGED <<dealership, registration>>
      BY <1>4, <1>5, <1>12 DEF RecordPayment, Failed, Carried
    <2>3. /\ payment'[e.invoice].status = Says(e) /\ payment'[e.invoice].linked = payment[e.invoice].linked
          /\ \A i \in Invoices : i # e.invoice => payment'[i].status = payment[i].status
      BY <1>5, <2>1, <2>2 DEF Says
    <2>4. Progress(h)'
      BY <1>0, <1>4, <2>1, <2>2, <2>3 DEF Progress
    <2>5. \A i \in Invoices : payment'[i].status = payment[i].status \/ OnInvoice(e, i)
      BY <2>1, <2>3 DEF OnInvoice
    <2>6. QED
      BY <1>6, <2>2, <2>4, <2>5
  <1>13. CASE CreateExpense(h)
    <2>1. pc[h] = "expense" /\ pc'[h] = "link"
      BY <1>5, <1>13 DEF CreateExpense, Goto
    <2>2. UNCHANGED <<dealership, registration, payment>>
      BY <1>13 DEF CreateExpense
    <2>3. Progress(h)'
      BY <1>0, <2>1, <2>2 DEF Progress
    <2>4. QED
      BY <1>6, <2>2, <2>3
  <1>14. CASE AgainRegistration(h)
    <2>1. pc[h] = "again_registration" /\ pc'[h] = "again_dealership"
      BY <1>5, <1>14 DEF AgainRegistration, Goto
    <2>2. payment' = payment
      BY <1>14 DEF AgainRegistration
    <2>3. Progress(h)'
      BY <1>0, <2>1, <2>2 DEF Progress
    <2>4. QED
      BY <1>6, <1>14, <2>2, <2>3, DeliveryRows
  <1>15. QED
    BY <1>7, <1>8, <1>9, <1>10, <1>11, <1>12, <1>13, <1>14
       DEF Delivery, SubDealership, CancelOld, LinkExpense, AgainDealership

\* An invoice whose last event was handled is on record as Stripe has it.
LEMMA HandledRecorded ==
  ASSUME BillTypes, BillTypes', LogInv, TurnInv, OrderlyInv, orderly, NEW h \in Handlers,
         local[h].event # None, billed' = billed, handled' = handled + 1,
         Len(log) <= Len(log'), \A n \in 1..Len(log) : log'[n] = log[n],
         \A i \in Invoices : payment'[i].status = payment[i].status,
         \A i \in Invoices : OnInvoice(local[h].event, i) => payment[i].status = Says(local[h].event)
  PROVE  Recorded'
  <1>0. /\ CaughtUp /\ handled \in Nat /\ Len(log) \in Nat /\ Len(log') \in Nat /\ handled < Len(log)
        /\ local[h].event = log[handled + 1] /\ handled + 1 \in 1..Len(log)
    BY NextEvent DEF OrderlyInv, BillTypes, StripeTypes
  <1>1. ASSUME NEW i \in Invoices, NEW m \in handled + 2..Len(log), OnInvoice(log[m], i)
        PROVE  Pending(i)'
    <2>1. m \in 1..Len(log) /\ m \in handled' + 1..Len(log')
      BY <1>0
    <2>2. OnInvoice(log'[m], i)
      BY <1>1, <2>1
    <2>3. QED
      BY <2>1, <2>2 DEF Pending
  <1>2. ASSUME NEW i \in Invoices PROVE payment'[i].status = billed'[i].status \/ Pending(i)'
    <2>1. CASE payment[i].status = billed[i].status
      BY <2>1
    <2>2. CASE OnInvoice(log[handled + 1], i)
      <3>1. \/ Says(log[handled + 1]) = billed[i].status
            \/ \E m \in (handled + 1) + 1..Len(log) : OnInvoice(log[m], i)
        BY <1>0, <2>2 DEF LogInv
      <3>2. (handled + 1) + 1 = handled + 2
        BY <1>0
      <3>3. QED
        BY <1>0, <1>1, <2>2, <3>1, <3>2
    <2>3. CASE Pending(i) /\ ~OnInvoice(log[handled + 1], i)
      <3>1. PICK n \in handled + 1..Len(log) : OnInvoice(log[n], i)
        BY <2>3 DEF Pending
      <3>2. n # handled + 1
        BY <2>3, <3>1
      <3>3. n \in handled + 2..Len(log)
        BY <1>0, <3>2
      <3>4. QED
        BY <1>1, <3>1, <3>3
    <2>4. QED
      BY <1>0, <2>1, <2>2, <2>3 DEF CaughtUp, Recorded
  <1>3. QED
    BY <1>2 DEF Recorded

\* A delivery that is no news of a subscription comes after one that was.
LEMMA NamedByNow ==
  ASSUME BillTypes, TurnInv, OrderlyInv, orderly, NEW h \in Handlers,
         local[h].event # None, local[h].event.type # "subscription"
  PROVE  dealership.sub # None /\ registration.sub # None
  <1>1. /\ Subscribed /\ handled < Len(log) /\ local[h].event = log[handled + 1]
    BY NextEvent DEF OrderlyInv, CaughtUp
  <1>2. ASSUME handled = 0, log = <<>> \/ log[1].type = "subscription" PROVE FALSE
    BY <1>1, <1>2
  <1>3. QED
    BY <1>1, <1>2 DEF Subscribed

\* Who is the customer's one subscription, when an event names it.
LEMMA SoleIs ==
  ASSUME NEW s \in Subs, Sole(s), NEW t \in Subs, stripe[t] # "none"
  PROVE  s = t
  BY DEF Sole

LEMMA OrderlyDone ==
  ASSUME BillTypes, LogInv, NamesInv, TurnInv, OrderlyInv, orderly,
         NEW h \in Handlers, Delivery(h), Done(h)
  PROVE  CaughtUp'
  <1>0. /\ BillTypes' /\ Elsewhere(h) /\ local[h].event # None /\ pc[h] \in EventAwaits
        /\ Carries(pc[h], local[h]) /\ CaughtUp /\ Progress(h) /\ Final
    BY DeliveryTypes, StripeSide DEF BillTypes, OrderlyInv, CaughtUp
  <1>1. PICK e \in Events :
          /\ e = local[h].event /\ e.sub \in Subs /\ e.sub # None /\ EventTrue(e)
          /\ handled \in Nat /\ Len(log) \in Nat /\ handled < Len(log)
          /\ e = log[handled + 1]
    BY <1>0, EventType, NextEvent, BillingAssumption DEF NamesInv, Named
  <1>2. /\ handled' = handled + 1 /\ pc'[h] = "idle" /\ local'[h] = NoLocals
    BY <1>0, DoneStep DEF At
  <1>3. /\ \A g \in Handlers \ {h} : pc'[g] = "idle" /\ local'[g] = NoLocals
        /\ Progress(h)' /\ Listed(h)'
    BY <1>0, <1>2, OthersIdle, IdleProgress DEF Elsewhere, EventAwaits, InvoiceAwaits
  <1>4. /\ payment \in [Invoices -> [status : InvoiceStatus, linked : BOOLEAN]]
        /\ dealership.sub \in Subs \cup {None} /\ registration.sub \in Subs \cup {None}
    BY DEF BillTypes, RowTypes, DealershipRow, Row
  <1>5. ASSUME UNCHANGED atStripe, handled' = Len(log')
        PROVE  LastTrue(e)
    <2>1. e = log[Len(log)] /\ Len(log) > 0
      BY <1>1, <1>2, <1>5 DEF atStripe
    <2>2. QED
      BY <2>1 DEF LogInv
  \* What is left to show of a step that leaves Stripe alone.
  <1>6. ASSUME UNCHANGED atStripe,
               \A i \in Invoices : payment'[i].status = payment[i].status,
               e.type \in {"paid", "failed"} => payment[e.invoice].status = Says(e),
               dealership'.sub # None, registration'.sub # None, CanceledRow',
               ASSUME LastTrue(e), NEW s \in Subs, Sole(s) PROVE Agreed(s)'
        PROVE  CaughtUp'
    <2>1. billed' = billed /\ log' = log /\ stripe' = stripe
      BY <1>6 DEF atStripe
    <2>2. \A i \in Invoices : OnInvoice(e, i) => payment[i].status = Says(e)
      BY <1>6 DEF OnInvoice
    <2>3. Recorded'
      <3>1. /\ Len(log) <= Len(log')
            /\ \A n \in 1..Len(log) : log'[n] = log[n]
        BY <1>1, <2>1
      <3>2. \A i \in Invoices : OnInvoice(local[h].event, i) => payment[i].status = Says(local[h].event)
        BY <1>1, <2>2
      <3>3. \A i \in Invoices : payment'[i].status = payment[i].status
        BY <1>6
      <3>4. QED
        BY <1>0, <1>2, <2>1, <3>1, <3>2, <3>3, HandledRecorded
    <2>4. Subscribed'
      BY <1>6 DEF Subscribed
    <2>5. Standing'
      <3>1. ASSUME handled' = Len(log'), NEW s \in Subs, Sole(s)' PROVE Agreed(s)'
        <4>1. Sole(s)
          BY <2>1, <3>1 DEF Sole
        <4>2. QED
          BY <1>5, <1>6, <3>1, <4>1
      <3>2. QED
        BY <3>1 DEF Standing
    <2>6. QED
      BY <1>3, <1>6, <2>3, <2>4, <2>5, CaughtFrom
  <1>7. CASE SubDealership(h)
    <2>1. /\ UNCHANGED <<atStripe, payment>> /\ pc[h] = "sub_dealership"
          /\ e.type = "subscription" /\ e.status \in SubStatus
      BY <1>0, <1>1, <1>7, EventType DEF SubDealership, Carries
    <2>2. /\ registration' = registration /\ dealership'.sub = e.sub
          /\ dealership'.status = ServiceStatus(e.status) /\ dealership'.pay = PayStatus(e.status)
      BY <1>1, <1>7, DeliveryRows
    <2>3. registration.sub = e.sub /\ registration.pay = PayStatus(e.status)
      BY <1>0, <1>1, <2>1 DEF Progress
    <2>4. stripe' = stripe
      BY <2>1 DEF atStripe
    <2>5. CanceledRow'
      <3>1. ServiceStatus(e.status) = "canceled" => e.status = "canceled"
        BY <2>1 DEF ServiceStatus, SubStatus
      <3>2. QED
        BY <1>1, <2>1, <2>2, <2>4, <3>1 DEF CanceledRow, EventTrue
    <2>6. ASSUME LastTrue(e), NEW s \in Subs, Sole(s) PROVE Agreed(s)'
      <3>1. s = e.sub /\ stripe[s] = e.status
        BY <1>1, <2>1, <2>6, SoleIs DEF EventTrue, LastTrue
      <3>2. QED
        BY <2>2, <2>3, <2>4, <3>1 DEF Agreed
    <2>7. QED
      BY <1>1, <1>6, <2>1, <2>2, <2>3, <2>5, <2>6
  <1>8. CASE NewRegistration(h)
    <2>1. /\ UNCHANGED <<atStripe, payment>> /\ pc[h] = "new_registration" /\ e.type = "checkout"
      BY <1>0, <1>1, <1>8 DEF NewRegistration, Carries
    <2>2. /\ dealership' = dealership /\ registration'.sub = e.sub
          /\ registration'.status = "active" /\ registration'.pay = "on_time"
      BY <1>1, <1>8, DeliveryRows
    <2>3. dealership.status = "active" /\ dealership.pay = "on_time" /\ dealership.sub = e.sub
      BY <1>0, <1>1, <2>1 DEF Progress
    <2>4. stripe' = stripe
      BY <2>1 DEF atStripe
    <2>5. CanceledRow'
      BY <2>2, <2>3 DEF CanceledRow
    <2>6. ASSUME LastTrue(e), NEW s \in Subs, Sole(s) PROVE Agreed(s)'
      <3>1. s = e.sub /\ stripe[s] = "active"
        BY <1>1, <2>1, <2>6, SoleIs DEF EventTrue, LastTrue
      <3>2. QED
        BY <2>2, <2>3, <2>4, <3>1 DEF Agreed, ServiceStatus, PayStatus
    <2>7. QED
      BY <1>1, <1>6, <2>1, <2>2, <2>3, <2>5, <2>6
  <1>9. CASE CancelOld(h)
    <2>1. /\ e.type = "checkout" /\ e.old \in Subs /\ e.old # e.sub /\ UNCHANGED <<billed, rows>>
      BY <1>0, <1>1, <1>9, EventType DEF CancelOld, Carries
    <2>2. dealership.sub # None /\ registration.sub # None
      BY <1>0, <1>1, <2>1, NamedByNow
    <2>3. UNCHANGED <<dealership, registration, payment>>
      BY <2>1 DEF rows
    <2>4. /\ stripe'[e.sub] # "none" /\ stripe'[e.old] # "none"
      <3>1. e.old # None
        BY <2>1, BillingAssumption
      <3>2. QED
        BY <1>0, <1>1, <2>1, <3>1 DEF EventTrue, Final
    <2>5. Standing'
      <3>1. ASSUME NEW s \in Subs, Sole(s)' PROVE FALSE
        BY <1>1, <2>1, <2>4, <3>1 DEF Sole
      <3>2. QED
        BY <3>1 DEF Standing
    <2>6. CanceledRow'
      BY <1>0, <1>4, <2>3 DEF CaughtUp, CanceledRow, Final
    <2>7. Subscribed'
      BY <2>2, <2>3 DEF Subscribed
    <2>8. /\ Len(log) <= Len(log') /\ \A n \in 1..Len(log) : log'[n] = log[n]
      <3>1. CASE Reported
        BY <3>1 DEF Reported
      <3>2. CASE UNCHANGED atStripe
        BY <1>1, <3>2 DEF atStripe
      <3>3. QED
        BY <1>9, <3>1, <3>2, CancelStep
    <2>9. Recorded'
      <3>1. \A i \in Invoices : ~OnInvoice(local[h].event, i)
        BY <1>1, <2>1 DEF OnInvoice
      <3>2. QED
        BY <1>0, <1>2, <2>1, <2>3, <2>8, <3>1, HandledRecorded
    <2>10. QED
      BY <1>3, <2>5, <2>6, <2>7, <2>9, CaughtFrom
  <1>10. CASE CreateExpense(h) \/ LinkExpense(h)
    <2>1. /\ UNCHANGED <<atStripe, dealership, registration>> /\ pc[h] \in {"expense", "link"}
          /\ e.type = "paid" /\ e.invoice \in Invoices
      BY <1>0, <1>1, <1>10, EventType DEF CreateExpense, LinkExpense, Carries
    <2>2. \A i \in Invoices : payment'[i].status = payment[i].status
      BY <1>1, <1>4, <1>10, <2>1 DEF CreateExpense, LinkExpense
    <2>3. /\ dealership.status = "active" /\ dealership.pay = "on_time" /\ registration.pay = "on_time"
          /\ payment[e.invoice].status = Says(e)
      BY <1>0, <1>1, <2>1 DEF Progress
    <2>4. dealership.sub # None /\ registration.sub # None
      BY <1>0, <1>1, <2>1, NamedByNow
    <2>5. CanceledRow'
      BY <2>1, <2>3 DEF CanceledRow
    <2>6. ASSUME LastTrue(e), NEW s \in Subs, Sole(s) PROVE Agreed(s)'
      <3>1. s = e.sub /\ stripe[s] = "active"
        BY <1>1, <2>1, <2>6, SoleIs DEF EventTrue, LastTrue
      <3>2. dealership.sub = s /\ registration.sub = s
        BY <1>4, <2>4, <2>6, SoleIs DEF NamesInv, RowNames
      <3>3. stripe' = stripe
        BY <2>1 DEF atStripe
      <3>4. QED
        BY <2>1, <2>3, <3>1, <3>2, <3>3 DEF Agreed, ServiceStatus, PayStatus
    <2>7. QED
      BY <1>6, <2>1, <2>2, <2>3, <2>4, <2>5, <2>6
  <1>11. CASE AgainRegistration(h) \/ AgainDealership(h)
    <2>1. /\ UNCHANGED <<atStripe, payment>> /\ pc[h] \in {"again_registration", "again_dealership"}
          /\ e.type = "failed"
      BY <1>0, <1>1, <1>11 DEF AgainRegistration, AgainDealership, Carries
    <2>2. payment[e.invoice].status = Says(e)
      BY <1>0, <1>1, <2>1 DEF Progress
    <2>3. dealership'.sub # None /\ registration'.sub # None
      BY <1>0, <1>1, <1>11, <2>1, NamedByNow, DeliveryRows
    <2>4. CanceledRow'
      <3>1. stripe' = stripe
        BY <2>1 DEF atStripe
      <3>2. QED
        BY <1>0, <1>11, <3>1, DeliveryRows DEF CanceledRow, CaughtUp
    <2>5. ~LastTrue(e)
      BY <2>1 DEF LastTrue
    <2>6. QED
      BY <1>6, <2>1, <2>2, <2>3, <2>4, <2>5
  <1>12. QED
    <2>1. ~(SubRegistration(h) \/ NewDealership(h) \/ InvoiceDealership(h) \/ InvoiceRegistration(h))
      BY <1>2 DEF SubRegistration, NewDealership, InvoiceDealership, InvoiceRegistration,
         Goto, BillTypes, HandlerTypes
    <2>3. ~RecordPayment(h)
      BY <1>2 DEF RecordPayment, BillTypes, HandlerTypes
    <2>2. QED
      BY <1>7, <1>8, <1>9, <1>10, <1>11, <2>1, <2>3 DEF Delivery

\* The Payment Settings page writes down what Stripe says.
LEMMA OrderlyPage ==
  ASSUME BillTypes, LogInv, NamesInv, TurnInv, OrderlyInv, orderly, NEW h \in Handlers, Page(h)
  PROVE  CaughtUp'
  <1>0. /\ BillTypes' /\ Elsewhere(h) /\ local[h].event = None /\ pc[h] # "idle"
        /\ UNCHANGED <<stripe, billed, log, registration, handled>>
        /\ Carries(pc[h], local[h]) /\ Named(pc[h], local[h])
        /\ CaughtUp /\ Progress(h) /\ Listed(h)
        /\ Len(log) \in Nat /\ handled \in Nat /\ handled <= Len(log)
    <2>1. /\ BillTypes' /\ Elsewhere(h) /\ local[h].event = None /\ pc[h] # "idle"
          /\ UNCHANGED <<stripe, billed, log, registration, handled>>
      BY PageTypes, TurnPage DEF atStripe, PageAwaits
    <2>2. Carries(pc[h], local[h]) /\ Named(pc[h], local[h])
      BY DEF BillTypes, NamesInv
    <2>3. CaughtUp /\ Progress(h) /\ Listed(h)
      BY DEF OrderlyInv, CaughtUp
    <2>4. Len(log) \in Nat /\ handled \in Nat /\ handled <= Len(log)
      BY DEF BillTypes, StripeTypes, HandlerTypes, TurnInv
    <2>5. QED
      BY <2>1, <2>2, <2>3, <2>4
  <1>1. /\ pc \in [Handlers -> Awaits] /\ local \in [Handlers -> Carried] /\ local[h] \in Carried
        /\ dealership \in DealershipRow /\ stripe \in [Subs -> SubStatus]
        /\ payment \in [Invoices -> [status : InvoiceStatus, linked : BOOLEAN]]
        /\ billed \in [Invoices -> [status : InvoiceStatus, sub : Subs \cup {None}]]
    BY DEF BillTypes, HandlerTypes, RowTypes, StripeTypes
  <1>2. \A g \in Handlers \ {h} : pc'[g] = "idle" /\ local'[g] = NoLocals
    BY <1>0, OthersIdle DEF Elsewhere
  <1>3. \A i \in Invoices : Pending(i)' <=> Pending(i)
    BY <1>0 DEF Pending
  <1>4. ASSUME local'[h].todo \subseteq local[h].todo PROVE Listed(h)'
    <2>1. ASSUME NEW t \in local'[h].todo PROVE t.status = billed'[t.invoice].status \/ Pending(t.invoice)'
      <3>1. t \in local[h].todo
        BY <1>4, <2>1
      <3>2. PICK i \in Invoices : i = t.invoice
        BY <1>1, <3>1 DEF Carried, Todo
      <3>3. t.status = billed[i].status \/ Pending(i)
        BY <1>0, <3>1, <3>2 DEF Listed
      <3>4. t.status = billed'[i].status \/ Pending(i)'
        BY <1>0, <1>3, <3>3
      <3>5. QED
        BY <3>2, <3>4
    <2>2. QED
      BY <2>1 DEF Listed
  \* A step that reads only.
  <1>5. ASSUME UNCHANGED rows PROVE Recorded' /\ Subscribed' /\ Standing' /\ CanceledRow'
    BY <1>0, <1>5, RestStays DEF atStripe
  <1>6. CASE ListSubscriptions(h)
    <2>1. pc[h] = "list" /\ UNCHANGED rows /\ dealership' = dealership
      BY <1>6 DEF ListSubscriptions, rows
    <2>2. pc'[h] \in {"backfill", "link_sub"} /\ local'[h].todo = local[h].todo
      BY <1>1, <1>6 DEF ListSubscriptions, Goto, Carried
    <2>3. Progress(h)'
      BY <1>0, <2>1, <2>2 DEF Progress
    <2>4. QED
      BY <1>2, <1>4, <1>5, <2>1, <2>2, <2>3, CaughtFrom
  <1>7. CASE LinkSubscription(h)
    <2>1. /\ pc[h] = "link_sub" /\ dealership.sub = None /\ payment' = payment
          /\ local[h].sub # None /\ stripe[local[h].sub] # "none"
          /\ local[h].next \in {"retrieve", "backfill"}
      BY <1>0, <1>7 DEF LinkSubscription, Progress, Carries, Named
    <2>2. /\ pc'[h] = local[h].next /\ local'[h].todo = local[h].todo
          /\ local'[h].sub = local[h].sub /\ local'[h].pay = dealership.pay
          /\ dealership'.sub = local[h].sub /\ dealership'.pay = dealership.pay
          /\ dealership'.status = dealership.status
      BY <1>1, <1>7 DEF LinkSubscription, Carried, DealershipRow
    <2>3. Progress(h)'
      BY <2>1, <2>2 DEF Progress
    <2>4. /\ handled = 0
          /\ IF log = <<>> THEN \A s \in Subs : stripe[s] = "none" ELSE log[1].type = "subscription"
      BY <1>0, <2>1 DEF CaughtUp, Subscribed
    <2>5. Recorded'
      BY <1>0, <1>3, <2>1 DEF CaughtUp, Recorded
    <2>6. Subscribed'
      BY <1>0, <2>4 DEF Subscribed
    <2>7. Standing'
      <3>1. log # <<>>
        <4>1. local[h].sub \in Subs
          BY <1>1, <2>1 DEF Carried
        <4>2. QED
          BY <2>1, <2>4, <4>1
      <3>2. handled' # Len(log')
        BY <1>0, <2>4, <3>1 DEF BillTypes, StripeTypes
      <3>3. QED
        BY <3>2 DEF Standing
    <2>8. CanceledRow'
      BY <1>0, <2>1, <2>2 DEF CaughtUp, CanceledRow
    <2>9. QED
      BY <1>2, <1>4, <2>2, <2>3, <2>5, <2>6, <2>7, <2>8, CaughtFrom
  <1>8. CASE RetrieveSubscription(h)
    <2>1. pc[h] = "retrieve" /\ UNCHANGED rows /\ dealership' = dealership
      BY <1>8 DEF RetrieveSubscription, rows
    <2>2. /\ pc'[h] = "sync" /\ local'[h].todo = local[h].todo
          /\ local'[h].sub = local[h].sub /\ local'[h].pay = local[h].pay
          /\ local'[h].status = stripe[local[h].sub]
      BY <1>1, <1>8 DEF RetrieveSubscription, Carried
    <2>3. Progress(h)'
      BY <1>0, <2>1, <2>2 DEF Progress
    <2>4. QED
      BY <1>2, <1>4, <1>5, <2>1, <2>2, <2>3, CaughtFrom
  <1>9. CASE SyncDealership(h)
    <2> DEFINE status == local[h].status
    <2>1. /\ pc[h] = "sync" /\ local[h].sub = dealership.sub /\ local[h].pay = dealership.pay
          /\ local[h].sub # None /\ status \in SubStatus
          /\ status = "canceled" => stripe[local[h].sub] = "canceled"
          /\ handled = Len(log) => status = stripe[local[h].sub]
          /\ payment' = payment
      BY <1>0, <1>1, <1>9 DEF SyncDealership, Progress, Carries, Named, Carried
    <2>2. /\ pc'[h] = "backfill" /\ local' = local
          /\ dealership'.sub = local[h].sub /\ dealership'.status = ServiceStatus(status)
          /\ dealership'.pay = IF status = "canceled" THEN local[h].pay ELSE PayStatus(status)
      BY <1>1, <1>9 DEF SyncDealership, Goto, DealershipRow
    <2>3. Progress(h)'
      BY <2>2 DEF Progress
    <2>4. Recorded'
      BY <1>0, <1>3, <2>1 DEF CaughtUp, Recorded
    <2>5. Subscribed'
      BY <1>0, <2>1, <2>2 DEF CaughtUp, Subscribed
    <2>6. Standing'
      <3>1. ASSUME handled' = Len(log'), NEW s \in Subs, Sole(s)' PROVE Agreed(s)'
        <4>1. handled = Len(log) /\ Sole(s)
          BY <1>0, <3>1 DEF Sole
        <4>2. Agreed(s)
          BY <1>0, <4>1 DEF CaughtUp, Standing
        <4>3. status = stripe[s] /\ dealership.sub = s
          BY <2>1, <4>1, <4>2 DEF Agreed
        <4>4. dealership'.pay = PayStatus(stripe[s])
          BY <2>1, <2>2, <4>2, <4>3 DEF Agreed
        <4>5. QED
          BY <1>0, <2>1, <2>2, <4>2, <4>3, <4>4 DEF Agreed
      <3>2. QED
        BY <3>1 DEF Standing
    <2>7. CanceledRow'
      <3>1. ServiceStatus(status) = "canceled" => status = "canceled"
        BY DEF ServiceStatus
      <3>2. QED
        BY <1>0, <2>1, <2>2, <3>1 DEF CanceledRow
    <2>8. QED
      BY <1>2, <1>4, <2>2, <2>3, <2>4, <2>5, <2>6, <2>7, CaughtFrom
  <1>10. CASE BackfillRead(h)
    <2>1. UNCHANGED rows
      BY <1>10 DEF BackfillRead
    <2>2. CASE Done(h)
      <3>1. pc'[h] = "idle" /\ local'[h] = NoLocals
        BY <2>2, DoneStep DEF At
      <3>2. QED
        BY <1>2, <1>5, <2>1, <3>1, IdleProgress, CaughtFrom
    <2>3. CASE ~Done(h)
      <3>1. /\ local' = [local EXCEPT ![h].todo = {[invoice |-> i, status |-> billed[i].status] :
                            i \in {j \in Invoices : billed[j].status # "none"}}]
            /\ pc' = [pc EXCEPT ![h] = "upsert"]
        BY <1>10, <2>3 DEF BackfillRead
      <3>2. /\ pc'[h] = "upsert"
            /\ local'[h].todo = {[invoice |-> i, status |-> billed[i].status] :
                                   i \in {j \in Invoices : billed[j].status # "none"}}
        BY <1>1, <3>1 DEF Carried
      <3>3. \A t \in local'[h].todo : t.status = billed[t.invoice].status
        BY <3>2
      <3>4. Listed(h)'
        BY <1>0, <3>3 DEF Listed
      <3>5. Progress(h)'
        BY <3>2 DEF Progress
      <3>6. QED
        BY <1>2, <1>5, <2>1, <3>4, <3>5, CaughtFrom
    <2>4. QED
      BY <2>2, <2>3
  <1>11. CASE Backfill(h)
    <2>1. dealership' = dealership /\ pc[h] = "upsert"
      BY <1>11 DEF Backfill
    <2>2. CASE Done(h) /\ payment' = payment
      <3>1. pc'[h] = "idle" /\ local'[h] = NoLocals
        BY <2>2, DoneStep DEF At
      <3>2. UNCHANGED rows
        BY <1>11, <1>0, <2>1, <2>2 DEF rows, Backfill
      <3>3. QED
        BY <1>2, <1>5, <3>1, <3>2, IdleProgress, CaughtFrom
    <2>3. CASE \E t \in local[h].todo :
                 /\ payment' = [payment EXCEPT ![t.invoice].status = t.status]
                 /\ local' = [local EXCEPT ![h].todo = @ \ {t}]
                 /\ UNCHANGED <<pc, history>>
      <3>1. PICK t \in local[h].todo :
                 /\ payment' = [payment EXCEPT ![t.invoice].status = t.status]
                 /\ local' = [local EXCEPT ![h].todo = @ \ {t}]
                 /\ pc' = pc
        BY <2>3
      <3>2. PICK i \in Invoices : i = t.invoice /\ (t.status = billed[i].status \/ Pending(i))
        BY <1>0, <1>1, <3>1 DEF Carried, Todo, Listed
      <3>3. local'[h].todo = local[h].todo \ {t} /\ pc'[h] = "upsert"
        BY <1>1, <2>1, <3>1 DEF Carried
      <3>4. Recorded'
        <4>1. ASSUME NEW j \in Invoices PROVE payment'[j].status = billed'[j].status \/ Pending(j)'
          <5>1. CASE j = i
            BY <1>0, <1>1, <1>3, <3>1, <3>2, <5>1
          <5>2. CASE j # i
            BY <1>0, <1>1, <1>3, <3>1, <3>2, <5>2 DEF CaughtUp, Recorded
          <5>3. QED
            BY <5>1, <5>2
        <4>2. QED
          BY <4>1 DEF Recorded
      <3>5. Subscribed' /\ CanceledRow'
        BY <1>0, <2>1 DEF CaughtUp, Subscribed, CanceledRow
      <3>6. Standing'
        BY <1>0, <2>1 DEF CaughtUp, Standing, Sole, Agreed
      <3>7. Progress(h)'
        BY <3>3 DEF Progress
      <3>8. QED
        BY <1>2, <1>4, <3>3, <3>4, <3>5, <3>6, <3>7, CaughtFrom
    <2>4. QED
      BY <1>11, <2>2, <2>3 DEF Backfill
  <1>12. QED
    BY <1>6, <1>7, <1>8, <1>9, <1>10, <1>11 DEF Page

LEMMA OrderlyStep ==
  ASSUME BillInv, BillTypes', Next
  PROVE  OrderlyInv'
  <1> SUFFICES ASSUME orderly' PROVE CaughtUp'
    BY DEF OrderlyInv
  <1> USE DEF BillInv
  <1>1. CASE Business
    <2>1. orderly
      BY <1>1, BusinessStep DEF history
    <2>2. QED
      BY <1>1, <2>1, BusinessStep, OrderlyBusiness
  <1>2. CASE SetAutoExpense
    <2>1. orderly
      BY <1>2 DEF SetAutoExpense, history
    <2>2. QED
      BY <1>2, <2>1, OrderlySetting
  <1>3. ASSUME NEW h \in Handlers, Turns(h) PROVE CaughtUp'
    BY <1>3, OrderlyTurn
  <1>4. ASSUME NEW h \in Handlers, Delivery(h) PROVE CaughtUp'
    BY <1>4, TurnDelivery, OrderlyGoing, OrderlyDone
  <1>5. ASSUME NEW h \in Handlers, Page(h) PROVE CaughtUp'
    BY <1>5, TurnPage, OrderlyPage
  <1>6. QED
    BY <1>1, <1>2, <1>3, <1>4, <1>5 DEF Next, Business, Turns, Delivery, Page

-----------------------------------------------------------------------------
(* The invariant.                                                          *)

LEMMA TypesStep ==
  ASSUME BillTypes, NamesInv, Next
  PROVE  BillTypes'
  <1>1. CASE Business
    <2>1. StripeTypes' /\ UNCHANGED <<rows, pc, local, history>>
      BY <1>1, BusinessStep DEF Reported
    <2>2. QED
      BY <2>1 DEF BillTypes, rows, history, RowTypes, HandlerTypes
  <1>2. CASE SetAutoExpense
    <2>1. dealership' \in DealershipRow
      BY <1>2 DEF SetAutoExpense, BillTypes, RowTypes, DealershipRow
    <2>2. QED
      BY <1>2, <2>1 DEF SetAutoExpense, BillTypes, atStripe, history, StripeTypes, RowTypes, HandlerTypes
  <1>3. ASSUME NEW h \in Handlers, Turns(h) \/ Delivery(h) \/ Page(h) PROVE BillTypes'
    BY <1>3, TurnTypes, DeliveryTypes, PageTypes
  <1>4. QED
    BY <1>1, <1>2, <1>3 DEF Next, Business, Turns, Delivery, Page

\* The count of events handled in order never passes the log.
LEMMA HandledStep ==
  ASSUME BillTypes, NamesInv, HandledInv, TurnInv, Next
  PROVE  HandledInv'
  <1>1. handled \in Nat /\ Len(log) \in Nat
    BY DEF BillTypes, HandlerTypes, StripeTypes
  <1>2. Len(log') \in Nat /\ Len(log) <= Len(log')
    <2>1. Reported \/ UNCHANGED atStripe
      BY StripeSide DEF Next, Business, Turns, Delivery, Page
    <2>2. QED
      BY <1>1, <2>1 DEF Reported, atStripe
  <1>3. ASSUME NEW h \in Handlers, Done(h) PROVE handled' <= Len(log)
    BY <1>1, <1>3, DoneStep, NextEvent DEF HandledInv
  <1>4. handled' = handled \/ \E h \in Handlers : Done(h)
    <2>1. CASE Business \/ SetAutoExpense
      BY <2>1, BusinessStep DEF SetAutoExpense, history
    <2>2. ASSUME NEW h \in Handlers, Turns(h) PROVE handled' = handled
      BY <2>2 DEF Turns, Deliver, BillingRead, Crash
    <2>3. ASSUME NEW h \in Handlers, Delivery(h) \/ Page(h) PROVE Done(h) \/ handled' = handled
      BY <2>3, DeliveryTypes, TurnPage DEF history
    <2>4. QED
      BY <2>1, <2>2, <2>3 DEF Next, Business, Turns, Delivery, Page
  <1>5. handled' \in Nat
    BY TypesStep DEF BillTypes, HandlerTypes
  <1>6. handled' <= Len(log)
    BY <1>3, <1>4 DEF HandledInv
  <1>7. QED
    BY <1>1, <1>2, <1>5, <1>6 DEF HandledInv

LEMMA BillStep == BillInv /\ [Next]_vars => BillInv'
  <1> SUFFICES ASSUME BillInv, [Next]_vars PROVE BillInv'
    OBVIOUS
  <1>1. CASE Next
    <2>1. BillTypes'
      BY <1>1, TypesStep DEF BillInv
    <2>2. LogInv'
      <3>1. Final /\ (Reported \/ UNCHANGED atStripe)
        BY <1>1, StripeSide DEF BillInv, Next, Business, Turns, Delivery, Page
      <3>2. QED
        BY <3>1, LogStep DEF BillInv
    <2>3. NamesInv' /\ TurnInv' /\ HandledInv'
      BY <1>1, NamesStep, TurnStep, HandledStep DEF BillInv
    <2>4. ExpenseInv'
      BY <1>1, <2>1, ExpenseStep DEF BillInv
    <2>5. OrderlyInv'
      BY <1>1, <2>1, OrderlyStep
    <2>6. QED
      BY <2>1, <2>2, <2>3, <2>4, <2>5 DEF BillInv
  <1>2. CASE UNCHANGED vars
    <2>1. UNCHANGED <<stripe, billed, log, dealership, registration, payment, expenses, pc, local,
                      handled, orderly, crashes>>
      BY <1>2 DEF vars, atStripe, rows, history
    <2>2. BillTypes'
      BY <2>1 DEF BillInv, BillTypes, StripeTypes, RowTypes, HandlerTypes
    <2>3. LogInv' /\ NamesInv' /\ HandledInv'
      BY <2>1 DEF BillInv, LogInv, NamesInv, HandledInv, RowNames, Named, EventTrue, LastTrue
    <2>4. ExpenseInv' /\ TurnInv'
      BY <2>1 DEF BillInv, ExpenseInv, ExpenseOf, Booked, Linking, TurnInv
    <2>5. OrderlyInv'
      <3> SUFFICES ASSUME orderly' PROVE CaughtUp'
        BY DEF OrderlyInv
      <3>1. CaughtUp
        BY <2>1 DEF BillInv, OrderlyInv
      <3>2. \A g \in Handlers : Progress(g)' /\ Listed(g)'
        BY <2>1, <3>1 DEF CaughtUp, Progress, Listed, Pending
      <3>3. Recorded' /\ Subscribed' /\ Standing' /\ CanceledRow'
        BY <2>1, <3>1, RestStays DEF atStripe, rows
      <3>4. QED
        BY <3>2, <3>3 DEF CaughtUp
    <2>6. QED
      BY <2>2, <2>3, <2>4, <2>5 DEF BillInv
  <1>3. QED
    BY <1>1, <1>2

LEMMA BillInit == Init => BillInv
  <1> SUFFICES ASSUME Init PROVE BillInv
    OBVIOUS
  <1>1. PICK sub \in Subs \cup {None}, standing \in {"pending", "on_time"} :
          /\ standing = IF sub = None THEN "pending" ELSE "on_time"
          /\ stripe = [s \in Subs |-> IF s = sub THEN "active" ELSE "none"]
          /\ billed = [i \in Invoices |-> [status |-> "none", sub |-> None]]
          /\ log = <<>>
          /\ dealership = [status |-> "active", pay |-> standing, sub |-> sub, autoExpense |-> TRUE]
          /\ registration = [status |-> "active", pay |-> standing, sub |-> sub]
          /\ payment = [i \in Invoices |-> [status |-> "none", linked |-> FALSE]]
          /\ expenses = [i \in Invoices |-> 0]
          /\ pc = [h \in Handlers |-> "idle"]
          /\ local = [h \in Handlers |-> NoLocals]
          /\ handled = 0 /\ orderly = TRUE /\ crashes = 0
    BY DEF Init
  <1>2. None \notin Subs /\ MaxLog \in Nat /\ MaxCrashes \in Nat /\ Len(log) = 0
    BY <1>1, BillingAssumption
  <1>3. BillTypes
    <2>1. stripe \in [Subs -> SubStatus]
      BY <1>1 DEF SubStatus
    <2>2. log \in Seq(Events) /\ Len(log) <= MaxLog
      BY <1>1, <1>2
    <2>3. StripeTypes
      BY <1>1, <2>1, <2>2 DEF StripeTypes, InvoiceStatus
    <2>4. RowTypes
      BY <1>1 DEF RowTypes, Row, DealershipRow, PayStates, InvoiceStatus
    <2>5. HandlerTypes
      BY <1>1, <1>2, NoLocalsType DEF HandlerTypes, Awaits
    <2>6. QED
      BY <1>1, <2>3, <2>4, <2>5, NoLocalsType DEF BillTypes
  <1>4. LogInv /\ HandledInv /\ TurnInv
    <2>1. 1..Len(log) = {}
      BY <1>2
    <2>2. LogInv
      BY <1>2, <2>1 DEF LogInv
    <2>3. HandledInv /\ TurnInv
      BY <1>1, <1>2 DEF HandledInv, TurnInv, NoLocals
    <2>4. QED
      BY <2>2, <2>3
  <1>5. NamesInv
    <2>1. RowNames
      BY <1>1 DEF RowNames
    <2>2. \A h \in Handlers : Named(pc[h], local[h])
      BY <1>1 DEF Named, NoLocals
    <2>3. QED
      BY <2>1, <2>2 DEF NamesInv
  <1>6. ExpenseInv
    BY <1>1 DEF ExpenseInv, ExpenseOf, Booked, Linking
  <1>7. CaughtUp
    <2>1. \A h \in Handlers : Progress(h) /\ Listed(h)
      BY <1>1 DEF Progress, Listed, NoLocals
    <2>2. Recorded
      BY <1>1 DEF Recorded
    <2>3. Subscribed
      BY <1>1, <1>2 DEF Subscribed
    <2>4. ASSUME NEW s \in Subs, Sole(s) PROVE Agreed(s)
      <3>1. s = sub /\ sub # None /\ stripe[s] = "active"
        BY <1>1, <1>2, <2>4 DEF Sole
      <3>2. QED
        BY <1>1, <3>1 DEF Agreed, ServiceStatus, PayStatus
    <2>5. CanceledRow
      BY <1>1 DEF CanceledRow
    <2>6. QED
      BY <2>1, <2>2, <2>3, <2>4, <2>5 DEF CaughtUp, Standing
  <1>8. QED
    BY <1>3, <1>4, <1>5, <1>6, <1>7 DEF BillInv, OrderlyInv

(* The rows, Stripe's objects and what the requests carry across their      *)
(* awaits are what the invariant says, whatever order the events come in.   *)
THEOREM BillingInvariant == Spec => []BillInv
  <1>1. QED
    BY BillInit, BillStep, PTL DEF Spec

(* The rows have the types of the schema, Stripe's objects those of its API. *)
THEOREM BillingTypes == Spec => []TypeOK
  <1>1. BillInv => TypeOK
    <2> SUFFICES ASSUME BillInv PROVE TypeOK
      OBVIOUS
    <2>1. StripeTypes /\ RowTypes /\ HandlerTypes
      BY DEF BillInv, BillTypes
    <2>2. [f \in {"status", "pay", "sub"} |-> dealership[f]] \in Row
      <3>1. dealership \in DealershipRow
        BY <2>1 DEF RowTypes
      <3>2. [f \in {"status", "pay", "sub"} |-> dealership[f]]
              = [status |-> dealership.status, pay |-> dealership.pay, sub |-> dealership.sub]
        OBVIOUS
      <3>3. [status |-> dealership.status, pay |-> dealership.pay, sub |-> dealership.sub] \in Row
        BY <3>1 DEF DealershipRow, Row, PayStates
      <3>4. QED
        BY <3>2, <3>3
    <2>3. dealership.autoExpense \in BOOLEAN
      BY <2>1 DEF RowTypes, DealershipRow
    <2>4. \A h \in Handlers : local[h].event \in Events \cup {None} /\ local[h].todo \subseteq Todo
      BY <2>1 DEF HandlerTypes, Carried
    <2>5. handled \in 0..Len(log) /\ crashes \in 0..MaxCrashes
      BY <2>1 DEF BillInv, HandledInv, HandlerTypes, StripeTypes
    <2>6. QED
      BY <2>1, <2>2, <2>3, <2>4, <2>5 DEF TypeOK, StripeTypes, RowTypes, InvoiceStatus
  <1>2. QED
    BY <1>1, BillingInvariant, PTL

(* A row that says canceled names a subscription that is canceled at Stripe:  *)
(* the registration however deliveries are ordered, repeated, overlapped or   *)
(* cut short, the dealership unless requests overlapped.                      *)
THEOREM CanceledOnlyAtStripe == Spec => []CanceledAtStripe
  <1>1. BillInv => CanceledAtStripe
    BY DEF BillInv, CanceledAtStripe, NamesInv, RowNames, OrderlyInv, CaughtUp, CanceledRow
  <1>2. QED
    BY <1>1, BillingInvariant, PTL

(* An expense is only booked for an invoice the customer paid, every payment  *)
(* that names an expense has one, and, one request at a time, an invoice is   *)
(* booked at most once more than handlers crashed.                            *)
THEOREM ExpensesAreBacked == Spec => []ExpensesBacked
  <1>1. BillInv => ExpensesBacked
    <2> SUFFICES ASSUME BillInv, NEW i \in Invoices
                 PROVE  /\ expenses[i] > 0 => billed[i].status = "paid"
                        /\ payment[i].linked => expenses[i] > 0
                        /\ orderly => expenses[i] <= 1 + crashes
      BY DEF ExpensesBacked
    <2>1. ExpenseOf(i) /\ crashes \in Nat /\ expenses[i] \in Nat
      BY BillingAssumption DEF BillInv, ExpenseInv, BillTypes, HandlerTypes, RowTypes
    <2>2. expenses[i] > 0 => billed[i].status = "paid"
      BY <2>1 DEF ExpenseOf
    <2>3. payment[i].linked => expenses[i] > 0
      BY <2>1 DEF ExpenseOf, Booked
    <2>4. ASSUME orderly PROVE expenses[i] <= 1 + crashes
      <3>1. expenses[i] <= crashes + IF Booked(i) THEN 1 ELSE 0
        BY <2>1, <2>4 DEF ExpenseOf
      <3>2. QED
        BY <2>1, <3>1
    <2>5. QED
      BY <2>2, <2>3, <2>4
  <1>2. QED
    BY <1>1, BillingInvariant, PTL

(* Once Stripe's events were all handled, one at a time and in order, every   *)
(* invoice is on record as it is at Stripe, and both rows agree with Stripe   *)
(* on the customer's one subscription, whatever the Payment Settings page     *)
(* wrote between the events and whichever handlers crashed.                   *)
THEOREM AgreesOnceCaughtUp == Spec => []AgreesWithStripe
  <1>1. BillInv => AgreesWithStripe
    <2> SUFFICES ASSUME BillInv, Caught
                 PROVE  /\ \A i \in Invoices : payment[i].status = billed[i].status
                        /\ \A s \in Subs : Sole(s) => Agreed(s)
      BY DEF AgreesWithStripe, Sole, Agreed
    <2>1. CaughtUp /\ handled = Len(log) /\ Len(log) \in Nat
      BY DEF BillInv, OrderlyInv, Caught, BillTypes, StripeTypes
    <2>2. \A i \in Invoices : ~Pending(i)
      BY <2>1 DEF Pending
    <2>3. QED
      BY <2>1, <2>2 DEF CaughtUp, Recorded, Standing
  <1>2. QED
    BY <1>1, BillingInvariant, PTL
=============================================================================

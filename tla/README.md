# AutoVault backend: specifications, model checks and proofs

AutoVault is a multi-tenant CRM for car dealerships: an Express application over PostgreSQL
(Prisma) and Redis, run as a PM2 cluster, with Stripe for billing and Brevo for e-mail. Paths
below are relative to `src/src/` of the repository unless they start with `prisma/`.

Almost every operation is an async handler that runs one query after another. Few of them use
a transaction, none of them a serializable one, and the cluster serves many requests at once. What
is hard about this code is therefore not its arithmetic. It is what happens *between* two awaits:
a row that was checked and has changed, two requests that both passed a check, a process that died
half way, an event that Stripe delivered twice. The models are cut at exactly those points.

## 1. Inventory

| Component | State | Operations that change it | Interacts with |
|---|---|---|---|
| Deal desk (`modules/deals`, `modules/jackets`, parts of `vehicles` and `payroll`) | Vehicle, Deal, DealJacket, SalesRepCommission | markSold, importPreviousSold, markLoss, createJacket, updateJacket, submit / resubmit / requestChanges / approve / reject, changeVehicleStatus, deleteVehicle, updateCommission, markCommissionPaid, archiveSalesRep | shared tables |
| Onboarding (`modules/onboarding`, `modules/dealerships`) | Registration, Dealership, the owner's User | upsertRegistration, createCheckout, completeRegistration, Stripe's subscription events, sendWelcomeIfNeeded, activateFromRegistration | Billing (the same webhook), mail |
| Billing (`modules/billing`, `modules/onboarding/webhook.service.js`) | Dealership, Registration, BillingPayment, DealershipExpense | nine event types (two of them only refresh the card), getBilling, getBillingHistory, createBillingCheckout, updateBillingSettings | Stripe, Onboarding, Expenses |
| Inventory (`modules/vehicles`, `modules/wholesale`) | Vehicle, VehicleExpense, FlooringPlan, FlooringUndoSnapshot | create / update / delete vehicle, status changes, vehicle expenses, flooring save / clear / restore, wholesale edits and sales | Deal desk |
| Payroll (`modules/payroll`) | StaffMember, SalesRep, PayrollRun, SalesRepCommission | staff, reps, runs, the history that writes paydays | Deal desk, Books |
| Expenses, tax and reports (`modules/expenses`, `tax`, `reports`, `dashboard`, `wholesale`) | DealershipExpense, TaxFilingPeriod and its linked deals | expense and period edits; profit and loss, dashboard and wholesale figures | Payroll, Deal desk |
| Team and sessions (`modules/auth`, `modules/users`) | User, RefreshToken, PasswordResetToken, Invitation | login, refresh, logout, reset and change of password, users, invitations | everything |
| Messaging (`modules/messages`, `lib/socket.js`, `jobs/messages.js`) | Conversation, members, Message, MessageRead, Presence, socket rooms | conversations, the reps' group chat, members, messages, readings, rooms, presence | Team, Payroll, Jobs |
| Jobs (`jobs/*`, `lib/redis.js`) | Redis list, reminder marks, notification_queue | reminders, queue worker with retries, message notifications | mail, Messaging |
| Social publishing (`modules/platform/socials`, X, Meta and LinkedIn integrations) | Supabase rows, log files, token files | create, retry and delete posts, connect a network, refresh X's token | the networks |
| Admission control (`common/auth-middleware.js`, `lib/rate-limit-store.js`, `jenna.limiter.js`, `contact.service.js`) | counters in each process or in Redis | the paywall, the rate limiter, Jenna's quota, the contact form | Billing, all requests |
| Password hashing (`lib/password-hash.js`) | the pool's queue and worker threads | hash, compare, answer, failure and respawn | Team, Onboarding |
| Money functions (`common/*`) | none | profit, commission, fees, VIN | all |
| Files, customers, calendar, notes, support, CPA, Jenna's tools, search, owner's pages | one row each, or none | single-row edits, external calls, reads | - |

Hard behaviours, by kind (`PROJECT.json` lists each at its line):

* *check, then act*: `assertVehicleForDeal`, `createJacket`, `transitionJacket`, `approveJacket`,
  `sendWelcomeIfNeeded`, `maybeCreateAutoExpense`, `getPayrollHistory`, `refresh`, group chats;
* *partial writes*: `markSold` (five tables, no transaction), sign-up, mail-then-mark, flooring restore;
* *unreliable delivery*: Stripe's webhooks, the mail queue, reminder jobs;
* *stale reads written back*: `getBilling`, `recalculateTotalInvested`, the jacket's status;
* *long legal sequences*: draft then reject then sell; upgrade then cancellation of the old plan.

What makes each component correct:

* Deal desk: one sale per vehicle; no deal is left without a jacket except by a crash; an answered
  sale is complete; a final jacket is final; commissions exist only for approved jackets and a
  paused one stays paused; jackets and their numbers are unique.
* Onboarding: one account per registration, one welcome mail, and its password works.
* Billing: the rows agree with Stripe, no account is canceled that pays, each payment is booked once.
* Inventory: the total of a vehicle is the sum of its costs; status and sale date agree, and so do the
  prices on vehicle, deal and jacket; live VINs differ; an undo is newer than the plan it undoes.
* Payroll: one automatic run per payday, which pays a person once and adds up.
* Expenses, tax and reports: one expense yields the same figure on every page that shows it, a long
  report is the sum of its months, and a closed tax period is kept.
* Team: a session belongs to the password in force; an email has one open invitation and three mails.
* Messaging: one group chat whose members are the active reps, one direct chat of a pair; preview,
  unread count, receipts and rooms agree with messages and memberships; who left is shown offline.
* Jobs: a reminder or a message is announced once, and a marked one is not lost silently.
* Social publishing: a post appears once at each network, and X accepts the stored token.
* Admission control: no more is admitted than the limits allow, and nothing is served past the paywall.
* Password hashing: every task is answered once, by its own answer.

## 2. Modules

    SaleLedger                abstract: a vehicle's sale is opened, booked, earned
        ^ refines
    DealDesk  <-- MCDealDesk (TLC: symmetry, operation mixes)
        ^
    DealDesk_proofs           theorems, for all constants; a part of them is about
                              one request at a time

    Onboarding                sign-up and the welcome e-mail under its lock
    Billing  <-- MCBilling    Stripe, its webhooks and Payment Settings (TLC: symmetry)

    Requests                  how Express serves requests: pc, local, begun
        ^ extended by
    Inventory  <-- MCInventory
    Socials, Team, Messaging, Threads, Payroll, Books, Jobs, Admission, HashPool
        ^ composed by
    MCOffice                  one run over these nine

    Onboarding_proofs, Billing_proofs, Inventory_proofs
                              theorems about the modules they are named for
    Accounts_proofs           ... about Team and Socials
    Messages_proofs           ... about Threads and Messaging
    Queues_proofs             ... about Jobs and HashPool
    Office_proofs             ... about Admission, Payroll, Books, and of MCOffice; it
                              extends Queues_proofs

### DealDesk

A process per request. `pc[r]` is the await the request is at, `local[r]` what it read and will use
later, and the four tables are functions from row ids. A request creates at most one Deal and one
DealJacket, so both are named by the request. An action is the code between two awaits:

| Code | Actions |
|---|---|
| `markSold` | SellRead, SellCheck (vehicle, then the included deal and jackets: Prisma loads an `include` with separate queries), CreateDeal / UpdateDeal, CountJackets, FileJacket, SellVehicle, SellCommission |
| `importPreviousSold` | ImportVehicle, then CreateDeal, CountJackets, FileJacket |
| `createJacket` | DraftRead, DraftCheck, CountJackets, DraftCommit (a transaction) |
| submit, resubmit, request changes | ReviewRead, MoveJacket (update by id, without the status) |
| approve, reject | ReviewRead, ReviewOpen (the transaction locks the jacket row, reads the vehicle), ApproveCommit / RejectCommit |
| `markLoss`, `changeVehicleStatus`, `deleteVehicle` | VehicleRead, VehicleWrite / DeleteVehicle |
| `updateCommission`, `markCommissionPaid` | CommissionRead, CommissionWrite |
| `archiveSalesRep` | ArchiveRead, ArchiveRep (a transaction) |

Abstractions. Amounts, customers, activity, history and audit rows are left out. A row's terms, its
sales rep and its remarks (`rosNumber` and `notes`) are each named by the request that gave them.
`Optional` is what a client may leave out: the rep, the commission and the remarks; `Payloads` says which
of it the requests of an instance give. When `markSold` completes the sale of a crashed request, what was
left out is the crashed deal's in the deal, as `assertVehicleForDeal` read it; in the jacket the rep is the
deal's too, but remarks are null (deals.service.js:319-321, 335, 347-348). An import always writes remarks,
though it words them differently in its two rows. `pays` says that there is a sales rep and a positive
commission. `needs_attention` and `arbitration` behave as `in_stock` here, `out_of_state_sale` as
`wholesale`. A unique constraint of the schema (`Deal.vehicleId`, `DealJacket.dealId`,
`SalesRepCommission.dealJacketId`) is the guard of the create that would violate it; its violation
refuses the request, or aborts the transaction. READ COMMITTED is modelled by the two steps of the
approval. A request that its first check refuses changes nothing and is not a step.

### SaleLedger

What a reader of the tables may rely on: a sale goes `none`, `opened` (there is a deal), `booked` (a
jacket is filed on it), a booked sale earns at most one commission, and nothing is undone.

### Onboarding

One registration. `reg` is its row, `password[d]` the owner's password in the account that request
`d` opened, `mails` the temporary passwords that left the building, `failures` the attempts that ended
in the catch of `sendWelcomeIfNeeded`. The form, the completion link and subscription events each run
their handler and then WelcomeRead, Lock (a conditional `updateMany`), OpenAccount, MintPassword,
SendMail, MarkSent, and Unlock after a Fail. `Faults` chooses among crashes, failing queries and a failing mail
provider. `payment_failed` and `canceled` both stand for "not active"; a taken slug is a failing query;
the statuses an event writes to an existing dealership belong to Billing.

### Billing

One dealership, which is its Stripe customer. `stripe` and `billed` are Stripe's own objects, `log` the
events it has sent. `Deliver` takes *any* event of the log, at any time: late, early or again. That one
action covers duplicates, reordering, and redelivery after a crash. The handlers' awaits are the
actions SubRegistration ... AgainDealership; `getBilling` and `getBillingHistory` are BillingRead ...
Backfill. `handled` and `orderly` are history variables: `orderly` holds while events were taken one at a time and in
Stripe's order, which is the assumption under which agreement can be promised at all.
The checkout page and the payment on it are one step (`Subscribe`), and a subscription stands for its
plan. Prices, cards, period ends, the two constant writes of a `pay_due` checkout, and errors of
Stripe's API other than the one of `cancel` are left out; so is the read of `autoExpense` that precedes
the expense by one await. The welcome mail that a subscription event triggers belongs to Onboarding.

### Requests

Express handlers, socket callbacks and jobs are async functions; anything may run between two of their
awaits. `pc[h]` is the await a handler is at, `local[h]` what it carries across it, `begun` how many
requests have been made (`MaxRequests` bounds them). `Begin`, `Goto`, `Carry` and `Answer` are the moves
(`With` is what `Carry` adds to what was carried);
`errorHandler` turns whatever a handler throws into an answer, so a failing statement is `Answer` with
the writes made so far left standing. Each component below has one action per await and a `Fail` action.

### Inventory

`vehicle` rows carry VIN, cost, total, status, sale date and the prices of vehicle, deal and jacket;
`expense`, `plan` and `undo` are the other tables. `updateVehicle` is UpdateCheck, UpdateRow,
UpdateDeal, UpdateJacket; an expense request is ExpenseRead, ExpenseSum or ExpenseCommit, RecalcRead,
RecalcWrite; a floor plan is PlanWrite, the undo SaveCapture, SaveUndo, FindUndo, DeleteExpired,
RestorePlan (outside any transaction) and RestoreVehicles, clearing it ClearFind and ClearDelete. The
wholesale page's edits, bare status writes and sales are actions on the same rows. `doubt` is a history
variable: which fact of which vehicle an overlap, a failure or a bare write has left open. A property
speaks of the vehicles nobody is working on and whose fact is not in doubt, and a later request that
writes the fact from scratch takes the doubt away. `createVehicle` accepts any status and writes no sale
date: one that is created sold, lost or wholesaled has its date in doubt until a status change writes it
(`Dateless`). The edits of `updateVehicle` that reach a deal and a jacket are here, not in DealDesk, which
leaves amounts out.

### Team

A session is a refresh token that is not revoked, and carries the *era* of the password it goes back to.
`refresh` is Refresh (find), Rotate (revoke) and Issue (store), a reset ResetFind and ResetPassword, a
change ChangeCheck and ChangePassword, deactivation DeactivateFind, DeactivateUser, Revoke; archiving a
sales rep ArchiveFind, ArchiveRep; an invitation InviteRead, InviteWrite, InviteMail, AcceptFind, Accept.
`contested` names the emails whose invitations overlapped, `stale` the users who may have a session too
many: a login, a refresh or another change raced, a revocation failed, or the request was one of the two
that revoke nothing, a rep's invitation and a rep's archiving.

### Messaging and Threads

Messaging holds the two kinds of chats the backend creates by itself or on first use, and presence.
`ensureSalesRepGroupChat` is EnsureRead ... EnsureLeave, one action per query; `sole` is the sync that
began alone, until another begins. Presence writes go
through the cache of one process: Upsert decides, PresenceWrite writes, CleanupPresence is the job.
Threads is one named group: `thread` its messages, `preview` the list's line, `member` the memberships
with the time last read, `receipts` the MessageRead rows, `socket` and `room` the live side.

### Payroll and Books

Payroll keeps people and runs; GetPayrollHistory computes the paydays without a run from what it read
and writes them one at a time (Persist). Books has the rows three pages read, and their figures as
operators: `Net` is `profitLoss`, `ExpenseTotal` the dashboard's figure, `WholesaleOperating` the
wholesale page's. Amounts are in thousandths because a weekly cost counts 4.333 times a month, and
`Rounded` is `roundMoney`: the report rounds its operating expenses, its payroll and its net, the dashboard
its sum; the wholesale page does not. Sums of months and of a range therefore agree within half a cent for
every rounded figure (`Slack`). `Spared` is what the comment at reports.service.js:48-49 says a longer
range leaves out; `DueMonths` counts it by stepping through the calendar, not as the code does. What
the code adds up with `reduce` is `SumFunction` of a function, which is also what the proofs reason about.

### Jobs

`account` and `days` are what the reminders look at, `queue` the Redis list, `notices` the
notification rows. RunBillingReminders, DeliverQueued or DeliverDirect, MarkReminder are the sender's
awaits; Dequeue, SendJob or SendFails, Requeue or RequeueFails the worker's. What may be applied without an
answer: a push (PushUnheard: the job is on the list, and the client pushes it again or `enqueueJob` says
false and the reminder is mailed directly as well), a pop (DequeueUnheard: the job is gone, the batch ends
or goes on), a mail (SendUnheard, and within DeliverDirect). A lost answer of Redis counts as one of the
instance's requests. Where `mailing` is false, `sendEmail` returns null without an error and a job counts
as sent. Time does not move on while a reminder run is in flight; a billing period is renewed by Renew.

### Socials

`post` rows, `logs` entries and `xToken` are stored, `published` and `xAccepts` are what the networks
hold. A request goes through the networks in order (NextNetwork), each attempt a log entry, an upload,
a publication and the record of it. A network may publish although its answer is lost.

### Admission

`meter` is what each worker process counts in memory; `quota` Jenna's calls, in Redis or in a worker's
memory. A write passes requireProductAccess before the limiter, a read the limiter alone; a call of Jenna
passes both and then consumes the quota. The paywall lets the writes of a dealership it does not find
pass, which is what `mayWrite` says. A contact form with a filled honeypot is answered ok and ignored
(`IgnoreContact`); where mail is not configured (`brevo`) a contact is answered ok and nothing leaves.
`Increment` counts in memory always: redisReady tests a client that nothing creates. Restart empties a
worker's memory and ends its requests. `admitted` and `asked` are the history the property counts over:
who came through which limit when, who was answered.

### HashPool

`workers` is the array of slots, `worker` what the main thread knows of each worker ever spawned,
`hasher` its thread with the messages to take and the events underway, `promise` what became of each
task. Dispatch is a fold over the queue, as the code's `while` loop is. An error may be heard before an
answer that was sent earlier, an exit only after it. A thread that has ended answers nothing more
(`HasherAnswers` asks that it `runs`).

## 3. Runs

| Run | Bounds | Distinct states | Question and answer |
|---|---|---|---|
| `races` | 1 vehicle, 4 requests of every kind, 3 in flight; of the optional fields all or none | 2.8 M | Despite every interleaving and crash: one jacket with a deal per vehicle, a deal without jacket is being written or crashed, an answered markSold is complete, a sale's jacket never changes, a commission follows an approval; the tables implement SaleLedger |
| `serial` | 2 vehicles, 4 requests, 1 in flight; no rep, or everything | 2.4 M | What needs requests not to overlap, but survives crashes: one jacket per vehicle, unique numbers, deal and jacket of the same terms and rep and of remarks that differ only where a completion left them out, paused commissions stay paused, final jackets stay final |
| `fair` | 1 vehicle, 3 requests | 0.46 M | Every deal gets its jacket, if no request on the vehicle crashes |
| `twoJackets` | 2 requests | - | *Violated*: two `createJacket` leave two jackets on a vehicle |
| `rejected` | 2 requests, 1 in flight | - | *Violated*: after a rejected draft the vehicle is in stock and unsaleable |
| `faults` | 3 requests, all faults | 1.0 M | The lock is held by whoever is past it; at most one mail of an attempt that did not fail; a second account only after a failure; mailed credentials work; nothing is re-minted once marked; the mail arrives unless something failed |
| `secondAccount` | 2 requests, only mail fails | - | *Violated*: one registration, two dealerships |
| `webhooks` | 2 handlers, 2 subscriptions, 1 invoice, 5 events, 1 crash | 8.5 M | With overlapping, repeated, reordered deliveries a canceled row names a subscription that is canceled and no expense lacks a payment; with orderly ones the rows agree with Stripe and every invoice is on record |
| `upgrade` | 1 handler, 5 events | - | *Violated*: a successful upgrade ends with a canceled account |
| `inventory` | 2 handlers, 3 requests, 2 vehicles, 2 VINs, 2 expenses, 2 prices | 0.65 M | VINs stay unique; totals, statuses, dates and prices agree wherever no overlap, failure or bare write left them in doubt; an undo postdates the plan |
| `office` | 2 handlers, 3 requests; 1 post and 2 audiences, 1 email, 2 reps, 2 sockets, 2 members, 2 weeks, 4 months of 3-month years, 1 expense, 2 worker processes and 3 ticks, 2 hashing threads and 2 failures | 2.0 M | The properties of the nine components MCOffice extends, below |
| `cluster` | the admission part of `office` | - | *Violated*: two processes that share a Redis admit twice the limit |

`office`. The components in MCOffice share no table with each other in these models, so interleaving them
would only multiply their states. `focus` picks one of them for a behaviour; the others stand still, and
where they may start is fixed. Admission starts with Redis or with mail, not with both or neither: the one
only matters to Jenna's quota, the other to the contact form. Its properties, with what excuses each, are
stated above the definitions: `PublishedOnce`, `XTokenWorks`, `SessionsCurrent`, `InvitesBounded`,
`OneChatEach`, `MembersSeeTheThread`, `PresenceSettles` (liveness), `RunsExplained`, `FiguresAgree`,
`NoticesAccounted` and `ServerHolds`. The excuses are history variables, set by the action that opens the
gap and reset by the one that mends it; the properties therefore also say that nothing else opens one.

Why the bounds are enough to be interesting. A race here is between two requests over the state a third
one left, and the decision that a fourth took: `races` has room for a crashed sale, two completions and
an approval; `inventory` and `office` have two requests in flight and one before or after them. No table
row relates two vehicles except the jacket numbers and the VINs, for which `serial` and `inventory` have
two. `serial` leaves out losses and deletions, which only take a vehicle away from the desk and are in
`races`. `webhooks` starts without a subscription or with one that is active, so that five events hold a
failed payment and its retry, or an upgrade, with two handlers overlapping on every pair of event types.
The paydays of `office` cross a New Year, its reports four months of two years, so that one range is
longer than a year; a window of the limiter
is two ticks of three, a limit one request. Handlers are interchangeable where symmetry is used
(`races`, `serial`, `webhooks`, `inventory`), and no liveness property is checked there.

`CHECK_DEADLOCK FALSE` stands where every client's request has been served and the system may rest.

*Findings.* The violated runs are disagreements between the code and what the repository says of it;
`PROJECT.json` quotes both sides. What the models show besides, without a run of its own; the
properties name each as an exception:

* Billing: overlapping `invoice.paid` and `invoice.payment_succeeded` deliveries, or a crash before the
  expense is linked, may book one payment twice; `start_subscription` while the first subscription is
  past due leaves two live ones.
* Deal desk: a completed sale keeps the crashed one's `rosNumber` and `notes` in the deal and has null in
  the jacket (deals.service.js:320-321 against 347-348).
* Inventory: `createVehicle` inserts an exit status without a sale date; `updateVehicle` may be refused
  half way; a return to inventory clears the price on the vehicle, not on its deal; wholesale edits write
  status and cost without the date and the total.
* Payroll: a history asked for an earlier year than `upto`'s reads that year's runs only and creates the
  later paydays again each time; parallel histories create a payday twice, which the comment at
  `payroll.service.js:1274` calls harmless; overlapping `createStaff` may put a person on the payroll twice;
  `deletePayrollRun` may delete a run that was marked paid meanwhile.
* Team: a sales rep's invitation changes the password, `archiveSalesRep` deletes the user, and neither ends
  a session.
* Jobs: a push that Redis applied without answering is mailed directly as well; a job whose pop was not
  answered is gone although its reminder is marked; without `BREVO_API_KEY` reminders are marked, and
  queued jobs reported as sent, that nobody gets.
* Admission: a write of a dealership that is not found passes the paywall; a contact is answered ok without
  a mail when its honeypot is filled or mail is not configured.
* Messaging: a presence write that coalesces is never written, only cleanupPresence mends it; a group whose
  admin leaves has no admin left; a removed member's socket stays in the room; `message:read` moves the
  last reading past messages without receipts; a delete does not refresh the list's preview.
* Reports: `activeMonths` holds months without their years, so a range of more than a year charges
  recurring costs in months without a sale, against the comment at reports.service.js:48-49; each figure
  is rounded by itself, so a range and its months may differ by cents; the wholesale page ignores the
  month a cost stops recurring; `isEnginePayrollExpense` tests two categories that the expense schema has as
  subcategories, so a recurring payroll expense is charged besides the engine's wages; a closed tax
  period that closes during its deletion is deleted.

## 4. Fairness

`FairSpec` of DealDesk and `Spec` of Onboarding assume weak fairness of `Proceed(r)` for each request:
once a query is answered the event loop resumes the handler, and pool timeouts turn an unanswered query
into an error. `PresenceFairness` of Messaging assumes it of PresenceWrite (the same reason),
PresenceAge (two minutes pass) and CleanupPresence (the cron endpoint in `server.js` that runs it is
called again and again). Nothing is assumed of clients, of Stripe, of crashes or of the networks. Hence
each liveness property names the outcomes that excuse it. The others have none: whether Stripe stops
retrying, a mail service answers or an owner retries a post is not this code's promise. HashPool
needs no fairness: PoolSound says where a waiting task is and that its thread has it or has reported.

## 5. Proofs

Each theorem is about a component's own specification, for every value of its constants that the
component's named assumption admits: any number of vehicles, posts, members, users, requests and
handlers, finite or not unless a row says otherwise. The assumptions say that `None` (SQL NULL) is
nobody's id, that amounts are numbers, and, where the code adds something up per worker process or
per expense row, that there are finitely many of those.

| Module | Theorem | States | Beyond the component's assumption |
|---|---|---|---|
| `DealDesk_proofs` | TypeCorrect, SoldOnce, OrphansExplained, AnswersComplete | `[]TypeOK`, `[]OneSaleJacket`, `[]OrphanDealExplained`, `[]AnsweredSaleIsComplete` | the desk has finitely many requests |
| | SaleJacketsFinal, CommissionsApproved | `SaleJacketStays`, `CommissionFollowsApproval` (action properties) | |
| | DeskImplementsLedger | `ImplementsLedger`: refinement of SaleLedger | |
| | SerialOneJacket, SerialNumbersUnique, SerialTermsAgree, SerialPaused, SerialFinal | `[]OneJacketPerVehicle`, `[]JacketNumbersUnique`, `[]SaleTermsAgree`, `[]PausedStaysPaused`, `FinalIsFinal` | `MaxInFlight = 1` |
| `Onboarding_proofs` | OnboardingTypes, WelcomeLocked, WelcomedOnce, SecondAccountsExplained, WelcomedCanSignIn, WelcomedIsFinal | `[]TypeOK`, `[]LockExplained`, `[]MailsExplained`, `[]AccountsExplained`, `[]CredentialsWork`, `WelcomedStays` | any set of faults |
| `Billing_proofs` | BillingTypes, CanceledOnlyAtStripe, ExpensesAreBacked, AgreesOnceCaughtUp | `[]TypeOK`, `[]CanceledAtStripe`, `[]ExpensesBacked`, `[]AgreesWithStripe` | |
| `Inventory_proofs` | InventoryTyped, LiveVinsUnique, SettledTotalsAreSums, SettledSalesAgree, UndoIsOfThisPlan | `[]InventoryTypeOK`, `[]VinsUnique`, `[]TotalsExplained`, `[]SalesAgree`, `[]UndoPostdatesPlan` | finitely many expenses |
| `Accounts_proofs` | SessionsAreCurrent, InvitesAreBounded | `[]SessionsCurrent`, `[]InvitesBounded` (Team) | |
| | ShownOnce, StoredTokenWorks | `[]PublishedOnce`, `[]XTokenWorks` (Socials) | |
| `Messages_proofs` | MembersSee, OneChat | `[]MembersSeeTheThread` (Threads), `[]OneChatEach` (Messaging) | |
| `Queues_proofs` | NoticesAreAccounted | `[]NoticesAccounted` (Jobs) | |
| | NoCheckHangs | `[]PoolSound` (HashPool) | |
| `Office_proofs` | AdmissionsAreBounded | `[]AdmissionsBounded` (Admission) | |
| | RunsAreExplained | `[]RunsExplained` (Payroll) | |
| | BooksAlwaysAddUp | `[]BooksAddUp` (Books) | |
| | ServerAlwaysHolds, FiguresAlwaysAgree | `[]ServerHolds`, `[]FiguresAgree` (MCOffice: the last three as the run `office` states them) | |

None of the safety properties is inductive by itself. Each module defines an inductive invariant,
proves that the initial states satisfy it and that every action keeps it, action by action over frame
lemmas for the moves of Requests (`Begin`, `Goto`, `Carry`, `Answer`), and derives the properties.
Most of them are listed as theorems too (`BillingInvariant`, `ThreadInvariant` and so on). TLC checked each
on an instance before it was proved, with one handler more than the run has where that was feasible.

*DealDesk: `DeskInv`.* First, what a request carries by the operation it serves and where it stands
(`CarriedOK`, `PcOK`): without it a handler could write a row of a vehicle it never read. Second,
ownership: a row named `r` was created by `r`, for the vehicle and deal `r` still carries
(`JacketOwned`, `JacketFiled`, `DealOwned`, `DealCarried`), and a review or a commission update works
on rows that exist and are no sale's (`ReviewedBorn`, `ReviewedOpen`, `CommissionHeld`,
`CommissionBorn`). This is what the unconditional updates by id rest on. Third, the keys and the
progress of a sale (`DealKey`, `JacketKey`, `DealProgress`, `SaleProgress`): two deals never share a
vehicle, two jackets never a deal, and whoever created a deal is still to file its jacket, has crashed,
or lost to one who filed. OneSaleJacket is then short: two jackets with deals on one vehicle have deals
of that vehicle, which are one deal by `DealKey`, so they are one jacket by `JacketKey`. The refinement
needs no further invariant: `SaleView` and `EarnedView` rewrite the mapping, and each action is shown
to open, book, earn or stutter.

*One request at a time: `SerialInv`.* What the five properties of `serial` need of the schedule is that
requests do not overlap, and nothing about crashes. `SerialInv` adds to `DeskInv` that at most one
request is between its awaits (`Alone`) and that whatever it has read is still so (`Known`): no jacket
was filed on its vehicle since it looked, the count of jackets is still the next number, the jacket it
reviews is still open. `races` and `twoJackets` show what each of these clauses is worth once two are in
flight. SaleTermsAgree also covers a later request that completes the sale of a crashed one: `Remarked` says
whose the remarks of every deal are (nobody's, a filed sale's, a crashed request's, or those of the request
writing it), so what `SellCheck` reads off a deal without a jacket is a crashed request's, and `Written`
carries the three fields from the deal to the jacket.

*Onboarding: `WelcomeInv`.* Whoever is past `updateMany` holds the lock, and once the registration is
marked nobody does (`SentUnlocked`). `MailsHeld` and `AccountsHeld` say of each mail and each account why
there need not be another yet: it was marked, its sender still holds the lock, or the attempt is among
the failures. That is the argument for one good mail; a crash keeps the lock and therefore the claim.
`MailedOpens` carries a minted password from the account to the mail and the mark.

*Billing: `BillInv`.* Stripe's log is true of Stripe: a cancellation in it is final, what it last says of
an invoice is the invoice's status (`LogInv`). Rows and requests name subscriptions that exist, and
`canceled` is copied only from an event or an answer that says so (`NamesInv`); this holds under any
order of deliveries. An expense belongs to a paid invoice, and under orderly deliveries each expense but
one per crash is linked or about to be (`ExpenseInv`). Agreement is the hard part: while deliveries are
orderly the one request in flight has the next event in hand (`TurnInv`), everything it has written or
read so far is still so (`Progress`, `Listed`), and the rows say what the events handled so far say
(`Recorded`, `Subscribed`, `Standing`, `CanceledRow`). Handling the last event of the log then yields agreement.

*Inventory: `InventoryInv`.* A request that ran alone so far is alone on its vehicle; overlapping
requests know that they are not, and everything they touch is in doubt (`Overlaps`). A vehicle under
creation is nobody else's, an expense has one vehicle ever, and two requests never create one expense
(`Creations`, `Claimants`). On these rest `Totals` (the sum a lone request is about to write is the sum of
what it will find), `Sales` (what it remembers of status, date and price still holds) and `Undos`. That
an expense adds its cost and a deleted one takes it off is a sum over a set that one element
joins or leaves: `Spent` counts unit costs so that the theorems on cardinality prove it.

*Team: `SessionInv` and `InviteInv`.* A token that a login, refresh or rotation is about to store is of
the password in force, or the user is excused (`StoredCurrent`): somebody is to revoke, failed to, or
raced. The requests that invite an uncontested email are at most one, its picture of the open invitation
is right, and mails sent and mails about to be are counted in `sends` (`Inviters`, `SendsCounted`).

*Socials: `SocialInv`.* For a post at a network without doubt there is one attempt at a time, its log
entry says pending, and the network shows the post only after it has answered; a network that `createPost`
still has to do shows and logs nothing of it (`OneAttempt`). Each of X's tokens is named by the request
that got it and known to one request only while on its way to the store (`TokensNamed`, `OnTheWay`).

*Messages: `ThreadInv` and `ChatInv`.* The one send that nobody overlaps is about to show the newest
message (`Previews`). A reading that is on its way accounts for every message up to the time it will note:
the reader was told, will get a receipt, or the message came in meanwhile (`Readings`). A member's open
socket is in the room or some request will put it there, with that very socket and a picture of the
membership that is right (`Rooms`). For the chats, an id is its sync's own until the chat exists
(`Named`), and a sync that began alone and was joined by no other will leave the chat with the reps it
read, whatever part of its joins and leaves is done (`Alone`, `OnCourse`).

*Jobs: `JobsInv`.* A reminder that no two runs overlapped on, and whose pushes and mails were all
answered, is in one place: on the list, with a worker, or mailed (`Once`); one sender at most is at it,
and only before it is anywhere (`Single`). A mark goes with it: whatever is marked is somewhere or given
up, and whatever is somewhere is marked or its sender is about to. For messages the rows of one batch are
one worker's (`Alone`), nothing exists of a message that was not sent yet (`Unseen`), and a row is done
only after its notification. The counts in NoticesAccounted follow: a set whose elements are equal has at
most one.

*HashPool: `PoolInv`.* A task is waiting exactly if it is in the queue at one place or with one worker
(`Placed`), and what the main thread knows of a worker fits its thread (`Fits`): a worker that is busy and
whose thread runs has its task in the inbox or its one answer underway; one whose thread does not run is
dead or its exit is underway. A slot never holds a dead worker, and no worker is idle while a task waits
(`NoneIdle`). Dispatch is a fold, so the invariant is generalised to the middle of its loop: `PoolCore`
knows of tasks that are neither in the queue nor with a worker but in the part of it yet to hand out, and
`Placed` is shown of each prefix by induction on its length.

*Admission: `AdmInv`.* `Counted` says how much came through a span of one window's time by where the span
begins: after the counter's own start, it is what the counter admitted, less its first; around the start,
that and one window's worth less one from the counter before; before it, two windows' worth less one. This
is why the limiter lets up to `2 * Most - 1` through, and why a restart, which forgets the start, costs
another `Most` (`past`). A counter that is at zero has not been used since a restart. `Consumed` bounds
the answers of a day by the counter they were taken from; `OksMailed` says that, where mail is
configured, each contact request about to be answered has its mail besides those answered and not ignored.

*Payroll: `PayInv`.* Three claims that requests hold across their awaits. A new member of staff is nobody
else's email, or the email is in `rushed` (`StaffCarries`). The paydays a history is about to write have
no automatic run and are in no other history's hands, or they are `doubled` (`RunCarries`, `RunsApart`).
An update that replaces a run's items has seen all there are, or the run is `torn`; so its total is that
of the items that remain. Runs are named by the request and the payday, which keeps requests that write
apart from requests that look.

*Books: `BooksInv`, and arithmetic.* The rows have their types and whoever deletes a filing period found
it not closed (`FilingRaces`); everything else is a fact about the figures that holds in every such state.
An expense's occurrences in a range are counted through months that are some steps apart (`StepsApart`,
`Division`); its cost in a range plus what idle months spare is the sum over the months (`CostOfARange`).
Summed over the expenses, and the order of summation exchanged, this gives `CostAddsUp`; `RoundedIs` turns
it into `OperatingAddsUp` and `NetAddsUp`, each with half a cent for every figure that is rounded;
`WholesaleIs` and `DashboardIs` compare the other pages with the same sums.

*The office: `OfficeInv`.* The component in focus keeps its invariant and the others keep still.

What failed on the way told about the models. OneChatEach was false for more requests than `office` makes:
a sync that began alone could be overlapped by a second one that began and ended before it, and still
count as undisturbed. `sole` now names the sync that began alone until another one begins. A floor-plan
restore whose transaction rolls back touches no vehicle, so it must not count as overlapping one
(RestoreVehicles). The types of Requests, Billing, Socials, HashPool, Admission and Books needed it said
that `None` is no id, no worker and no status. A thread of HashPool that had ended could still answer a
task in its inbox, which no property noticed; the action now asks that the thread runs.

*Induction.* The library's induction theorems take the property as an operator, which the provers cannot
instantiate. Where a proof needs induction over data it goes by a smallest counterexample instead: the set
of bad cases is a set, and if it is not empty it has a least number (`MinIs`) or a subset with no smaller
one in it (`Smaller`), both from the theorem on well-founded relations. `OneByOne` states it for finite
sets: what holds of `{}` and of a set whenever it holds without one of its elements holds of the whole.
The folds of the community modules are a CHOOSE of a function that satisfies an equation; `IsSum` and
`IsRun` are those equations, shown to have a solution, after which sums are split, scaled, compared and
exchanged by lemmas of the first part of `Office_proofs`.

*Only model-checked.* Liveness (DealGetsJacket, WelcomeArrives, PresenceSettles): the prover has no rule
for ENABLED, on which fairness rests. All safety and action properties of the passing runs have a theorem.
The violated runs are counterexamples and have none.

## 6. Not modelled, and the plan

* `updateJacket` (`modules/jackets/jackets.service.js:512`) edits a jacket's fields and mirrors money to
  the deal; its amounts are below DealDesk's abstraction.
* Money functions: sequential arithmetic that unit tests reach. Books models the recurrence and the sums.
* Audit, pricing and status history rows, message texts and reactions, days within a month, cost of
  goods, tax amounts, prices and cards: data that no property here tells apart.
* Files, customers, calendar, notes, support, CPA, the owner's pages, search, dashboards' counts and
  Jenna's tools: reads, external calls and single-row edits; nothing relates two rows. `PROJECT.json`
  lists each with its reason.
* Redis as the limiter's store: the code path exists, but its client is never created (see `cluster`).

----------------------------- MODULE Admission -----------------------------
(***************************************************************************)
(* Admission: what a request must pass before it is served, and how much   *)
(* of it the backend serves: the paywall for writes (auth-middleware.js),  *)
(* the rate limiter and its store (rate-limit-store.js), Jenna's daily     *)
(* quota (jenna.limiter.js) and the contact form's own limit               *)
(* (contact.service.js).                                                   *)
(*                                                                         *)
(* The backend runs in Workers, processes that pm2 starts again, each with *)
(* a memory of its own.  One client sends every request, of one            *)
(* dealership.  Limits and windows are scaled down.                        *)
(***************************************************************************)
EXTENDS Requests, Functions

CONSTANTS
  Workers,      \* processes
  Most,         \* what the limiters admit in a window, and Jenna on a day
  WindowLength, \* ticks of a window
  DayLength,    \* ticks of a day
  MaxTime       \* ticks in this instance

ASSUME AdmissionAssumption ==
  /\ IsFiniteSet(Workers) /\ None \notin Workers
  /\ Most \in Nat \ {0} /\ WindowLength \in Nat \ {0} /\ DayLength \in Nat \ {0} /\ MaxTime \in Nat

VARIABLES
  now,
  standing,  \* of the dealership: its trial or its subscription
  meter,     \* each worker's memory of the rate limiter, and of the contact form
  redis,     \* whether Redis is configured
  quota,     \* calls of Jenna counted on a day, in Redis or in a worker's memory
  brevo,     \* whether mail is configured
  inbox,     \* contact mails support received
  admitted,  \* history: how much was admitted, by limit, worker and tick
  asked,     \* history: calls of Jenna admitted, by worker and day
  oks,       \* history: contact requests answered with ok
  ignored,   \* history: those of them whose honeypot was filled
  restarts,  \* history: how often each worker was started again
  overdue    \* history: a write passed the paywall though nothing allowed it

admissionVars == <<now, standing, meter, redis, quota, brevo, inbox, admitted, asked, oks, ignored, restarts, overdue>>

mailVars == <<brevo, inbox, oks, ignored>>

Time == 0..MaxTime
Today == now \div DayLength
Days == 0..(MaxTime \div DayLength)

\* In its trial, paid for, or neither: the trial ended, a payment failed, canceled;
\* or its row is gone.
Standings == {"trial", "active", "lapsed", "gone"}
canUseProduct == standing \in {"trial", "active"}

\* The paywall lets the writes of a dealership it does not find pass.
mayWrite == standing = "gone" \/ canUseProduct

-----------------------------------------------------------------------------
(* A window begins with its first hit.                                     *)

Unused == [hits |-> 0, reset |-> 0]

\* Mutant: a window ends a tick early.
HitShort(count, length) ==
  IF count.reset <= now THEN [hits |-> 1, reset |-> now + length - 1]
  ELSE [count EXCEPT !.hits = @ + 1]

Hit(count, length) ==
  IF count.reset <= now THEN [hits |-> 1, reset |-> now + length]
  ELSE [count EXCEPT !.hits = @ + 1]

\* The hybrid store would count in Redis when its client is ready; nothing ever
\* creates the client, so every worker counts in its own memory.
Increment(w) ==
  LET count == Hit(meter[<<"api", w>>], WindowLength) IN
  /\ meter' = [meter EXCEPT ![<<"api", w>>] = count]
  /\ admitted' = IF count.hits <= Most THEN [admitted EXCEPT ![<<"api", w, now>>] = @ + 1] ELSE admitted

\* checkRateLimit: the window's last moment still belongs to it.
CheckRateLimit(w) ==
  LET count == Hit(meter[<<"contact", w>>], WindowLength + 1) IN
  /\ meter' = [meter EXCEPT ![<<"contact", w>>] = count]
  /\ admitted' = IF count.hits <= Most THEN [admitted EXCEPT ![<<"contact", w, now>>] = @ + 1] ELSE admitted
Admitted == admitted' # admitted

\* The request is answered as it comes.
AnswerAtOnce == begun < MaxRequests /\ begun' = begun + 1 /\ UNCHANGED <<pc, local>>

-----------------------------------------------------------------------------
(* Reads pass the limiter alone, writes the paywall before it.             *)

Read(w) ==
  /\ Increment(w)
  /\ AnswerAtOnce
  /\ UNCHANGED <<now, standing, redis, quota, mailVars, asked, restarts, overdue>>

\* A write, or a call of Jenna, which is a POST as well.
Write(h) == \E w \in Workers, then \in {"serve", "jenna"} :
  /\ Begin(h, "access", [worker |-> w, then |-> then, ended |-> FALSE])
  /\ UNCHANGED admissionVars

requireProductAccess(h) ==
  /\ pc[h] = "access"
  /\ IF ~mayWrite THEN Answer(h) /\ UNCHANGED <<meter, admitted>>
     ELSE /\ Increment(local[h].worker)
          /\ IF Admitted THEN Goto(h, local[h].then) ELSE Answer(h)
  /\ UNCHANGED <<now, standing, redis, quota, mailVars, asked, restarts, overdue>>

Serve(h) ==
  /\ pc[h] = "serve"
  /\ overdue' = (overdue \/ (~mayWrite /\ ~local[h].ended))
  /\ Answer(h)
  /\ UNCHANGED <<now, standing, meter, redis, quota, mailVars, admitted, asked, restarts>>

\* What Billing, Onboarding and the end of the trial make of the dealership.  No
\* code deletes its row or brings it back; the database's owner may delete it.
StandingChange == \E s \in Standings \ {standing} :
  /\ standing # "gone"
  /\ begun < MaxRequests /\ begun' = begun + 1
  /\ standing' = s
  /\ local' = [h \in Handlers |->
       IF pc[h] = "serve" /\ ~mayWrite' THEN [local[h] EXCEPT !.ended = TRUE] ELSE local[h]]
  /\ UNCHANGED <<now, meter, redis, quota, mailVars, admitted, asked, restarts, overdue, pc>>

-----------------------------------------------------------------------------
(* Jenna: the call is counted, then the model is asked.                    *)

\* The quota's counters by place and day; Redis is one place for all workers.
Place(w) == IF redis THEN None ELSE w

Used(w) == quota[<<Place(w), Today>>] + 1

Consume(w) ==
  /\ quota' = [quota EXCEPT ![<<Place(w), Today>>] = @ + 1]
  /\ asked' = IF Used(w) <= Most THEN [asked EXCEPT ![<<w, Today>>] = @ + 1] ELSE asked

\* assertAndConsumeJennaQuota; in Redis the day's first call sets the expiry as well.
AskJenna(h) == LET w == local[h].worker IN
  /\ pc[h] = "jenna"
  /\ Consume(w)
  /\ IF Used(w) > Most THEN Answer(h)
     ELSE Goto(h, IF redis /\ Used(w) = 1 THEN "expire" ELSE "ask")
  /\ UNCHANGED <<now, standing, meter, redis, mailVars, admitted, restarts, overdue>>

Expire(h) ==
  /\ pc[h] = "expire"
  /\ Goto(h, "ask")
  /\ UNCHANGED admissionVars

Chat(h) ==
  /\ pc[h] = "ask"
  /\ Answer(h)
  /\ UNCHANGED admissionVars

-----------------------------------------------------------------------------
(* The contact form: a mail to support, then one to the sender, who may be *)
(* support itself.  Where mail is not configured sendEmail sends nothing   *)
(* and does not fail.  The wider limits the route and the server have are  *)
(* left out.                                                               *)

\* A filled honeypot is answered with ok before anything is counted or mailed.
IgnoreContact ==
  /\ oks' = oks + 1 /\ ignored' = ignored + 1
  /\ AnswerAtOnce
  /\ UNCHANGED <<now, standing, meter, redis, quota, brevo, inbox, admitted, asked, restarts, overdue>>

SubmitContact(h) == \E w \in Workers, same \in BOOLEAN :
  /\ CheckRateLimit(w)
  /\ IF Admitted THEN Begin(h, IF same THEN "reply" ELSE "inbound", [worker |-> w, same |-> same])
     ELSE AnswerAtOnce
  /\ UNCHANGED <<now, standing, redis, quota, mailVars, asked, restarts, overdue>>

Received(mails) == IF brevo THEN mails + 1 ELSE mails

MailSupport(h) ==
  /\ pc[h] = "inbound"
  /\ inbox' = Received(inbox)
  /\ Goto(h, "reply")
  /\ UNCHANGED <<now, standing, meter, redis, quota, brevo, admitted, asked, oks, ignored, restarts, overdue>>

\* A reply that fails is logged, unless it was support's own mail.
MailSender(h) == LET same == local[h].same IN
  /\ pc[h] = "reply"
  /\ \E fails \in {FALSE, brevo} :
       /\ inbox' = IF same /\ ~fails THEN Received(inbox) ELSE inbox
       /\ oks' = IF same /\ fails THEN oks ELSE oks + 1
  /\ Answer(h)
  /\ UNCHANGED <<now, standing, meter, redis, quota, brevo, admitted, asked, ignored, restarts, overdue>>

-----------------------------------------------------------------------------
Tick ==
  /\ now < MaxTime
  /\ now' = now + 1
  /\ UNCHANGED <<standing, meter, redis, quota, mailVars, admitted, asked, restarts, overdue, handlerVars>>

\* The database, Redis, the model or the mail service fails; a mail may have left.
AdmissionFail(h) ==
  /\ pc[h] # "idle"
  /\ inbox' \in IF pc[h] = "inbound" \/ (pc[h] = "reply" /\ local[h].same) THEN {inbox, Received(inbox)} ELSE {inbox}
  /\ Answer(h)
  /\ UNCHANGED <<now, standing, meter, redis, quota, brevo, admitted, asked, oks, ignored, restarts, overdue>>

\* pm2 starts a worker again; its memory and its requests are gone.
Restart(w) ==
  /\ begun < MaxRequests /\ begun' = begun + 1
  /\ restarts' = [restarts EXCEPT ![w] = @ + 1]
  /\ meter' = [m \in DOMAIN meter |-> IF m[2] = w THEN Unused ELSE meter[m]]
  /\ quota' = [q \in DOMAIN quota |-> IF q[1] = w THEN 0 ELSE quota[q]]
  /\ LET dead == {h \in InFlight : local[h].worker = w} IN
       /\ pc' = [h \in Handlers |-> IF h \in dead THEN "idle" ELSE pc[h]]
       /\ local' = [h \in Handlers |-> IF h \in dead THEN Nothing ELSE local[h]]
  /\ UNCHANGED <<now, standing, redis, mailVars, admitted, asked, overdue>>

-----------------------------------------------------------------------------
AdmissionInit ==
  /\ now = 0 /\ standing = "trial"
  /\ redis \in BOOLEAN /\ brevo \in BOOLEAN
  /\ meter = [m \in {"api", "contact"} \X Workers |-> Unused]
  /\ quota = [q \in (Workers \cup {None}) \X Days |-> 0]
  /\ admitted = [a \in {"api", "contact"} \X Workers \X Time |-> 0]
  /\ asked = [a \in Workers \X Days |-> 0]
  /\ inbox = 0 /\ oks = 0 /\ ignored = 0
  /\ restarts = [w \in Workers |-> 0]
  /\ overdue = FALSE

AdmissionNext ==
  \/ StandingChange \/ IgnoreContact \/ Tick
  \/ \E w \in Workers : Read(w) \/ Restart(w)
  \/ \E h \in Handlers :
       \/ Write(h) \/ requireProductAccess(h) \/ Serve(h)
       \/ AskJenna(h) \/ Expire(h) \/ Chat(h)
       \/ SubmitContact(h) \/ MailSupport(h) \/ MailSender(h)
       \/ AdmissionFail(h)

AdmissionSpec == AdmissionInit /\ RequestsInit /\ [][AdmissionNext]_<<admissionVars, handlerVars>>

-----------------------------------------------------------------------------
\* What came through a limit at worker w in the window's time from t on.
Span(t) == {u \in Time : t <= u /\ u < t + WindowLength}
Through(limit, w, t) == SumFunctionOnSet([u \in Span(t) |-> admitted[<<limit, w, u>>]], Span(t))
Asked(places, d) == SumFunctionOnSet([w \in places |-> asked[<<w, d>>]], places)

\* A worker admits no more than two windows' worth, less one, in any span of a
\* window, and another window's worth each time it was started again.  Jenna
\* answers no more than the day's quota, of all workers together when Redis
\* counts.  Where mail is configured, a contact request whose honeypot is empty is
\* only answered with ok when support has a mail for it.  A write is served only
\* to a dealership that may use the product or is not found, or was so when the
\* write was let in (HybridRateLimitStore, checkRateLimit,
\* assertAndConsumeJennaQuota, submitContact, requireProductAccess).
AdmissionsBounded ==
  /\ \A m \in DOMAIN meter, t \in Time :
       Through(m[1], m[2], t) <= 2 * Most - 1 + Most * restarts[m[2]]
  /\ \A d \in Days :
       IF redis THEN Asked(Workers, d) <= Most
       ELSE \A w \in Workers : Asked({w}, d) <= Most * (1 + restarts[w])
  /\ brevo => oks <= inbox + ignored
  /\ ~overdue

\* "All Node instances sharing the same Redis enforce one global counter per
\* endpoint" (rate-limit-store.js): no more comes through all workers in a
\* window's time than through one counter, however often workers start again.
OneGlobalCounter == redis => \A t \in Time :
  SumFunctionOnSet([w \in Workers |-> Through("api", w, t)], Workers) <= 2 * Most - 1

=============================================================================

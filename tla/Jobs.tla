-------------------------------- MODULE Jobs --------------------------------
(***************************************************************************)
(* Jobs: what the scheduler and the workers do by themselves.  Reminders   *)
(* about the trial or the subscription of one dealership and about its     *)
(* sales tax go through a Redis list to the mail service (jobs/billing-    *)
(* reminders.js, jobs/tax-reminders.js, jobs/email.js, lib/redis.js); a    *)
(* message sent over a socket leaves a row from which a job makes a        *)
(* notification (lib/socket.js, jobs/messages.js).                         *)
(*                                                                         *)
(* Redis may be down at any call, or apply it and its answer be lost, a    *)
(* mail that went out may look failed, and a process may stop between two  *)
(* awaits.  One recipient of messages, one filing period; a batch takes    *)
(* whatever there is.                                                      *)
(***************************************************************************)
EXTENDS Requests, Sequences

CONSTANT DaysLeft    \* the numbers of days left that are looked at

ASSUME JobsAssumption == {8, 0} \subseteq DaysLeft /\ DaysLeft \subseteq 0..8

VARIABLES
  mailing,    \* whether mail is configured (BREVO_API_KEY)
  account,    \* "trial" or "subscriber"
  days,       \* until the trial or the period ends
  period,     \* which trial or billing period it is
  marked,     \* the period each kind of reminder was last marked for, or 0
  queue,      \* the email list
  notices,    \* notification_queue rows: messages to notify of, and whether done
  sent,       \* history: how often each reminder was mailed
  notified,   \* history: how often each message was notified
  undelivered,\* history: reminders that were given up, or vanished without a mail
  doubt       \* history: reminders and messages that may come more than once

jobsVars == <<mailing, account, days, period, marked, queue, notices, sent, notified,
              undelivered, doubt>>

Periods == 1..2
\* When each reminder is due.
Window == [trialEmail7 |-> {8, 7}, trialEmail3 |-> {3, 2}, trialEndedEmail |-> {0},
           billingReminder |-> {3}, billingDueEmail |-> {0}]
Kinds == DOMAIN Window
KindsOf == [trial |-> {"trialEmail7", "trialEmail3", "trialEndedEmail"},
            subscriber |-> {"billingReminder", "billingDueEmail"}]
Reminders == Kinds \X Periods \cup {"tax"} \X (1..MaxRequests)
MAX_RETRIES == 2

Due(kind) == kind \in KindsOf[account] /\ days \in Window[kind] /\ marked[kind] # period

-----------------------------------------------------------------------------
(* Time.                                                                   *)

Day == \E d \in DaysLeft :
  /\ d < days /\ \A e \in DaysLeft : e < days => e <= d
  /\ days' = d
  /\ UNCHANGED <<mailing, account, period, marked, queue, notices, sent, notified, undelivered, doubt, handlerVars>>

\* A billing period ends and the next begins (syncSubscriptionPeriod).  A run of
\* the reminders does not last from one period into the next.
Renew ==
  /\ account = "subscriber" /\ days = 0 /\ period + 1 \in Periods
  /\ \A h \in Handlers : pc[h] \notin {"deliver", "mark"}
  /\ days' = 8 /\ period' = period + 1
  /\ UNCHANGED <<mailing, account, marked, queue, notices, sent, notified, undelivered, doubt, handlerVars>>

-----------------------------------------------------------------------------
(* Reminders: read, deliver, mark.                                         *)

Same(h, note) == {g \in Handlers \ {h} : pc[g] \in {"deliver", "mark"} /\ local[g].note = note}
MaySendTwice(h, note) == doubt' = IF Same(h, note) = {} THEN doubt ELSE doubt \cup {note}

RunBillingReminders(h) == \E kind \in Kinds : LET note == <<kind, period>> IN
  /\ Due(kind)
  /\ Begin(h, "deliver", [note |-> note])
  /\ MaySendTwice(h, note)
  /\ UNCHANGED <<mailing, account, days, period, marked, queue, notices, sent, notified, undelivered>>

\* Nothing is kept about these: every run reminds again.
RunTaxReminders(h) ==
  /\ Begin(h, "deliver", [note |-> <<"tax", begun + 1>>])
  /\ UNCHANGED jobsVars

\* What a process puts on the list: a reminder, or a job once more.
Pushed(h) == IF pc[h] = "deliver" THEN [note |-> local[h].note, tries |-> 0] ELSE local[h].job
Enqueue(h) == queue' = Append(queue, Pushed(h))

\* An answer of Redis is lost: as much as a request, within the bound on them.
LoseAnswer == begun < MaxRequests /\ begun' = begun + 1 /\ UNCHANGED <<pc, local>>

\* The push is applied, and its answer lost: the client sends it again, or gives up
\* and it counts as failed.
PushUnheard(h) ==
  /\ pc[h] \in {"deliver", "requeue"}
  /\ Enqueue(h) /\ LoseAnswer
  /\ doubt' = doubt \cup {Pushed(h).note}
  /\ UNCHANGED <<mailing, account, days, period, marked, notices, sent, notified, undelivered>>

\* deliverEmail: queued, or mailed at once when the push failed.
Delivered(h) == IF local[h].note[1] = "tax" THEN Answer(h) ELSE Goto(h, "mark")

DeliverQueued(h) ==
  /\ pc[h] = "deliver"
  /\ Enqueue(h)
  /\ Delivered(h)
  /\ UNCHANGED <<mailing, account, days, period, marked, notices, sent, notified, undelivered, doubt>>

\* sendEmail; where mail is not configured it sends nothing and does not say so.
Mailed(note) ==
  IF mailing THEN sent' = [sent EXCEPT ![note] = @ + 1] /\ UNCHANGED undelivered
             ELSE undelivered' = undelivered \cup {note} /\ UNCHANGED sent
\* The mail went out, the answer did not come in.
MailedUnheard(note) ==
  /\ mailing
  /\ sent' = [sent EXCEPT ![note] = @ + 1]
  /\ doubt' = doubt \cup {note}

DeliverDirect(h) == LET note == local[h].note IN
  /\ pc[h] = "deliver"
  /\ \/ Mailed(note) /\ Delivered(h) /\ UNCHANGED doubt
     \/ MailedUnheard(note) /\ Answer(h) /\ UNCHANGED undelivered
     \/ mailing /\ Answer(h) /\ UNCHANGED <<sent, undelivered, doubt>>
  /\ UNCHANGED <<mailing, account, days, period, marked, queue, notices, notified>>

\* Mutant: the reminder is not marked.
MarkReminderNot(h) ==
  /\ pc[h] = "mark"
  /\ Answer(h)
  /\ UNCHANGED jobsVars

MarkReminder(h) == LET note == local[h].note IN
  /\ pc[h] = "mark"
  /\ marked' = [marked EXCEPT ![note[1]] = note[2]]
  /\ Answer(h)
  /\ UNCHANGED <<mailing, account, days, period, queue, notices, sent, notified, undelivered, doubt>>

-----------------------------------------------------------------------------
(* The email worker and the endpoint that does the same.                   *)

RunEmailJobs(h) ==
  /\ queue # <<>>
  /\ Begin(h, "dequeue", [job |-> None])
  /\ UNCHANGED jobsVars

Dequeue(h) ==
  /\ pc[h] = "dequeue" /\ queue # <<>>
  /\ Carry(h, "send", [job |-> Head(queue)])
  /\ queue' = Tail(queue)
  /\ UNCHANGED <<mailing, account, days, period, marked, notices, sent, notified, undelivered, doubt>>

\* The job is taken off the list, and the answer with it lost: the call is sent
\* again, or the batch ends.
DequeueUnheard(h) ==
  /\ pc[h] = "dequeue" /\ queue # <<>>
  /\ queue' = Tail(queue) /\ LoseAnswer
  /\ undelivered' = undelivered \cup {Head(queue).note}
  /\ UNCHANGED <<mailing, account, days, period, marked, notices, sent, notified, doubt>>

\* Nothing left, Redis down, or the batch is full.
BatchEnd(h) ==
  /\ pc[h] = "dequeue"
  /\ Answer(h)
  /\ UNCHANGED jobsVars

SendJob(h) ==
  /\ pc[h] = "send"
  /\ Mailed(local[h].job.note)
  /\ Goto(h, "dequeue")
  /\ UNCHANGED <<mailing, account, days, period, marked, queue, notices, notified, doubt>>

GiveUp(h) ==
  /\ Goto(h, "dequeue")
  /\ undelivered' = undelivered \cup {local[h].job.note}

\* Put back with one more try, unless the tries are used up.
Again(h) == LET job == local[h].job IN
  \/ /\ job.tries < MAX_RETRIES
     /\ Carry(h, "requeue", [job |-> [job EXCEPT !.tries = @ + 1]])
     /\ UNCHANGED undelivered
  \/ job.tries >= MAX_RETRIES /\ GiveUp(h)

SendFails(h) ==
  /\ pc[h] = "send" /\ mailing
  /\ Again(h)
  /\ UNCHANGED <<mailing, account, days, period, marked, queue, notices, sent, notified, doubt>>

SendUnheard(h) ==
  /\ pc[h] = "send" /\ MailedUnheard(local[h].job.note)
  /\ Again(h)
  /\ UNCHANGED <<mailing, account, days, period, marked, queue, notices, notified>>

Requeue(h) ==
  /\ pc[h] = "requeue"
  /\ Enqueue(h)
  /\ Goto(h, "dequeue")
  /\ UNCHANGED <<mailing, account, days, period, marked, notices, sent, notified, undelivered, doubt>>

\* enqueueJob says so, and the job is dropped.
RequeueFails(h) ==
  /\ pc[h] = "requeue"
  /\ GiveUp(h)
  /\ UNCHANGED <<mailing, account, days, period, marked, queue, notices, sent, notified, doubt>>

-----------------------------------------------------------------------------
(* Notifications of messages.                                              *)

\* message:send, up to the message everybody in the room sees.
MessageSend(h) ==
  /\ Begin(h, "queueNotice", [message |-> begun + 1])
  /\ UNCHANGED jobsVars

CreateNotificationQueue(h) ==
  /\ pc[h] = "queueNotice"
  /\ notices' = notices \cup {[message |-> local[h].message, done |-> FALSE]}
  /\ Answer(h)
  /\ UNCHANGED <<mailing, account, days, period, marked, queue, sent, notified, undelivered, doubt>>

Note(message) == <<"message", message>>
Pending == {n.message : n \in {m \in notices : ~m.done}}

ProcessNotifications(h) ==
  /\ Pending # {}
  /\ Begin(h, "notify", [batch |-> Pending])
  /\ doubt' = doubt \cup {Note(m) : m \in {m \in Pending :
                \E g \in Handlers \ {h} : pc[g] \in {"notify", "noticesDone"} /\ m \in local[g].batch}}
  /\ UNCHANGED <<mailing, account, days, period, marked, queue, notices, sent, notified, undelivered>>

CreateNotifications(h) ==
  /\ pc[h] = "notify"
  /\ notified' = [m \in DOMAIN notified |-> IF m \in local[h].batch THEN notified[m] + 1 ELSE notified[m]]
  /\ Goto(h, "noticesDone")
  /\ UNCHANGED <<mailing, account, days, period, marked, queue, notices, sent, undelivered, doubt>>

MarkProcessed(h) ==
  /\ pc[h] = "noticesDone"
  /\ notices' = {[n EXCEPT !.done = @ \/ n.message \in local[h].batch] : n \in notices}
  /\ Answer(h)
  /\ UNCHANGED <<mailing, account, days, period, marked, queue, sent, notified, undelivered, doubt>>

Holding == {"send", "requeue"}
\* The process stops, or the database fails: what was in hand is gone, what was
\* done before the mark is done again.
JobsFail(h) ==
  /\ pc[h] # "idle"
  /\ undelivered' = IF pc[h] \in Holding THEN undelivered \cup {local[h].job.note} ELSE undelivered
  /\ doubt' = CASE pc[h] = "mark" -> doubt \cup {local[h].note}
                [] pc[h] = "noticesDone" -> doubt \cup {Note(m) : m \in local[h].batch}
                [] OTHER -> doubt
  /\ Answer(h)
  /\ UNCHANGED <<mailing, account, days, period, marked, queue, notices, sent, notified>>

-----------------------------------------------------------------------------
JobsInit ==
  /\ mailing \in BOOLEAN
  /\ account \in {"trial", "subscriber"}
  /\ days = 8
  /\ period = 1
  /\ marked = [k \in Kinds |-> 0]
  /\ queue = <<>>
  /\ notices = {}
  /\ sent = [n \in Reminders |-> 0]
  /\ notified = [m \in 1..MaxRequests |-> 0]
  /\ undelivered = {}
  /\ doubt = {}

JobsNext ==
  \/ Day \/ Renew
  \/ \E h \in Handlers :
       \/ RunBillingReminders(h) \/ RunTaxReminders(h)
       \/ DeliverQueued(h) \/ PushUnheard(h) \/ DeliverDirect(h) \/ MarkReminder(h)
       \/ RunEmailJobs(h) \/ Dequeue(h) \/ DequeueUnheard(h) \/ BatchEnd(h)
       \/ SendJob(h) \/ SendFails(h) \/ SendUnheard(h) \/ Requeue(h) \/ RequeueFails(h)
       \/ MessageSend(h) \/ CreateNotificationQueue(h)
       \/ ProcessNotifications(h) \/ CreateNotifications(h) \/ MarkProcessed(h)
       \/ JobsFail(h)

JobsSpec == JobsInit /\ RequestsInit /\ [][JobsNext]_<<jobsVars, handlerVars>>

-----------------------------------------------------------------------------
Queued(note) == Cardinality({i \in DOMAIN queue : queue[i].note = note})
InHand(note) == Cardinality({h \in Handlers : pc[h] \in Holding /\ local[h].job.note = note})

\* Wherever a reminder is, it is there once and was not mailed as well; one that
\* is marked is still under way, was mailed, or was given up: its tries or Redis
\* failed, its worker stopped or was not answered, or no mail is configured.  A
\* message is notified once, and before its row is marked.  Overlapping runs apart,
\* and runs that stopped before the mark or did not hear of their own mail or push
\* (deliverEmail, enqueueJob, runEmailJobs, processNotifications).
NoticesAccounted ==
  /\ \A n \in Reminders : Queued(n) + InHand(n) + sent[n] <= 1 \/ n \in doubt
  /\ \A k \in Kinds : LET n == <<k, marked[k]>> IN
       marked[k] # 0 => Queued(n) + InHand(n) + sent[n] > 0 \/ n \in undelivered
  /\ \A m \in DOMAIN notified : notified[m] <= 1 \/ Note(m) \in doubt
  /\ \A n \in notices : n.done => notified[n.message] > 0

=============================================================================

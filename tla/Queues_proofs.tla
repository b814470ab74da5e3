--------------------------- MODULE Queues_proofs ----------------------------
(***************************************************************************)
(* Proofs about Jobs, for any number of handlers, requests and days, and   *)
(* about HashPool, for any number of workers, checks and stops.            *)
(***************************************************************************)
EXTENDS Jobs, HashPool, SequenceTheorems, FiniteSetTheorems, TLAPS

-----------------------------------------------------------------------------
(* Induction over finite sets and over the natural numbers.                *)

\* Of the subsets of a finite set that have something in common one has no smaller.
LEMMA Smaller ==
  ASSUME NEW S, IsFiniteSet(S), NEW T, T \subseteq SUBSET S, T # {}
  PROVE \E x \in T : \A y \in T : y \subseteq x => y = x
<1>1. FiniteSubsetsOf(S) = SUBSET S BY FS_FiniteSubsetsOfFinite
<1>2. IsWellFoundedOn(StrictSubsetOrdering(S), SUBSET S) BY <1>1, FS_StrictSubsetOrderingWellFounded
<1>3. PICK x \in T : \A y \in T : ~(<<y, x>> \in StrictSubsetOrdering(S)) BY <1>2, WFMin
<1>4. QED BY <1>3 DEF StrictSubsetOrdering

\* A nonempty set of numbers has a least one.
LEMMA MinIs ==
  ASSUME NEW S, S \subseteq Nat, S # {}
  PROVE  Min(S) \in S /\ \A x \in S : Min(S) <= x
<1> DEFINE R == {ss \in Nat \X Nat : ss[1] < ss[2]}
<1>1. IsWellFoundedOn(R, Nat)
  BY NatLessThanWellFounded DEF OpToRel
<1> HIDE DEF R
<1>2. PICK x \in S : \A y \in S : ~(<<y, x>> \in R)
  BY <1>1, WFMin
<1> USE DEF R
<1>3. \A y \in S : x <= y
  <2>1. TAKE y \in S
  <2>2. x \in Nat /\ y \in Nat
    OBVIOUS
  <2>3. ~(<<y, x>> \in R)
    BY <1>2
  <2>4. ~(y < x)
    BY <2>2, <2>3
  <2>5. QED
    BY <2>2, <2>4
<1>4. QED
  BY <1>3 DEF Min

-----------------------------------------------------------------------------
(* Jobs: its inductive invariant.                                          *)

Job == [note : Reminders, tries : Nat]
Notice == [message : 1..MaxRequests, done : BOOLEAN]
Reminding(n) == {h \in Handlers : pc[h] \in {"deliver", "mark"} /\ local[h].note = n}
Marking(n) == {h \in Handlers : pc[h] = "mark" /\ local[h].note = n}
Notifying(m) == {h \in Handlers : pc[h] \in {"notify", "noticesDone"} /\ m \in local[h].batch}
JobAwaits == {"deliver", "mark", "dequeue", "send", "requeue", "queueNotice", "notify", "noticesDone"}

JobCarry(p, r, time, many) ==
  /\ p \in {"deliver", "mark"} => r.note \in Reminders /\ (r.note[1] # "tax" => r.note[2] = time)
  /\ p = "mark" => r.note[1] # "tax"
  /\ p \in {"send", "requeue"} => r.job \in Job
  /\ p = "queueNotice" => r.message \in 1..many
  /\ p \in {"notify", "noticesDone"} => r.batch \subseteq 1..many

JobRows ==
  /\ account \in {"trial", "subscriber"} /\ period \in Periods
  /\ marked \in [Kinds -> 0..period]
  /\ queue \in Seq(Job)
  /\ notices \subseteq Notice
  /\ sent \in [Reminders -> Nat]
  /\ notified \in [1..MaxRequests -> Nat]

JobRequests ==
  /\ pc \in [Handlers -> JobAwaits \cup {"idle"}]
  /\ DOMAIN local = Handlers
  /\ begun \in 0..MaxRequests
  /\ IsFiniteSet(InFlight)
  /\ \A h \in Handlers : JobCarry(pc[h], local[h], period, begun)

\* Reminder n is on the list, with a worker, or was mailed.
OnList(n) == {i \in DOMAIN queue : queue[i].note = n}
WithWorker(n) == {h \in Handlers : pc[h] \in {"send", "requeue"} /\ local[h].job.note = n}
Somewhere(n) == OnList(n) # {} \/ WithWorker(n) # {} \/ sent[n] > 0

\* It is there once.
Once(n) ==
  /\ \A i, j \in OnList(n) : i = j
  /\ \A g, h \in WithWorker(n) : g = h
  /\ OnList(n) # {} => WithWorker(n) = {}
  /\ OnList(n) # {} \/ WithWorker(n) # {} => sent[n] = 0
  /\ sent[n] <= 1

\* Nobody else is at it, it is not delivered before its time, and it is marked when it was.
Single(n) ==
  /\ \A g, h \in Reminding(n) : g = h
  /\ \A h \in Reminding(n) : pc[h] = "deliver" => ~Somewhere(n)
  /\ Once(n)
  /\ n[1] # "tax" /\ Somewhere(n) => Marking(n) # {} \/ marked[n[1]] >= n[2]

DeliveryOf(n) ==
  /\ n \in doubt \/ Single(n)
  /\ n[1] = "tax" /\ n[2] > begun => ~Somewhere(n) /\ Reminding(n) = {}
  /\ n[1] # "tax" /\ (Marking(n) # {} \/ marked[n[1]] = n[2]) => Somewhere(n) \/ n \in undelivered

Delivery == \A n \in Reminders : DeliveryOf(n)

\* Nothing came of message m yet.
Unseen(m) == notified[m] = 0 /\ Notifying(m) = {} /\ \A n \in notices : n.message # m

Alone(m) ==
  /\ \A g, h \in Notifying(m) : g = h
  /\ \A h \in Notifying(m) : pc[h] = "notify" => notified[m] = 0
  /\ notified[m] > 0 /\ m \in Pending => \E h \in Notifying(m) : pc[h] = "noticesDone"
  /\ notified[m] <= 1

Notices ==
  /\ \A m \in 1..MaxRequests :
       /\ Note(m) \in doubt \/ Alone(m)
       /\ m > begun => Unseen(m)
  /\ \A h \in Handlers :
       /\ \A m \in 1..MaxRequests : pc[h] = "queueNotice" /\ local[h].message = m => Unseen(m)
       /\ pc[h] = "noticesDone" => \A m \in local[h].batch : notified[m] > 0
  /\ \A g, h \in Handlers : pc[g] = "queueNotice" /\ pc[h] = "queueNotice" /\ local[g].message = local[h].message => g = h
  /\ \A n \in notices : n.done => notified[n.message] > 0

JobsInv == JobRows /\ JobRequests /\ Delivery /\ Notices

Elsewhere(h) == \A g \in Handlers \ {h} : pc'[g] = pc[g] /\ local'[g] = local[g]

LEMMA KindFacts ==
  /\ Kinds = {"trialEmail7", "trialEmail3", "trialEndedEmail", "billingReminder", "billingDueEmail"}
  /\ "tax" \notin Kinds /\ "message" \notin Kinds
  BY DEF Kinds, Window

LEMMA ReminderFacts ==
  ASSUME NEW n \in Reminders
  PROVE  /\ n = <<n[1], n[2]>> /\ n[2] \in Nat \ {0}
         /\ n[1] = "tax" \/ (n[1] \in Kinds /\ n[2] \in Periods)
         /\ \A m : n # Note(m)
  <1>1. n[1] \in Kinds \cup {"tax"}
    BY DEF Reminders
  <1>2. QED
    BY <1>1, KindFacts, RequestsAssumption DEF Reminders, Periods, Note

LEMMA QueueFacts ==
  ASSUME JobRows
  PROVE  /\ Len(queue) \in Nat /\ DOMAIN queue = 1..Len(queue)
         /\ \A i \in 1..Len(queue) : queue[i] \in Job
         /\ \A n : OnList(n) \subseteq 1..Len(queue)
  BY DEF JobRows, OnList

LEMMA EnqueueFacts ==
  ASSUME JobRows, NEW h, Pushed(h) \in Job, NEW note, note = Pushed(h).note, Enqueue(h)
  PROVE  /\ queue' \in Seq(Job)
         /\ \A n : OnList(n)' = OnList(n) \cup (IF n = note THEN {Len(queue) + 1} ELSE {})
         /\ \A n : OnList(n) \subseteq 1..Len(queue)
         /\ Len(queue) \in Nat
  <1>1. PICK j \in Job : j = Pushed(h)
    OBVIOUS
  <1>2. queue' = Append(queue, j) /\ j.note = note
    BY <1>1 DEF Enqueue
  <1>3. /\ queue' \in Seq(Job) /\ Len(queue') = Len(queue) + 1 /\ DOMAIN queue' = 1..Len(queue) + 1
        /\ \A i \in 1..Len(queue) : queue'[i] = queue[i]
        /\ queue'[Len(queue) + 1] = j
    BY <1>2, QueueFacts, AppendProperties DEF JobRows
  <1>4. QED
    BY <1>2, <1>3, QueueFacts DEF OnList

LEMMA DequeueFacts ==
  ASSUME JobRows, queue # <<>>, queue' = Tail(queue)
  PROVE  /\ queue' \in Seq(Job) /\ Head(queue) \in Job /\ Head(queue) = queue[1]
         /\ \A n : OnList(n)' = {i \in 1..Len(queue) - 1 : i + 1 \in OnList(n)}
         /\ \A n : 1 \in OnList(n) <=> Head(queue).note = n
         /\ \A n : OnList(n) \subseteq 1..Len(queue)
  <1>1. Len(queue) \in Nat \ {0}
    BY QueueFacts, EmptySeq DEF JobRows
  <1>2. /\ queue' \in Seq(Job) /\ Len(queue') = Len(queue) - 1
        /\ \A i \in 1..Len(queue') : queue'[i] = queue[i + 1]
        /\ Head(queue) \in Job /\ Head(queue) = queue[1]
    BY <1>1, HeadTailProperties DEF JobRows
  <1>3. DOMAIN queue' = 1..Len(queue) - 1
    BY <1>2
  <1>4. QED
    BY <1>1, <1>2, <1>3, QueueFacts DEF OnList

LEMMA BeginJob ==
  ASSUME JobRequests, NEW h \in Handlers, NEW await \in JobAwaits, NEW c, Begin(h, await, c),
         JobCarry(await, c, period, begun + 1), period' = period
  PROVE  /\ JobRequests' /\ Elsewhere(h)
         /\ pc[h] = "idle" /\ pc'[h] = await /\ local'[h] = c
         /\ begun' = begun + 1 /\ begun' \in 1..MaxRequests /\ begun \in Nat
  <1>1. /\ pc' = [pc EXCEPT ![h] = await] /\ local' = [local EXCEPT ![h] = c]
        /\ begun' = begun + 1 /\ pc[h] = "idle" /\ begun \in Nat /\ begun' \in 1..MaxRequests
    BY RequestsAssumption DEF Begin, JobRequests
  <1>2. InFlight' = InFlight \cup {h}
    BY <1>1 DEF InFlight, JobRequests, JobAwaits
  <1>3. IsFiniteSet(InFlight')
    BY <1>2, FS_AddElement DEF JobRequests
  <1>4. \A g \in Handlers : JobCarry(pc[g], local[g], period, begun + 1)
    BY <1>1 DEF JobRequests, JobCarry
  <1>5. QED
    BY <1>1, <1>3, <1>4 DEF JobRequests, Elsewhere

LEMMA AnswerJob ==
  ASSUME JobRequests, NEW h \in Handlers, Answer(h), period' = period
  PROVE  /\ JobRequests' /\ Elsewhere(h) /\ pc'[h] = "idle" /\ begun' = begun
  <1>1. pc' = [pc EXCEPT ![h] = "idle"] /\ local' = [local EXCEPT ![h] = Nothing] /\ begun' = begun
    BY DEF Answer
  <1>2. InFlight' = InFlight \ {h}
    BY <1>1 DEF InFlight, JobRequests, JobAwaits
  <1>3. IsFiniteSet(InFlight')
    BY <1>2, FS_RemoveElement DEF JobRequests
  <1>4. JobCarry("idle", Nothing, period, begun)
    BY DEF JobCarry
  <1>5. QED
    BY <1>1, <1>3, <1>4 DEF JobRequests, Elsewhere

LEMMA GotoJob ==
  ASSUME JobRequests, NEW h \in Handlers, NEW await \in JobAwaits, Goto(h, await), pc[h] # "idle",
         JobCarry(await, local[h], period, begun), period' = period
  PROVE  /\ JobRequests' /\ Elsewhere(h)
         /\ pc'[h] = await /\ local'[h] = local[h] /\ begun' = begun
  <1>1. pc' = [pc EXCEPT ![h] = await] /\ local' = local /\ begun' = begun
    BY DEF Goto
  <1>2. InFlight' = InFlight
    BY <1>1 DEF InFlight, JobRequests, JobAwaits
  <1>3. QED
    BY <1>1, <1>2 DEF JobRequests, Elsewhere

LEMMA CarryJob ==
  ASSUME JobRequests, NEW h \in Handlers, NEW await \in JobAwaits, NEW more, Carry(h, await, more), pc[h] # "idle",
         JobCarry(await, With(more, local[h]), period, begun), period' = period
  PROVE  /\ JobRequests' /\ Elsewhere(h)
         /\ pc'[h] = await /\ local'[h] = With(more, local[h]) /\ begun' = begun
  <1>1. pc' = [pc EXCEPT ![h] = await] /\ local' = [local EXCEPT ![h] = With(more, @)] /\ begun' = begun
    BY DEF Carry
  <1>2. InFlight' = InFlight
    BY <1>1 DEF InFlight, JobRequests, JobAwaits
  <1>3. QED
    BY <1>1, <1>2 DEF JobRequests, Elsewhere

\* A lost answer counts, and changes nothing else about the requests.
LEMMA LoseJob ==
  ASSUME JobRequests, LoseAnswer, period' = period
  PROVE  /\ JobRequests' /\ begun \in Nat /\ begun' = begun + 1
         /\ pc' = pc /\ local' = local /\ \A h : Elsewhere(h)
  <1>1. /\ pc' = pc /\ local' = local /\ begun' = begun + 1
        /\ begun \in Nat /\ begun' \in 0..MaxRequests
    BY RequestsAssumption DEF LoseAnswer, JobRequests
  <1>2. \A h \in Handlers : JobCarry(pc[h], local[h], period, begun + 1)
    BY <1>1 DEF JobRequests, JobCarry
  <1>3. InFlight' = InFlight
    BY <1>1 DEF InFlight
  <1>4. QED
    BY <1>1, <1>2, <1>3 DEF JobRequests, Elsewhere

\* What the other requests are at is as it was.
LEMMA OthersStay ==
  ASSUME NEW h \in Handlers, Elsewhere(h)
  PROVE  \A g \in Handlers \ {h} : \A n :
           /\ pc'[g] = pc[g] /\ local'[g] = local[g]
           /\ g \in Reminding(n)' <=> g \in Reminding(n)
           /\ g \in Marking(n)' <=> g \in Marking(n)
           /\ g \in WithWorker(n)' <=> g \in WithWorker(n)
           /\ g \in Notifying(n)' <=> g \in Notifying(n)
  BY DEF Elsewhere, Reminding, Marking, WithWorker, Notifying

LEMMA FrameDelivery ==
  ASSUME JobRows, JobRequests, Delivery, NEW h \in Handlers, Elsewhere(h), marked' = marked, queue' = queue, sent' = sent,
         begun' \in Nat, begun' >= begun, doubt \subseteq doubt', undelivered \subseteq undelivered',
         pc[h] \notin {"deliver", "mark", "send", "requeue"},
         pc'[h] \notin {"deliver", "mark", "send", "requeue"}
  PROVE  Delivery'
  <1> SUFFICES ASSUME NEW n \in Reminders PROVE DeliveryOf(n)'
    BY DEF Delivery
  <1>1. /\ Reminding(n)' = Reminding(n) /\ Marking(n)' = Marking(n)
        /\ WithWorker(n)' = WithWorker(n) /\ OnList(n)' = OnList(n)
    BY OthersStay DEF Reminding, Marking, WithWorker, OnList
  <1>2. Somewhere(n)' <=> Somewhere(n)
    BY <1>1 DEF Somewhere
  <1>3. Once(n) => Once(n)'
    BY <1>1 DEF Once
  <1>4. \A g \in Reminding(n) : pc'[g] = pc[g]
    BY OthersStay DEF Reminding
  <1>5. Single(n) => Single(n)'
    BY <1>1, <1>2, <1>3, <1>4 DEF Single
  <1>6. begun \in Nat /\ n[2] \in Nat
    BY ReminderFacts DEF JobRequests
  <1>7. QED
    BY <1>1, <1>2, <1>5, <1>6 DEF Delivery, DeliveryOf

LEMMA FrameNotices ==
  ASSUME JobRows, JobRequests, Notices, NEW h \in Handlers, Elsewhere(h), notices' = notices, notified' = notified,
         begun' \in Nat, begun' >= begun, doubt \subseteq doubt',
         pc[h] \notin {"queueNotice", "notify", "noticesDone"}, pc'[h] \notin {"queueNotice", "notify", "noticesDone"}
  PROVE  Notices'
  <1>1. \A m : Notifying(m)' = Notifying(m)
    BY OthersStay DEF Notifying
  <1>2. Pending' = Pending
    BY DEF Pending
  <1>3. \A m : Unseen(m)' <=> Unseen(m)
    BY <1>1 DEF Unseen
  <1>4. \A m : \A g \in Notifying(m) : pc'[g] = pc[g]
    BY OthersStay DEF Notifying
  <1>5. \A m : Alone(m) => Alone(m)'
    BY <1>1, <1>2, <1>4 DEF Alone
  <1>6. begun \in Nat
    BY DEF JobRequests
  <1>7. \A m \in 1..MaxRequests : (Note(m) \in doubt' \/ Alone(m)') /\ (m > begun' => Unseen(m)')
    BY <1>3, <1>5, <1>6 DEF Notices
  <1>8. \A g \in Handlers : pc'[g] \in {"queueNotice", "noticesDone"} => pc'[g] = pc[g] /\ local'[g] = local[g]
    BY OthersStay
  <1>9. QED
    BY <1>3, <1>7, <1>8 DEF Notices

-----------------------------------------------------------------------------
\* Reminders.

LEMMA JobFacts ==
  ASSUME JobsInv
  PROVE  /\ JobRows /\ JobRequests /\ Delivery /\ Notices
         /\ begun \in Nat /\ period \in Nat \ {0}
         /\ \A k \in Kinds : marked[k] \in 0..period
         /\ \A n \in Reminders : sent[n] \in Nat
         /\ \A h \in Handlers : pc[h] \in JobAwaits \cup {"idle"} /\ JobCarry(pc[h], local[h], period, begun)
  BY DEF JobsInv, JobRows, JobRequests, Periods

LEMMA StepRunBillingReminders ==
  ASSUME JobsInv, NEW h \in Handlers, RunBillingReminders(h)
  PROVE  JobsInv'
<1>0. JobRows /\ JobRequests /\ Delivery /\ Notices /\ begun \in Nat
  BY JobFacts
<1>1a. PICK kind \in Kinds :
        /\ Due(kind) /\ Begin(h, "deliver", [note |-> <<kind, period>>]) /\ MaySendTwice(h, <<kind, period>>)
        /\ UNCHANGED <<account, days, period, marked, queue, notices, sent, notified, undelivered>>
  BY DEF RunBillingReminders
<1>1. PICK note :
        /\ note = <<kind, period>>
        /\ Due(kind) /\ Begin(h, "deliver", [note |-> note]) /\ MaySendTwice(h, note)
        /\ UNCHANGED <<account, days, period, marked, queue, notices, sent, notified, undelivered>>
  BY <1>1a
<1>2. note \in Reminders /\ note[1] = kind /\ note[2] = period /\ kind # "tax"
  BY <1>0, <1>1, KindFacts DEF JobRows, Reminders
<1>3. JobCarry("deliver", [note |-> note], period, begun + 1)
  BY <1>2 DEF JobCarry
<1>4. /\ JobRequests' /\ Elsewhere(h) /\ begun' = begun + 1
      /\ pc[h] = "idle" /\ pc'[h] = "deliver" /\ local'[h] = [note |-> note]
  BY <1>0, <1>1, <1>3, BeginJob DEF JobAwaits
<1>5. JobRows'
  BY <1>0, <1>1 DEF JobRows
<1>6. doubt \subseteq doubt'
  BY <1>1 DEF MaySendTwice
<1>7. ASSUME NEW n \in Reminders
      PROVE  DeliveryOf(n)'
  <2>1. /\ Marking(n)' = Marking(n) /\ WithWorker(n)' = WithWorker(n) /\ OnList(n)' = OnList(n)
        /\ Reminding(n)' = Reminding(n) \cup (IF n = note THEN {h} ELSE {})
        /\ h \notin Reminding(n)
        /\ \A g \in Reminding(n) : pc'[g] = pc[g]
    BY <1>1, <1>4, OthersStay DEF Marking, WithWorker, OnList, Reminding
  <2>2. Somewhere(n)' <=> Somewhere(n)
    BY <1>1, <2>1 DEF Somewhere
  <2>3. Once(n) => Once(n)'
    BY <1>1, <2>1 DEF Once
  <2>4. DeliveryOf(n)
    BY <1>0, <1>7 DEF Delivery
  <2>5. CASE n # note
    <3>1. Single(n) => Single(n)'
      BY <1>1, <2>1, <2>2, <2>3, <2>5 DEF Single
    <3>2. n[2] \in Nat
      BY ReminderFacts
    <3>3. QED
      BY <1>0, <1>1, <1>4, <1>6, <2>1, <2>2, <2>4, <2>5, <3>1, <3>2 DEF DeliveryOf
  <2>6. CASE n = note
    <3>1. ASSUME n \notin doubt'
          PROVE  Single(n)'
      <4>1. Same(h, note) = {}
        BY <1>1, <2>6, <3>1 DEF MaySendTwice
      <4>2. Reminding(n) = {}
        BY <2>1, <2>6, <4>1 DEF Reminding, Same
      <4>3. Single(n)
        BY <1>6, <2>4, <3>1 DEF DeliveryOf
      <4>4. Marking(n) = {}
        BY <4>2 DEF Marking, Reminding
      <4>5. marked[kind] < period
        BY <1>1, JobFacts DEF Due
      <4>6. ~Somewhere(n)
        <5>1. marked[kind] \in Nat /\ period \in Nat
          BY <1>1, JobFacts
        <5>2. QED
          BY <1>2, <2>6, <4>3, <4>4, <4>5, <5>1 DEF Single
      <4>7. QED
        BY <1>1, <1>4, <2>1, <2>2, <2>3, <2>6, <4>2, <4>3, <4>6 DEF Single
    <3>2. QED
      BY <1>1, <1>2, <2>1, <2>2, <2>4, <2>6, <3>1 DEF DeliveryOf
  <2>7. QED
    BY <2>5, <2>6
<1>8. Delivery'
  BY <1>7 DEF Delivery
<1>9. Notices'
  BY <1>0, <1>1, <1>4, <1>6, FrameNotices
<1>10. QED
  BY <1>4, <1>5, <1>8, <1>9 DEF JobsInv

LEMMA StepRunTaxReminders ==
  ASSUME JobsInv, NEW h \in Handlers, RunTaxReminders(h)
  PROVE  JobsInv'
<1>0. JobRows /\ JobRequests /\ Delivery /\ Notices /\ begun \in Nat
  BY JobFacts
<1>1. PICK note : /\ note = <<"tax", begun + 1>>
                  /\ Begin(h, "deliver", [note |-> note]) /\ UNCHANGED jobsVars
  BY DEF RunTaxReminders
<1>2. note \in Reminders /\ note[1] = "tax" /\ note[2] = begun + 1
  BY <1>0, <1>1, RequestsAssumption DEF Reminders, Begin
<1>3. JobCarry("deliver", [note |-> note], period, begun + 1)
  BY <1>2 DEF JobCarry
<1>4. /\ JobRequests' /\ Elsewhere(h) /\ begun' = begun + 1
      /\ pc[h] = "idle" /\ pc'[h] = "deliver" /\ local'[h] = [note |-> note]
  BY <1>0, <1>1, <1>3, BeginJob DEF JobAwaits, jobsVars
<1>5. JobRows'
  BY <1>0, <1>1 DEF JobRows, jobsVars
<1>7. ASSUME NEW n \in Reminders
      PROVE  DeliveryOf(n)'
  <2>1. /\ Marking(n)' = Marking(n) /\ WithWorker(n)' = WithWorker(n) /\ OnList(n)' = OnList(n)
        /\ Reminding(n)' = Reminding(n) \cup (IF n = note THEN {h} ELSE {})
        /\ \A g \in Reminding(n) : pc'[g] = pc[g]
    BY <1>1, <1>4, OthersStay DEF Marking, WithWorker, OnList, Reminding, jobsVars
  <2>2. Somewhere(n)' <=> Somewhere(n)
    BY <1>1, <2>1 DEF Somewhere, jobsVars
  <2>3. Once(n) => Once(n)'
    BY <1>1, <2>1 DEF Once, jobsVars
  <2>4. DeliveryOf(n) /\ n[2] \in Nat
    BY <1>0, <1>7, ReminderFacts DEF Delivery
  <2>5. CASE n # note
    <3>1. Single(n) => Single(n)'
      BY <1>1, <2>1, <2>2, <2>3, <2>5 DEF Single, jobsVars
    <3>2. QED
      BY <1>0, <1>1, <1>4, <2>1, <2>2, <2>4, <2>5, <3>1 DEF DeliveryOf, jobsVars
  <2>6. CASE n = note
    <3>1. ~Somewhere(n) /\ Reminding(n) = {}
      BY <1>0, <1>2, <2>4, <2>6 DEF DeliveryOf
    <3>2. Single(n)'
      <4>1. Once(n)'
        BY <2>1, <1>1, <3>1, JobFacts DEF Once, Somewhere, jobsVars
      <4>2. QED
        BY <1>2, <1>4, <2>1, <2>2, <2>6, <3>1, <4>1 DEF Single
    <3>3. QED
      BY <1>0, <1>2, <1>4, <2>6, <3>2 DEF DeliveryOf
  <2>7. QED
    BY <2>5, <2>6
<1>8. Delivery'
  BY <1>7 DEF Delivery
<1>9. Notices'
  BY <1>0, <1>1, <1>4, FrameNotices DEF jobsVars
<1>10. QED
  BY <1>4, <1>5, <1>8, <1>9 DEF JobsInv

\* What a step does with one reminder does not concern the others.
LEMMA DeliveryKept ==
  ASSUME JobRows, JobRequests, NEW h \in Handlers, Elsewhere(h), NEW n \in Reminders, DeliveryOf(n),
         h \notin Reminding(n), h \notin Reminding(n)', h \notin WithWorker(n), h \notin WithWorker(n)',
         OnList(n)' = {} <=> OnList(n) = {},
         (\A i, j \in OnList(n) : i = j) => (\A i, j \in OnList(n)' : i = j),
         sent'[n] = sent[n], doubt \subseteq doubt', undelivered \subseteq undelivered', begun' = begun,
         n[1] # "tax" => marked'[n[1]] = marked[n[1]]
  PROVE  DeliveryOf(n)'
<1>1. /\ Marking(n)' = Marking(n) /\ WithWorker(n)' = WithWorker(n) /\ Reminding(n)' = Reminding(n)
      /\ \A g \in Reminding(n) : pc'[g] = pc[g]
  <2>1. h \notin Marking(n) /\ h \notin Marking(n)'
    BY DEF Marking, Reminding
  <2>2. Marking(n) \subseteq Handlers /\ WithWorker(n) \subseteq Handlers /\ Reminding(n) \subseteq Handlers
    BY DEF Marking, Reminding, WithWorker
  <2>3. Marking(n)' \subseteq Handlers /\ WithWorker(n)' \subseteq Handlers /\ Reminding(n)' \subseteq Handlers
    BY DEF Marking, Reminding, WithWorker
  <2>4. QED
    BY <2>1, <2>2, <2>3, OthersStay, SMTT(60)
<1>2. Somewhere(n)' <=> Somewhere(n)
  BY <1>1 DEF Somewhere
<1>3. Once(n) => Once(n)'
  BY <1>1 DEF Once
<1>4. Single(n) => Single(n)'
  BY <1>1, <1>2, <1>3 DEF Single
<1>5. QED
  BY <1>1, <1>2, <1>4 DEF DeliveryOf

LEMMA DeliveredJob ==
  ASSUME JobsInv, NEW h \in Handlers, pc[h] = "deliver", Delivered(h), period' = period
  PROVE  /\ JobRequests' /\ Elsewhere(h) /\ begun' = begun
         /\ pc'[h] = IF local[h].note[1] = "tax" THEN "idle" ELSE "mark"
         /\ pc'[h] = "mark" => local'[h].note = local[h].note
<1>0. JobRequests /\ JobCarry(pc[h], local[h], period, begun)
  BY JobFacts
<1>1. CASE local[h].note[1] = "tax"
  BY <1>0, <1>1, AnswerJob DEF Delivered
<1>2. CASE local[h].note[1] # "tax"
  <2>1. JobCarry("mark", local[h], period, begun)
    BY <1>0, <1>2 DEF JobCarry
  <2>2. Goto(h, "mark")
    BY <1>2 DEF Delivered
  <2>3. QED
    BY <1>0, <1>2, <2>1, <2>2, GotoJob DEF JobAwaits
<1>3. QED
  BY <1>1, <1>2

LEMMA StepDeliverQueued ==
  ASSUME JobsInv, NEW h \in Handlers, DeliverQueued(h)
  PROVE  JobsInv'
<1>0. JobRows /\ JobRequests /\ Delivery /\ Notices /\ begun \in Nat
  BY JobFacts
<1>1. PICK note : note = local[h].note
  OBVIOUS
<1>2. /\ pc[h] = "deliver" /\ Enqueue(h) /\ Delivered(h)
      /\ UNCHANGED <<account, days, period, marked, notices, sent, notified, undelivered, doubt>>
  BY <1>1 DEF DeliverQueued
<1>3. note \in Reminders
  BY <1>1, <1>2, JobFacts DEF JobCarry
<1>4. /\ JobRequests' /\ Elsewhere(h) /\ begun' = begun
      /\ pc'[h] = IF note[1] = "tax" THEN "idle" ELSE "mark"
      /\ pc'[h] = "mark" => local'[h].note = note
  BY <1>1, <1>2, DeliveredJob
<1>3a. Pushed(h) \in Job /\ Pushed(h).note = note
  BY <1>1, <1>2, <1>3 DEF Pushed, Job
<1>5. /\ queue' \in Seq(Job)
      /\ \A n : OnList(n)' = OnList(n) \cup (IF n = note THEN {Len(queue) + 1} ELSE {})
  BY <1>0, <1>2, <1>3a, EnqueueFacts
<1>6. JobRows'
  BY <1>0, <1>2, <1>5 DEF JobRows
<1>7. ASSUME NEW n \in Reminders
      PROVE  DeliveryOf(n)'
  <2>0. DeliveryOf(n)
    BY <1>0 DEF Delivery
  <2>1. CASE n # note
    <3>1. h \notin Reminding(n) /\ h \notin Reminding(n)' /\ h \notin WithWorker(n) /\ h \notin WithWorker(n)'
      BY <1>1, <1>2, <1>4, <2>1 DEF Reminding, WithWorker
    <3>2. QED
      BY <1>0, <1>2, <1>4, <1>5, <2>0, <2>1, <3>1, DeliveryKept
  <2>2. CASE n = note
    <3>1. h \in Reminding(n) /\ h \notin WithWorker(n)'
      BY <1>1, <1>2, <1>4, <2>2 DEF Reminding, WithWorker
    <3>2. OnList(n)' # {} /\ Somewhere(n)'
      BY <1>5, <2>2 DEF Somewhere
    <3>3. n[1] # "tax" => h \in Marking(n)'
      BY <1>4, <2>2 DEF Marking
    <3>4. ASSUME n \notin doubt'
          PROVE  Single(n)'
      <4>1. Single(n)
        BY <1>2, <2>0, <3>4 DEF DeliveryOf
      <4>2. ~Somewhere(n) /\ Reminding(n) \subseteq {h}
        BY <1>2, <3>1, <4>1 DEF Single
      <4>3. Reminding(n)' \subseteq {h}
        BY <4>2, <1>4, OthersStay DEF Reminding
      <4>4. WithWorker(n)' = {} /\ OnList(n)' = {Len(queue) + 1} /\ sent'[n] = sent[n] /\ sent[n] = 0
        <5>1. WithWorker(n) = {} /\ OnList(n) = {} /\ sent[n] = 0
          BY <4>2, JobFacts DEF Somewhere
        <5>2. WithWorker(n)' \subseteq Handlers
          BY DEF WithWorker
        <5>3. QED
          BY <1>2, <1>4, <1>5, <2>2, <3>1, <5>1, <5>2, OthersStay
      <4>5. Once(n)'
        BY <4>4 DEF Once
      <4>6. QED
        BY <1>4, <3>3, <4>3, <4>5 DEF Single
    <3>5. n[1] = "tax" => ~(n[2] > begun)
      BY <2>0, <3>1 DEF DeliveryOf
    <3>6. QED
      BY <1>4, <3>2, <3>4, <3>5 DEF DeliveryOf
  <2>3. QED
    BY <2>1, <2>2
<1>8. Delivery'
  BY <1>7 DEF Delivery
<1>9. Notices'
  BY <1>0, <1>2, <1>4, FrameNotices
<1>10. QED
  BY <1>4, <1>6, <1>8, <1>9 DEF JobsInv

\* The note is on the list, and may come again.
LEMMA StepPushUnheard ==
  ASSUME JobsInv, NEW h \in Handlers, PushUnheard(h)
  PROVE  JobsInv'
<1>0. JobRows /\ JobRequests /\ Delivery /\ Notices /\ begun \in Nat
  BY JobFacts
<1>1. PICK note : note = Pushed(h).note
  OBVIOUS
<1>2. /\ pc[h] \in {"deliver", "requeue"} /\ Enqueue(h) /\ LoseAnswer /\ doubt' = doubt \cup {note}
      /\ UNCHANGED <<account, days, period, marked, notices, sent, notified, undelivered>>
  BY <1>1 DEF PushUnheard
<1>3. Pushed(h) \in Job
  <2>1. CASE pc[h] = "deliver"
    BY <2>1, JobFacts DEF Pushed, JobCarry, Job
  <2>2. CASE pc[h] = "requeue"
    BY <2>2, JobFacts DEF Pushed, JobCarry
  <2>3. QED
    BY <1>2, <2>1, <2>2
<1>4. /\ JobRequests' /\ begun' = begun + 1 /\ pc' = pc /\ local' = local /\ Elsewhere(h)
  BY <1>0, <1>2, LoseJob
<1>5. /\ queue' \in Seq(Job)
      /\ \A n : OnList(n)' = OnList(n) \cup (IF n = note THEN {Len(queue) + 1} ELSE {})
  BY <1>0, <1>1, <1>2, <1>3, EnqueueFacts
<1>6. JobRows'
  BY <1>0, <1>2, <1>5 DEF JobRows
<1>7. ASSUME NEW n \in Reminders
      PROVE  DeliveryOf(n)'
  <2>0. DeliveryOf(n) /\ n[2] \in Nat
    BY <1>0, ReminderFacts DEF Delivery
  <2>1. /\ Marking(n)' = Marking(n) /\ Reminding(n)' = Reminding(n) /\ WithWorker(n)' = WithWorker(n)
    BY <1>4 DEF Marking, Reminding, WithWorker
  <2>2. CASE n # note
    <3>1. OnList(n)' = OnList(n)
      BY <1>5, <2>2
    <3>2. (Somewhere(n)' <=> Somewhere(n)) /\ (Once(n) => Once(n)')
      BY <1>2, <2>1, <3>1 DEF Somewhere, Once
    <3>3. Single(n) => Single(n)'
      BY <1>2, <1>4, <2>1, <3>2 DEF Single
    <3>4. QED
      BY <1>0, <1>2, <1>4, <2>0, <2>1, <2>2, <3>2, <3>3 DEF DeliveryOf
  <2>3. CASE n = note
    <3>1. n \in doubt' /\ Somewhere(n)'
      BY <1>2, <1>5, <2>3 DEF Somewhere
    <3>2. h \in Reminding(n) \/ h \in WithWorker(n)
      BY <1>1, <1>2, <2>3 DEF Pushed, Reminding, WithWorker
    <3>3. n[1] = "tax" => ~(n[2] > begun)
      BY <2>0, <3>2 DEF DeliveryOf, Somewhere
    <3>4. QED
      BY <1>0, <1>4, <2>0, <3>1, <3>3 DEF DeliveryOf
  <2>4. QED
    BY <2>2, <2>3
<1>8. Delivery'
  BY <1>7 DEF Delivery
<1>9. Notices'
  BY <1>0, <1>2, <1>4, FrameNotices
<1>10. QED
  BY <1>4, <1>6, <1>8, <1>9 DEF JobsInv

LEMMA StepDeliverDirect ==
  ASSUME JobsInv, NEW h \in Handlers, DeliverDirect(h)
  PROVE  JobsInv'
<1>0. JobRows /\ JobRequests /\ Delivery /\ Notices /\ begun \in Nat
  BY JobFacts
<1>1. PICK note : note = local[h].note
  OBVIOUS
<1>2. /\ pc[h] = "deliver"
      /\ UNCHANGED <<account, days, period, marked, queue, notices, notified>>
      /\ \/ sent' = [sent EXCEPT ![note] = @ + 1] /\ Delivered(h) /\ UNCHANGED <<undelivered, doubt>>
         \/ /\ undelivered' = undelivered \cup {note} /\ Delivered(h) /\ UNCHANGED <<sent, doubt>>
         \/ /\ sent' = [sent EXCEPT ![note] = @ + 1] /\ Answer(h) /\ doubt' = doubt \cup {note}
            /\ UNCHANGED undelivered
         \/ Answer(h) /\ UNCHANGED <<sent, undelivered, doubt>>
  BY <1>1 DEF DeliverDirect, Mailed, MailedUnheard
<1>3. note \in Reminders
  BY <1>1, <1>2, JobFacts DEF JobCarry
<1>4. /\ JobRequests' /\ Elsewhere(h) /\ begun' = begun
      /\ pc'[h] \in {"idle", "mark"}
      /\ pc'[h] = "mark" => local'[h].note = note
  BY <1>0, <1>1, <1>2, DeliveredJob, AnswerJob
<1>5. /\ sent' \in [Reminders -> Nat] /\ \A n \in Reminders : n # note => sent'[n] = sent[n]
      /\ doubt \subseteq doubt' /\ undelivered \subseteq undelivered'
  BY <1>0, <1>2, <1>3 DEF JobRows
<1>6. JobRows'
  BY <1>0, <1>2, <1>5 DEF JobRows
<1>7. ASSUME NEW n \in Reminders
      PROVE  DeliveryOf(n)'
  <2>0. DeliveryOf(n)
    BY <1>0 DEF Delivery
  <2>1. OnList(n)' = OnList(n)
    BY <1>2 DEF OnList
  <2>2. CASE n # note
    <3>1. h \notin Reminding(n) /\ h \notin Reminding(n)' /\ h \notin WithWorker(n) /\ h \notin WithWorker(n)'
      BY <1>1, <1>2, <1>4, <2>2 DEF Reminding, WithWorker
    <3>2. QED
      BY <1>0, <1>2, <1>4, <1>5, <2>0, <2>1, <2>2, <3>1, DeliveryKept
  <2>3. CASE n = note
    <3>1. h \in Reminding(n) /\ h \notin WithWorker(n) /\ h \notin WithWorker(n)'
      BY <1>1, <1>2, <1>4, <2>3 DEF Reminding, WithWorker
    <3>2. WithWorker(n)' = WithWorker(n)
      <4>1. WithWorker(n)' \subseteq Handlers /\ WithWorker(n) \subseteq Handlers
        BY DEF WithWorker
      <4>2. QED
        BY <1>4, <3>1, <4>1, OthersStay
    <3>3. /\ sent[n] \in Nat /\ sent'[n] \in {sent[n], sent[n] + 1}
          /\ (pc'[h] = "mark" => sent'[n] = sent[n] + 1 \/ n \in undelivered')
      BY <1>0, <1>2, <1>3, <2>3 DEF JobRows, Answer, JobRequests
    <3>4. Somewhere(n) => Somewhere(n)'
      BY <2>1, <3>2, <3>3 DEF Somewhere
    <3>5. Marking(n)' \subseteq Marking(n) \cup {h} /\ Marking(n) \subseteq Marking(n)'
      <4>1. h \notin Marking(n) /\ Marking(n)' \subseteq Handlers /\ Marking(n) \subseteq Handlers
        BY <1>2 DEF Marking
      <4>2. QED
        BY <1>4, <4>1, OthersStay
    <3>6. h \in Marking(n)' => Somewhere(n)' \/ n \in undelivered'
      <4>1. h \in Marking(n)' => sent'[n] > 0 \/ n \in undelivered'
        BY <3>3 DEF Marking
      <4>2. QED
        BY <4>1 DEF Somewhere
    <3>7. ASSUME n \notin doubt'
          PROVE  Single(n)'
      <4>1. Single(n)
        BY <1>5, <2>0, <3>7 DEF DeliveryOf
      <4>2. ~Somewhere(n) /\ Reminding(n) \subseteq {h}
        BY <1>2, <3>1, <4>1 DEF Single
      <4>3. Reminding(n)' \subseteq {h} /\ (h \in Reminding(n)' => pc'[h] = "mark")
        BY <4>2, <1>4, OthersStay DEF Reminding
      <4>4. WithWorker(n) = {} /\ OnList(n) = {} /\ sent[n] = 0
        BY <4>2, <3>3 DEF Somewhere
      <4>5. Once(n)'
        BY <2>1, <3>2, <3>3, <4>4 DEF Once
      <4>6. sent'[n] # sent[n] => Delivered(h)
        BY <1>2, <2>3, <3>7
      <4>7. n[1] # "tax" /\ Somewhere(n)' => Marking(n)' # {}
        <5>1. Somewhere(n)' => sent'[n] # sent[n]
          BY <2>1, <3>2, <3>3, <4>4 DEF Somewhere
        <5>2. n[1] # "tax" /\ Delivered(h) => h \in Marking(n)'
          BY <1>1, <1>2, <2>3, DeliveredJob DEF Marking
        <5>3. QED
          BY <4>6, <5>1, <5>2
      <4>8. QED
        BY <4>3, <4>5, <4>7 DEF Single
    <3>8. n[1] = "tax" => ~(n[2] > begun)
      BY <2>0, <3>1 DEF DeliveryOf
    <3>9. n[1] # "tax" /\ (Marking(n)' # {} \/ marked'[n[1]] = n[2]) => Somewhere(n)' \/ n \in undelivered'
      BY <1>2, <1>5, <2>0, <3>4, <3>5, <3>6 DEF DeliveryOf
    <3>10. QED
      BY <1>4, <3>7, <3>8, <3>9 DEF DeliveryOf
  <2>4. QED
    BY <2>2, <2>3
<1>8. Delivery'
  BY <1>7 DEF Delivery
<1>9. Notices'
  BY <1>0, <1>2, <1>4, <1>5, FrameNotices
<1>10. QED
  BY <1>4, <1>6, <1>8, <1>9 DEF JobsInv

LEMMA StepMarkReminder ==
  ASSUME JobsInv, NEW h \in Handlers, MarkReminder(h)
  PROVE  JobsInv'
<1>0. JobRows /\ JobRequests /\ Delivery /\ Notices /\ begun \in Nat
  BY JobFacts
<1>1. PICK note : note = local[h].note
  OBVIOUS
<1>2. /\ pc[h] = "mark" /\ Answer(h) /\ marked' = [marked EXCEPT ![note[1]] = note[2]]
      /\ UNCHANGED <<account, days, period, queue, notices, sent, notified, undelivered, doubt>>
  BY <1>1 DEF MarkReminder
<1>3. note \in Reminders /\ note[1] # "tax" /\ note[2] = period
  BY <1>1, <1>2, JobFacts DEF JobCarry
<1>3a. note[1] \in Kinds /\ note[2] \in Periods
  BY <1>3, ReminderFacts
<1>4. JobRequests' /\ Elsewhere(h) /\ pc'[h] = "idle" /\ begun' = begun
  BY <1>0, <1>2, AnswerJob
<1>5. JobRows'
  BY <1>0, <1>2, <1>3, <1>3a DEF JobRows, Periods
<1>6. ASSUME NEW n \in Reminders
      PROVE  DeliveryOf(n)'
  <2>0. DeliveryOf(n) /\ n[2] \in Nat
    BY <1>0, ReminderFacts DEF Delivery
  <2>1. OnList(n)' = OnList(n)
    BY <1>2 DEF OnList
  <2>2. /\ WithWorker(n)' = WithWorker(n)
        /\ Reminding(n)' = Reminding(n) \ {h} /\ Marking(n)' = Marking(n) \ {h}
        /\ \A g \in Reminding(n)' : pc'[g] = pc[g]
    BY <1>2, <1>4, OthersStay DEF WithWorker, Reminding, Marking
  <2>3. Somewhere(n)' <=> Somewhere(n)
    BY <1>2, <2>1, <2>2 DEF Somewhere
  <2>4. Once(n) => Once(n)'
    BY <1>2, <2>1, <2>2 DEF Once
  <2>5. h \in Marking(n) <=> n = note
    BY <1>1, <1>2 DEF Marking
  <2>6. n[1] # "tax" => \/ n[1] = note[1] /\ marked'[n[1]] = period
                        \/ n[1] # note[1] /\ marked'[n[1]] = marked[n[1]]
    BY <1>0, <1>2, <1>3, <1>3a, ReminderFacts DEF JobRows
  <2>7. n[1] # "tax" => n[1] \in Kinds
    BY ReminderFacts
  <2>8. n[1] # "tax" => marked[n[1]] \in 0..period /\ period \in Nat
    BY <2>7, JobFacts
  <2>9. Single(n) => Single(n)'
    <3>1. n[1] # "tax" /\ Marking(n) # {} /\ Single(n) => Marking(n)' # {} \/ marked'[n[1]] >= n[2]
      <4>1. CASE h \in Marking(n)
        <5>1. n = note
          BY <2>5, <4>1
        <5>2. QED
          BY <1>3, <2>0, <2>6, <5>1
      <4>2. CASE h \notin Marking(n)
        BY <2>2, <4>2
      <4>3. QED
        BY <4>1, <4>2
    <3>2. n[1] # "tax" /\ marked[n[1]] >= n[2] => marked'[n[1]] >= n[2]
      BY <2>0, <2>6, <2>8
    <3>3. QED
      BY <2>2, <2>3, <2>4, <3>1, <3>2 DEF Single
  <2>10. n[1] # "tax" /\ marked'[n[1]] = n[2] => marked[n[1]] = n[2] \/ Marking(n) # {}
    <3>1. CASE n[1] = note[1]
      <4>1. marked'[n[1]] = n[2] /\ n[1] # "tax" => n = note
        BY <1>3, <2>6, <3>1, ReminderFacts
      <4>2. QED
        BY <2>5, <4>1
    <3>2. CASE n[1] # note[1]
      BY <2>6, <3>2
    <3>3. QED
      BY <3>1, <3>2
  <2>11. QED
    BY <1>2, <1>4, <2>0, <2>2, <2>3, <2>9, <2>10 DEF DeliveryOf
<1>7. Delivery'
  BY <1>6 DEF Delivery
<1>8. Notices'
  BY <1>0, <1>2, <1>4, FrameNotices
<1>9. QED
  BY <1>4, <1>5, <1>7, <1>8 DEF JobsInv

-----------------------------------------------------------------------------
\* The email worker.

LEMMA StepRunEmailJobs ==
  ASSUME JobsInv, NEW h \in Handlers, RunEmailJobs(h)
  PROVE  JobsInv'
<1>0. JobRows /\ JobRequests /\ Delivery /\ Notices /\ begun \in Nat
  BY JobFacts
<1>1. Begin(h, "dequeue", [job |-> None]) /\ UNCHANGED jobsVars
  BY DEF RunEmailJobs
<1>2. JobCarry("dequeue", [job |-> None], period, begun + 1)
  BY DEF JobCarry
<1>3. /\ JobRequests' /\ Elsewhere(h) /\ begun' = begun + 1
      /\ pc[h] = "idle" /\ pc'[h] = "dequeue"
  BY <1>0, <1>1, <1>2, BeginJob DEF JobAwaits, jobsVars
<1>4. JobRows'
  BY <1>0, <1>1 DEF JobRows, jobsVars
<1>5. Delivery' /\ Notices'
  BY <1>0, <1>1, <1>3, FrameDelivery, FrameNotices DEF jobsVars
<1>6. QED
  BY <1>3, <1>4, <1>5 DEF JobsInv

LEMMA StepBatchEnd ==
  ASSUME JobsInv, NEW h \in Handlers, BatchEnd(h)
  PROVE  JobsInv'
<1>0. JobRows /\ JobRequests /\ Delivery /\ Notices /\ begun \in Nat
  BY JobFacts
<1>1. pc[h] = "dequeue" /\ Answer(h) /\ UNCHANGED jobsVars
  BY DEF BatchEnd
<1>2. JobRequests' /\ Elsewhere(h) /\ begun' = begun /\ pc'[h] = "idle"
  BY <1>0, <1>1, AnswerJob DEF jobsVars
<1>3. JobRows'
  BY <1>0, <1>1 DEF JobRows, jobsVars
<1>4. Delivery' /\ Notices'
  BY <1>0, <1>1, <1>2, FrameDelivery, FrameNotices DEF jobsVars
<1>5. QED
  BY <1>2, <1>3, <1>4 DEF JobsInv

LEMMA StepDequeue ==
  ASSUME JobsInv, NEW h \in Handlers, Dequeue(h)
  PROVE  JobsInv'
<1>0. JobRows /\ JobRequests /\ Delivery /\ Notices /\ begun \in Nat
  BY JobFacts
<1>1. /\ pc[h] = "dequeue" /\ queue # <<>> /\ queue' = Tail(queue)
      /\ Carry(h, "send", [job |-> Head(queue)])
      /\ UNCHANGED <<account, days, period, marked, notices, sent, notified, undelivered, doubt>>
  BY DEF Dequeue
<1>2. /\ queue' \in Seq(Job) /\ Head(queue) \in Job
      /\ \A n : OnList(n)' = {i \in 1..Len(queue) - 1 : i + 1 \in OnList(n)}
      /\ \A n : 1 \in OnList(n) <=> Head(queue).note = n
      /\ \A n : OnList(n) \subseteq 1..Len(queue)
  BY <1>0, <1>1, DequeueFacts
<1>3. PICK w : w = With([job |-> Head(queue)], local[h])
  OBVIOUS
<1>4. w.job = Head(queue)
  BY <1>3 DEF With
<1>5. JobCarry("send", w, period, begun)
  BY <1>2, <1>4 DEF JobCarry
<1>6. JobRequests' /\ Elsewhere(h) /\ begun' = begun /\ pc'[h] = "send" /\ local'[h] = w
  BY <1>0, <1>1, <1>3, <1>5, CarryJob DEF JobAwaits
<1>7. JobRows'
  BY <1>0, <1>1, <1>2 DEF JobRows
<1>8. ASSUME NEW n \in Reminders
      PROVE  DeliveryOf(n)'
  <2>0. DeliveryOf(n)
    BY <1>0 DEF Delivery
  <2>1. h \notin Reminding(n) /\ h \notin Reminding(n)' /\ h \notin WithWorker(n)
    BY <1>1, <1>6 DEF Reminding, WithWorker
  <2>2. Len(queue) \in Nat
    BY <1>0, QueueFacts
  <2>3. (\A i, j \in OnList(n) : i = j) => (\A i, j \in OnList(n)' : i = j)
    <3>1. SUFFICES ASSUME \A i, j \in OnList(n) : i = j, NEW i \in OnList(n)', NEW j \in OnList(n)'
                   PROVE  i = j
      OBVIOUS
    <3>2. i \in 1..Len(queue) - 1 /\ j \in 1..Len(queue) - 1 /\ i + 1 \in OnList(n) /\ j + 1 \in OnList(n)
      BY <1>2
    <3>3. i + 1 = j + 1
      BY <3>1, <3>2
    <3>4. QED
      BY <2>2, <3>2, <3>3
  <2>4. CASE Head(queue).note # n
    <3>1. h \notin WithWorker(n)'
      BY <1>4, <1>6, <2>4 DEF WithWorker
    <3>2. OnList(n)' = {} <=> OnList(n) = {}
      <4>1. ASSUME NEW i \in OnList(n)
            PROVE  i - 1 \in OnList(n)'
        BY <1>2, <2>2, <2>4
      <4>2. ASSUME NEW i \in OnList(n)'
            PROVE  i + 1 \in OnList(n)
        BY <1>2
      <4>3. CASE OnList(n) = {}
        BY <4>2, <4>3
      <4>4. CASE OnList(n) # {}
        <5>1. PICK i : i \in OnList(n)
          BY <4>4
        <5>2. QED
          BY <4>1, <4>4, <5>1
      <4>5. QED
        BY <4>3, <4>4
    <3>3. QED
      BY <1>0, <1>1, <1>6, <2>0, <2>1, <2>3, <3>1, <3>2, DeliveryKept
  <2>5. CASE Head(queue).note = n
    <3>1. h \in WithWorker(n)' /\ 1 \in OnList(n)
      BY <1>2, <1>4, <1>6, <2>5 DEF WithWorker
    <3>1a. Marking(n)' = Marking(n) /\ Reminding(n)' = Reminding(n)
      BY <1>1, <1>6, OthersStay DEF Marking, Reminding
    <3>1b. WithWorker(n)' \subseteq WithWorker(n) \cup {h}
      BY <1>1, <1>6, OthersStay DEF WithWorker
    <3>1c. \A g \in Reminding(n) : pc'[g] = pc[g]
      BY <1>1, <1>6, OthersStay DEF Reminding
    <3>2. /\ Marking(n)' = Marking(n) /\ Reminding(n)' = Reminding(n)
          /\ \A g \in Reminding(n) : pc'[g] = pc[g]
          /\ WithWorker(n)' \subseteq WithWorker(n) \cup {h}
      BY <3>1a, <3>1b, <3>1c
    <3>3. Somewhere(n) /\ Somewhere(n)'
      BY <3>1 DEF Somewhere
    <3>4. Once(n) => Once(n)'
      <4>1. SUFFICES ASSUME Once(n) PROVE Once(n)'
        OBVIOUS
      <4>2. WithWorker(n) = {} /\ sent[n] = 0
        BY <3>1, <4>1 DEF Once
      <4>3. OnList(n)' = {}
        <5>1. SUFFICES ASSUME NEW i \in OnList(n)' PROVE FALSE
          OBVIOUS
        <5>2. i \in 1..Len(queue) - 1 /\ i + 1 \in OnList(n)
          BY <1>2
        <5>3. i + 1 = 1
          BY <3>1, <4>1, <5>2 DEF Once
        <5>4. QED
          BY <2>2, <5>2, <5>3
      <4>4. WithWorker(n)' = {h}
        BY <3>1, <3>2, <4>2
      <4>5. QED
        BY <1>1, <4>2, <4>3, <4>4 DEF Once
    <3>5. Single(n) => Single(n)'
      BY <1>1, <3>2, <3>3, <3>4 DEF Single
    <3>6. QED
      BY <1>1, <1>6, <2>0, <3>2, <3>3, <3>5 DEF DeliveryOf
  <2>6. QED
    BY <2>4, <2>5
<1>9. Delivery'
  BY <1>8 DEF Delivery
<1>10. Notices'
  BY <1>0, <1>1, <1>6, FrameNotices
<1>11. QED
  BY <1>6, <1>7, <1>9, <1>10 DEF JobsInv

LEMMA StepDequeueUnheard ==
  ASSUME JobsInv, NEW h \in Handlers, DequeueUnheard(h)
  PROVE  JobsInv'
<1>0. JobRows /\ JobRequests /\ Delivery /\ Notices /\ begun \in Nat
  BY JobFacts
<1>1. PICK note : note = Head(queue).note
  OBVIOUS
<1>2. /\ pc[h] = "dequeue" /\ queue # <<>> /\ queue' = Tail(queue) /\ LoseAnswer
      /\ undelivered' = undelivered \cup {note}
      /\ UNCHANGED <<account, days, period, marked, notices, sent, notified, doubt>>
  BY <1>1 DEF DequeueUnheard
<1>3. /\ queue' \in Seq(Job)
      /\ \A n : OnList(n)' = {i \in 1..Len(queue) - 1 : i + 1 \in OnList(n)}
      /\ \A n : 1 \in OnList(n) <=> n = note
      /\ \A n : OnList(n) \subseteq 1..Len(queue)
      /\ Len(queue) \in Nat
  BY <1>0, <1>1, <1>2, DequeueFacts, QueueFacts
<1>4. /\ JobRequests' /\ begun' = begun + 1 /\ pc' = pc /\ local' = local /\ Elsewhere(h)
  BY <1>0, <1>2, LoseJob
<1>5. JobRows'
  BY <1>0, <1>2, <1>3 DEF JobRows
<1>6. ASSUME NEW n \in Reminders
      PROVE  DeliveryOf(n)'
  <2>0. DeliveryOf(n) /\ n[2] \in Nat
    BY <1>0, ReminderFacts DEF Delivery
  <2>1. /\ Marking(n)' = Marking(n) /\ Reminding(n)' = Reminding(n) /\ WithWorker(n)' = WithWorker(n)
    BY <1>4 DEF Marking, Reminding, WithWorker
  <2>2. (\A i, j \in OnList(n) : i = j) => (\A i, j \in OnList(n)' : i = j)
    <3>1. SUFFICES ASSUME \A i, j \in OnList(n) : i = j, NEW i \in OnList(n)', NEW j \in OnList(n)'
                   PROVE  i = j
      OBVIOUS
    <3>2. i \in 1..Len(queue) - 1 /\ j \in 1..Len(queue) - 1 /\ i + 1 \in OnList(n) /\ j + 1 \in OnList(n)
      BY <1>3
    <3>3. i + 1 = j + 1
      BY <3>1, <3>2
    <3>4. QED
      BY <1>3, <3>2, <3>3
  <2>3. OnList(n)' # {} => OnList(n) # {}
    <3>1. ASSUME NEW i \in OnList(n)'
          PROVE  i + 1 \in OnList(n)
      BY <1>3
    <3>2. QED
      BY <3>1
  <2>4. n # note /\ OnList(n) # {} => OnList(n)' # {}
    <3>1. SUFFICES ASSUME n # note, NEW i \in OnList(n)
                   PROVE  OnList(n)' # {}
      OBVIOUS
    <3>2. i - 1 \in OnList(n)'
      BY <1>3, <3>1
    <3>3. QED
      BY <3>2
  <2>5. /\ Somewhere(n)' => Somewhere(n)
        /\ Somewhere(n) => Somewhere(n)' \/ n \in undelivered'
        /\ Once(n) => Once(n)'
    BY <1>2, <2>1, <2>2, <2>3, <2>4 DEF Somewhere, Once
  <2>6. Single(n) => Single(n)'
    BY <1>2, <1>4, <2>1, <2>5 DEF Single
  <2>7. QED
    BY <1>0, <1>2, <1>4, <2>0, <2>1, <2>5, <2>6 DEF DeliveryOf
<1>7. Delivery'
  BY <1>6 DEF Delivery
<1>8. Notices'
  BY <1>0, <1>2, <1>4, FrameNotices
<1>9. QED
  BY <1>4, <1>5, <1>7, <1>8 DEF JobsInv

\* A worker is done with its mail: sent, put back or given up.
LEMMA DoneWithMail ==
  ASSUME JobsInv, NEW h \in Handlers, pc[h] \in {"send", "requeue"}, NEW note, note = local[h].job.note,
         JobRequests', Elsewhere(h), pc'[h] \notin {"deliver", "mark", "send", "requeue"},
         begun' = begun, marked' = marked, doubt \subseteq doubt', undelivered \subseteq undelivered',
         \A n \in Reminders : n # note => OnList(n)' = OnList(n) /\ sent'[n] = sent[n],
         \/ OnList(note)' = OnList(note) /\ sent'[note] = sent[note] + 1
         \/ sent'[note] = sent[note] /\ (\E i \in Nat : OnList(note)' = OnList(note) \cup {i})
         \/ OnList(note)' = OnList(note) /\ sent'[note] = sent[note] /\ note \in undelivered'
         \/ note \in doubt' /\ sent'[note] = sent[note] + 1 /\ OnList(note) \subseteq OnList(note)'
  PROVE  Delivery'
<1>0. JobRows /\ JobRequests /\ Delivery /\ begun \in Nat /\ note \in Reminders /\ sent[note] \in Nat
  BY JobFacts DEF JobCarry, Job
<1>1. ASSUME NEW n \in Reminders
      PROVE  DeliveryOf(n)'
  <2>0. DeliveryOf(n)
    BY <1>0 DEF Delivery
  <2>1. h \notin Reminding(n) /\ h \notin Reminding(n)' /\ h \notin WithWorker(n)' /\ (h \in WithWorker(n) <=> n = note)
    BY DEF Reminding, WithWorker
  <2>2. CASE n # note
    BY <1>0, <2>0, <2>1, <2>2, DeliveryKept
  <2>3. CASE n = note
    <3>1. /\ Marking(n)' = Marking(n) /\ Reminding(n)' = Reminding(n)
          /\ \A g \in Reminding(n) : pc'[g] = pc[g]
          /\ WithWorker(n)' = WithWorker(n) \ {h}
      BY OthersStay DEF Marking, Reminding, WithWorker
    <3>2. Somewhere(n)
      BY <2>1, <2>3 DEF Somewhere
    <3>3. Somewhere(n)' \/ n \in undelivered'
      BY <1>0, <2>3 DEF Somewhere
    <3>4. n \notin doubt' => (Once(n) => Once(n)')
      <4>1. SUFFICES ASSUME Once(n), n \notin doubt' PROVE Once(n)'
        OBVIOUS
      <4>2. WithWorker(n) = {h} /\ OnList(n) = {} /\ sent[n] = 0
        BY <2>1, <2>3, <4>1 DEF Once
      <4>3. WithWorker(n)' = {}
        BY <3>1, <4>2
      <4>4. \/ OnList(n)' = {} /\ sent'[n] = 1
            \/ sent'[n] = 0 /\ (\E i \in Nat : OnList(n)' = {i})
            \/ OnList(n)' = {} /\ sent'[n] = 0
        BY <2>3, <4>1, <4>2
      <4>5. QED
        BY <4>3, <4>4 DEF Once
    <3>5. n \notin doubt' => (Single(n) => Single(n)')
      BY <3>1, <3>2, <3>4 DEF Single
    <3>6. QED
      BY <2>0, <3>1, <3>2, <3>3, <3>5 DEF DeliveryOf
  <2>4. QED
    BY <2>2, <2>3
<1>2. QED
  BY <1>1 DEF Delivery

\* A worker keeps its mail, to put it back.
LEMMA HoldsMail ==
  ASSUME JobsInv, NEW h \in Handlers, pc[h] = "send", NEW note, note = local[h].job.note,
         Elsewhere(h), pc'[h] = "requeue", local'[h].job.note = note,
         begun' = begun, marked' = marked, queue' = queue, undelivered' = undelivered,
         doubt \subseteq doubt',
         \A n \in Reminders : n # note => sent'[n] = sent[n],
         sent'[note] = sent[note] \/ note \in doubt'
  PROVE  Delivery'
<1>0. JobRows /\ JobRequests /\ Delivery /\ begun \in Nat
  BY JobFacts
<1>1. ASSUME NEW n \in Reminders
      PROVE  DeliveryOf(n)'
  <2>0. DeliveryOf(n)
    BY <1>0 DEF Delivery
  <2>1. OnList(n)' = OnList(n)
    BY DEF OnList
  <2>2. /\ h \notin Reminding(n) /\ h \notin Reminding(n)'
        /\ (h \in WithWorker(n) <=> n = note) /\ (h \in WithWorker(n)' <=> n = note)
    BY DEF Reminding, WithWorker
  <2>3. CASE n # note
    BY <1>0, <2>0, <2>1, <2>2, <2>3, DeliveryKept
  <2>4. CASE n = note
    <3>1. /\ Marking(n)' = Marking(n) /\ Reminding(n)' = Reminding(n)
          /\ \A g \in Reminding(n) : pc'[g] = pc[g]
      BY OthersStay DEF Marking, Reminding
    <3>2. WithWorker(n)' = WithWorker(n)
      <4>1. WithWorker(n)' \subseteq Handlers /\ WithWorker(n) \subseteq Handlers
        BY DEF WithWorker
      <4>2. QED
        BY <2>2, <2>4, <4>1, OthersStay
    <3>3. Somewhere(n) /\ Somewhere(n)'
      BY <2>2, <2>4 DEF Somewhere
    <3>4. n \notin doubt' => (Once(n) => Once(n)')
      BY <2>1, <2>4, <3>2 DEF Once
    <3>5. n \notin doubt' => (Single(n) => Single(n)')
      BY <3>1, <3>3, <3>4 DEF Single
    <3>6. QED
      BY <2>0, <3>1, <3>3, <3>5 DEF DeliveryOf
  <2>5. QED
    BY <2>3, <2>4
<1>2. QED
  BY <1>1 DEF Delivery

LEMMA BackToTheQueue ==
  ASSUME JobRequests, NEW h \in Handlers, pc[h] # "idle", Goto(h, "dequeue"), period' = period
  PROVE  JobRequests' /\ Elsewhere(h) /\ begun' = begun /\ pc'[h] = "dequeue"
<1>1. JobCarry("dequeue", local[h], period, begun)
  BY DEF JobCarry
<1>2. QED
  BY <1>1, GotoJob DEF JobAwaits

LEMMA StepSendJob ==
  ASSUME JobsInv, NEW h \in Handlers, SendJob(h)
  PROVE  JobsInv'
<1>0. JobRows /\ JobRequests /\ Delivery /\ Notices /\ begun \in Nat
  BY JobFacts
<1>1. PICK note : note = local[h].job.note
  OBVIOUS
<1>2. /\ pc[h] = "send" /\ Goto(h, "dequeue")
      /\ \/ sent' = [sent EXCEPT ![note] = @ + 1] /\ UNCHANGED undelivered
         \/ undelivered' = undelivered \cup {note} /\ UNCHANGED sent
      /\ UNCHANGED <<account, days, period, marked, queue, notices, notified, doubt>>
  BY <1>1 DEF SendJob, Mailed
<1>3. note \in Reminders
  BY <1>1, <1>2, JobFacts DEF JobCarry, Job
<1>4. JobRequests' /\ Elsewhere(h) /\ begun' = begun /\ pc'[h] = "dequeue"
  BY <1>0, <1>2, BackToTheQueue
<1>5. JobRows'
  BY <1>0, <1>2, <1>3 DEF JobRows
<1>6. /\ \A n \in Reminders : n # note => sent'[n] = sent[n]
      /\ sent'[note] = sent[note] + 1 \/ (sent'[note] = sent[note] /\ note \in undelivered')
      /\ undelivered \subseteq undelivered'
  BY <1>0, <1>2, <1>3 DEF JobRows
<1>7. \A n : OnList(n)' = OnList(n)
  BY <1>2 DEF OnList
<1>8. Delivery'
  BY <1>1, <1>2, <1>3, <1>4, <1>6, <1>7, DoneWithMail
<1>9. Notices'
  BY <1>0, <1>2, <1>4, FrameNotices
<1>10. QED
  BY <1>4, <1>5, <1>8, <1>9 DEF JobsInv

\* What becomes of a mail that failed, whether or not it went out.
LEMMA AgainStep ==
  ASSUME JobsInv, NEW h \in Handlers, pc[h] = "send", Again(h), NEW note, note = local[h].job.note,
         UNCHANGED <<account, days, period, marked, queue, notices, notified>>,
         \/ UNCHANGED <<sent, doubt>>
         \/ sent' = [sent EXCEPT ![note] = @ + 1] /\ doubt' = doubt \cup {note}
  PROVE  JobsInv'
<1>0. JobRows /\ JobRequests /\ Delivery /\ Notices /\ begun \in Nat
  BY JobFacts
<1>1. local[h].job \in Job /\ note \in Reminders
  BY JobFacts DEF JobCarry, Job
<1>2. /\ JobRows' /\ doubt \subseteq doubt'
      /\ \A n \in Reminders : n # note => sent'[n] = sent[n]
      /\ \/ sent'[note] = sent[note]
         \/ note \in doubt' /\ sent'[note] = sent[note] + 1
  BY <1>0, <1>1 DEF JobRows
<1>3. \A n : OnList(n)' = OnList(n)
  BY DEF OnList
<1>4. CASE GiveUp(h)
  <2>1. Goto(h, "dequeue") /\ undelivered' = undelivered \cup {note}
    BY <1>4 DEF GiveUp
  <2>2. JobRequests' /\ Elsewhere(h) /\ begun' = begun /\ pc'[h] = "dequeue"
    BY <1>0, <2>1, BackToTheQueue
  <2>3. Delivery'
    BY <1>1, <1>2, <1>3, <2>1, <2>2, DoneWithMail
  <2>4. Notices'
    BY <1>0, <1>2, <2>2, FrameNotices
  <2>5. QED
    BY <1>2, <2>2, <2>3, <2>4 DEF JobsInv
<1>5. CASE ~GiveUp(h)
  <2>1. PICK job : job = [local[h].job EXCEPT !.tries = @ + 1]
    OBVIOUS
  <2>2. Carry(h, "requeue", [job |-> job]) /\ UNCHANGED undelivered
    BY <1>5, <2>1 DEF Again
  <2>3. job \in Job /\ job.note = note
    BY <1>1, <2>1 DEF Job
  <2>4. PICK w : w = With([job |-> job], local[h])
    OBVIOUS
  <2>5. w.job = job
    BY <2>4 DEF With
  <2>6. JobCarry("requeue", w, period, begun)
    BY <2>3, <2>5 DEF JobCarry
  <2>7. JobRequests' /\ Elsewhere(h) /\ begun' = begun /\ pc'[h] = "requeue" /\ local'[h] = w
    BY <1>0, <2>2, <2>4, <2>6, CarryJob DEF JobAwaits
  <2>8. Delivery'
    BY <1>2, <2>2, <2>3, <2>5, <2>7, HoldsMail
  <2>9. Notices'
    BY <1>0, <1>2, <2>7, FrameNotices
  <2>10. QED
    BY <1>2, <2>7, <2>8, <2>9 DEF JobsInv
<1>6. QED
  BY <1>4, <1>5

LEMMA StepSendFails ==
  ASSUME JobsInv, NEW h \in Handlers, SendFails(h)
  PROVE  JobsInv'
<1>1. PICK note : note = local[h].job.note
  OBVIOUS
<1>2. /\ pc[h] = "send" /\ Again(h)
      /\ UNCHANGED <<account, days, period, marked, queue, notices, sent, notified, doubt>>
  BY DEF SendFails
<1>3. QED
  BY <1>1, <1>2, AgainStep

LEMMA StepSendUnheard ==
  ASSUME JobsInv, NEW h \in Handlers, SendUnheard(h)
  PROVE  JobsInv'
<1>1. PICK note : note = local[h].job.note
  OBVIOUS
<1>2. /\ pc[h] = "send" /\ Again(h)
      /\ sent' = [sent EXCEPT ![note] = @ + 1] /\ doubt' = doubt \cup {note}
      /\ UNCHANGED <<account, days, period, marked, queue, notices, notified>>
  BY <1>1 DEF SendUnheard, MailedUnheard
<1>3. QED
  BY <1>1, <1>2, AgainStep

LEMMA StepRequeue ==
  ASSUME JobsInv, NEW h \in Handlers, Requeue(h)
  PROVE  JobsInv'
<1>0. JobRows /\ JobRequests /\ Delivery /\ Notices /\ begun \in Nat
  BY JobFacts
<1>1. PICK note : note = local[h].job.note
  OBVIOUS
<1>2. /\ pc[h] = "requeue" /\ Enqueue(h) /\ Goto(h, "dequeue")
      /\ UNCHANGED <<account, days, period, marked, notices, sent, notified, undelivered, doubt>>
  BY DEF Requeue
<1>3. Pushed(h) \in Job /\ Pushed(h).note = note /\ note \in Reminders
  BY <1>1, <1>2, JobFacts DEF Pushed, JobCarry, Job
<1>4. JobRequests' /\ Elsewhere(h) /\ begun' = begun /\ pc'[h] = "dequeue"
  BY <1>0, <1>2, BackToTheQueue
<1>5. /\ queue' \in Seq(Job) /\ Len(queue) + 1 \in Nat
      /\ \A n : OnList(n)' = OnList(n) \cup (IF n = note THEN {Len(queue) + 1} ELSE {})
  BY <1>0, <1>2, <1>3, EnqueueFacts
<1>6. JobRows'
  BY <1>0, <1>2, <1>5 DEF JobRows
<1>7. \E i \in Nat : OnList(note)' = OnList(note) \cup {i}
  BY <1>5
<1>7a. \A n \in Reminders : n # note => OnList(n)' = OnList(n)
  BY <1>5
<1>8. Delivery'
  BY <1>1, <1>2, <1>3, <1>4, <1>7, <1>7a, DoneWithMail
<1>9. Notices'
  BY <1>0, <1>2, <1>4, FrameNotices
<1>10. QED
  BY <1>4, <1>6, <1>8, <1>9 DEF JobsInv

LEMMA StepRequeueFails ==
  ASSUME JobsInv, NEW h \in Handlers, RequeueFails(h)
  PROVE  JobsInv'
<1>0. JobRows /\ JobRequests /\ Delivery /\ Notices /\ begun \in Nat
  BY JobFacts
<1>1. PICK note : note = local[h].job.note
  OBVIOUS
<1>2. /\ pc[h] = "requeue" /\ Goto(h, "dequeue") /\ undelivered' = undelivered \cup {note}
      /\ UNCHANGED <<account, days, period, marked, queue, notices, sent, notified, doubt>>
  BY <1>1 DEF RequeueFails, GiveUp
<1>3. note \in Reminders
  BY <1>1, <1>2, JobFacts DEF JobCarry, Job
<1>4. JobRequests' /\ Elsewhere(h) /\ begun' = begun /\ pc'[h] = "dequeue"
  BY <1>0, <1>2, BackToTheQueue
<1>5. JobRows'
  BY <1>0, <1>2 DEF JobRows
<1>6. \A n : OnList(n)' = OnList(n)
  BY <1>2 DEF OnList
<1>7. Delivery'
  BY <1>1, <1>2, <1>3, <1>4, <1>6, DoneWithMail
<1>8. Notices'
  BY <1>0, <1>2, <1>4, FrameNotices
<1>9. QED
  BY <1>4, <1>5, <1>7, <1>8 DEF JobsInv

-----------------------------------------------------------------------------
\* Time, and what stops.

LEMMA StepDay ==
  ASSUME JobsInv, Day
  PROVE  JobsInv'
<1>0. JobRows /\ JobRequests /\ Delivery /\ Notices
  BY JobFacts
<1>1. UNCHANGED <<account, period, marked, queue, notices, sent, notified, undelivered, doubt, pc, local, begun>>
  BY DEF Day, handlerVars
<1>2. JobRows' /\ JobRequests'
  BY <1>0, <1>1 DEF JobRows, JobRequests, InFlight
<1>3. \A n : /\ Reminding(n)' = Reminding(n) /\ Marking(n)' = Marking(n)
             /\ WithWorker(n)' = WithWorker(n) /\ OnList(n)' = OnList(n) /\ Notifying(n)' = Notifying(n)
  BY <1>1 DEF Reminding, Marking, WithWorker, OnList, Notifying
<1>4. \A n : (Somewhere(n)' <=> Somewhere(n)) /\ (Once(n) => Once(n)')
  BY <1>1, <1>3 DEF Somewhere, Once
<1>5. \A n : Single(n) => Single(n)'
  BY <1>1, <1>3, <1>4 DEF Single
<1>6. Delivery'
  BY <1>0, <1>1, <1>3, <1>4, <1>5 DEF Delivery, DeliveryOf
<1>7. Pending' = Pending
  BY <1>1 DEF Pending
<1>8. \A m : (Unseen(m)' <=> Unseen(m)) /\ (Alone(m) => Alone(m)')
  BY <1>1, <1>3, <1>7 DEF Unseen, Alone
<1>9. Notices'
  BY <1>0, <1>1, <1>8 DEF Notices
<1>10. QED
  BY <1>2, <1>6, <1>9 DEF JobsInv

\* No run of the reminders is under way, so nobody carries the period.
LEMMA StepRenew ==
  ASSUME JobsInv, Renew
  PROVE  JobsInv'
<1>0. JobRows /\ JobRequests /\ Delivery /\ Notices /\ period \in Nat
  BY JobFacts
<1>1. /\ UNCHANGED <<account, marked, queue, notices, sent, notified, undelivered, doubt, pc, local, begun>>
      /\ period' = period + 1 /\ period' \in Periods
      /\ \A h \in Handlers : pc[h] \notin {"deliver", "mark"}
  BY DEF Renew, handlerVars
<1>2. JobRows'
  <2>1. marked \in [Kinds -> 0..period + 1]
    BY <1>0 DEF JobRows
  <2>2. QED
    BY <1>0, <1>1, <2>1 DEF JobRows
<1>3. \A h \in Handlers : JobCarry(pc[h], local[h], period', begun)
  BY <1>1, JobFacts DEF JobCarry
<1>4. JobRequests'
  BY <1>0, <1>1, <1>3 DEF JobRequests, InFlight
<1>5. \A n : /\ Reminding(n)' = Reminding(n) /\ Marking(n)' = Marking(n)
             /\ WithWorker(n)' = WithWorker(n) /\ OnList(n)' = OnList(n) /\ Notifying(n)' = Notifying(n)
  BY <1>1 DEF Reminding, Marking, WithWorker, OnList, Notifying
<1>6. \A n : (Somewhere(n)' <=> Somewhere(n)) /\ (Once(n) => Once(n)')
  BY <1>1, <1>5 DEF Somewhere, Once
<1>7. \A n : Single(n) => Single(n)'
  BY <1>1, <1>5, <1>6 DEF Single
<1>8. Delivery'
  BY <1>0, <1>1, <1>5, <1>6, <1>7 DEF Delivery, DeliveryOf
<1>9. Pending' = Pending
  BY <1>1 DEF Pending
<1>10. \A m : (Unseen(m)' <=> Unseen(m)) /\ (Alone(m) => Alone(m)')
  BY <1>1, <1>5, <1>9 DEF Unseen, Alone
<1>11. Notices'
  BY <1>0, <1>1, <1>10 DEF Notices
<1>12. QED
  BY <1>2, <1>4, <1>8, <1>11 DEF JobsInv

\* What a request that stops leaves behind of its reminder.
LEMMA StopDelivery ==
  ASSUME JobsInv, NEW h \in Handlers, JobsFail(h), Elsewhere(h), pc'[h] = "idle", begun' = begun
  PROVE  Delivery'
<1>0. JobRows /\ JobRequests /\ Delivery /\ begun \in Nat
  BY JobFacts
<1>1. /\ UNCHANGED <<marked, queue, sent>>
      /\ undelivered' = IF pc[h] \in {"send", "requeue"} THEN undelivered \cup {local[h].job.note}
                        ELSE undelivered
      /\ doubt' = CASE pc[h] = "mark" -> doubt \cup {local[h].note}
                    [] pc[h] = "noticesDone" -> doubt \cup {Note(m) : m \in local[h].batch}
                    [] OTHER -> doubt
  BY DEF JobsFail, Holding
<1>2. undelivered \subseteq undelivered' /\ doubt \subseteq doubt'
  BY <1>1
<1>3. \A n : OnList(n)' = OnList(n)
  BY <1>1 DEF OnList
<1>4. CASE pc[h] \notin {"deliver", "mark", "send", "requeue"}
  BY <1>0, <1>1, <1>2, <1>4, FrameDelivery
<1>5. CASE pc[h] \in {"send", "requeue"}
  <2>1. PICK note : note = local[h].job.note
    OBVIOUS
  <2>2. note \in undelivered'
    BY <1>1, <1>5, <2>1
  <2>3. note \in Reminders
    BY <1>5, <2>1, JobFacts DEF JobCarry, Job
  <2>4. QED
    <3>1. JobRequests'
      BY <1>0, AnswerJob DEF JobsFail
    <3>2. QED
      BY <1>1, <1>2, <1>3, <1>5, <2>1, <2>2, <2>3, <3>1, DoneWithMail
<1>6. CASE pc[h] \in {"deliver", "mark"}
  <2>1. PICK note : note = local[h].note
    OBVIOUS
  <2>2. pc[h] = "mark" => note \in doubt'
    BY <1>1, <2>1
  <2>3. SUFFICES ASSUME NEW n \in Reminders PROVE DeliveryOf(n)'
    BY DEF Delivery
  <2>4. DeliveryOf(n)
    BY <1>0 DEF Delivery
  <2>5. /\ WithWorker(n)' = WithWorker(n)
        /\ Reminding(n)' = Reminding(n) \ {h} /\ Marking(n)' = Marking(n) \ {h}
        /\ \A g \in Reminding(n)' : pc'[g] = pc[g]
    BY <1>6, OthersStay DEF WithWorker, Reminding, Marking
  <2>6. (Somewhere(n)' <=> Somewhere(n)) /\ (Once(n) => Once(n)')
    BY <1>1, <1>3, <2>5 DEF Somewhere, Once
  <2>7. h \in Marking(n) => n \in doubt'
    BY <2>1, <2>2 DEF Marking
  <2>8. n \notin doubt' => (Single(n) => Single(n)')
    BY <1>1, <2>5, <2>6, <2>7 DEF Single
  <2>9. QED
    BY <1>1, <1>2, <2>4, <2>5, <2>6, <2>8 DEF DeliveryOf
<1>7. QED
  BY <1>4, <1>5, <1>6

-----------------------------------------------------------------------------
\* Notifications of messages.

\* What a step does with one message does not concern the others.
LEMMA AloneKept ==
  ASSUME NEW h \in Handlers, Elsewhere(h), NEW m, Alone(m), notified'[m] = notified[m],
         h \notin Notifying(m), h \notin Notifying(m)', m \in Pending' => m \in Pending
  PROVE  Alone(m)'
<1>1. Notifying(m)' = Notifying(m)
  <2>1. Notifying(m)' \subseteq Handlers /\ Notifying(m) \subseteq Handlers
    BY DEF Notifying
  <2>2. QED
    BY <2>1, OthersStay
<1>2. \A g \in Notifying(m) : pc'[g] = pc[g]
  BY OthersStay DEF Notifying
<1>3. QED
  BY <1>1, <1>2 DEF Alone

LEMMA StepMessageSend ==
  ASSUME JobsInv, NEW h \in Handlers, MessageSend(h)
  PROVE  JobsInv'
<1>0. JobRows /\ JobRequests /\ Delivery /\ Notices /\ begun \in Nat
  BY JobFacts
<1>1. PICK message : message = begun + 1
  OBVIOUS
<1>2. Begin(h, "queueNotice", [message |-> message]) /\ UNCHANGED jobsVars
  BY <1>1 DEF MessageSend
<1>3. JobCarry("queueNotice", [message |-> message], period, begun + 1)
  BY <1>0, <1>1 DEF JobCarry
<1>4. /\ JobRequests' /\ Elsewhere(h) /\ begun' = begun + 1 /\ begun' \in 1..MaxRequests
      /\ pc[h] = "idle" /\ pc'[h] = "queueNotice" /\ local'[h] = [message |-> message]
  BY <1>0, <1>2, <1>3, BeginJob DEF JobAwaits, jobsVars
<1>5. JobRows'
  BY <1>0, <1>2 DEF JobRows, jobsVars
<1>6. Delivery'
  BY <1>0, <1>2, <1>4, FrameDelivery DEF jobsVars
<1>7. \A m : Notifying(m)' = Notifying(m) /\ \A g \in Notifying(m) : pc'[g] = pc[g]
  BY <1>4, OthersStay DEF Notifying
<1>8. Pending' = Pending
  BY <1>2 DEF Pending, jobsVars
<1>9. \A m : (Unseen(m)' <=> Unseen(m)) /\ (Alone(m) => Alone(m)')
  BY <1>2, <1>7, <1>8 DEF Unseen, Alone, jobsVars
<1>10. Unseen(message)
  BY <1>0, <1>1, <1>4, RequestsAssumption DEF Notices
<1>11. \A g \in Handlers \ {h} : pc[g] = "queueNotice" => local[g].message # message
  BY <1>0, <1>1, JobFacts DEF JobCarry
<1>12. \A g \in Handlers \ {h} : pc'[g] = pc[g] /\ local'[g] = local[g]
  BY <1>4 DEF Elsewhere
<1>13. Notices'
  <2>1. \A m \in 1..MaxRequests : (Note(m) \in doubt' \/ Alone(m)') /\ (m > begun' => Unseen(m)')
    BY <1>0, <1>2, <1>4, <1>9 DEF Notices, jobsVars
  <2>2. ASSUME NEW g \in Handlers, NEW m \in 1..MaxRequests, pc'[g] = "queueNotice", local'[g].message = m
        PROVE  Unseen(m)'
    <3>1. Unseen(m)
      BY <1>0, <1>4, <1>10, <1>12, <2>2 DEF Notices
    <3>2. QED
      BY <1>9, <3>1
  <2>3. QED
    BY <1>0, <1>2, <1>4, <1>11, <1>12, <2>1, <2>2 DEF Notices, jobsVars
<1>14. QED
  BY <1>4, <1>5, <1>6, <1>13 DEF JobsInv

LEMMA StepCreateNotificationQueue ==
  ASSUME JobsInv, NEW h \in Handlers, CreateNotificationQueue(h)
  PROVE  JobsInv'
<1>0. JobRows /\ JobRequests /\ Delivery /\ Notices /\ begun \in Nat
  BY JobFacts
<1>1. PICK k : k = local[h].message
  OBVIOUS
<1>2. PICK row : row = [message |-> k, done |-> FALSE]
  OBVIOUS
<1>3. /\ pc[h] = "queueNotice" /\ notices' = notices \cup {row} /\ Answer(h)
      /\ UNCHANGED <<account, days, period, marked, queue, sent, notified, undelivered, doubt>>
  BY <1>1, <1>2 DEF CreateNotificationQueue
<1>4. k \in 1..begun /\ k \in 1..MaxRequests /\ row \in Notice
  BY <1>0, <1>1, <1>2, <1>3, JobFacts, RequestsAssumption DEF JobCarry, Notice, JobRequests
<1>5. JobRequests' /\ Elsewhere(h) /\ pc'[h] = "idle" /\ begun' = begun
  BY <1>0, <1>3, AnswerJob
<1>6. JobRows'
  BY <1>0, <1>3, <1>4 DEF JobRows
<1>7. Delivery'
  BY <1>0, <1>3, <1>5, FrameDelivery
<1>8. \A m : Notifying(m)' = Notifying(m) /\ \A g \in Notifying(m) : pc'[g] = pc[g]
  BY <1>3, <1>5, OthersStay DEF Notifying
<1>9. Unseen(k)
  BY <1>0, <1>1, <1>3, <1>4 DEF Notices
<1>10. \A m : m # k => (Unseen(m) => Unseen(m)') /\ (m \in Pending' => m \in Pending)
  BY <1>2, <1>3, <1>8 DEF Unseen, Pending
<1>11. ASSUME NEW m \in 1..MaxRequests
       PROVE  (Note(m) \in doubt' \/ Alone(m)') /\ (m > begun' => Unseen(m)')
  <2>0. (Note(m) \in doubt \/ Alone(m)) /\ (m > begun => Unseen(m))
    BY <1>0 DEF Notices
  <2>1. CASE m # k
    <3>1. Alone(m) => Alone(m)'
      BY <1>3, <1>8, <1>10, <2>1 DEF Alone
    <3>2. QED
      BY <1>3, <1>5, <1>10, <2>0, <2>1, <3>1
  <2>2. CASE m = k
    <3>1. notified'[m] = 0 /\ Notifying(m)' = {}
      BY <1>3, <1>8, <1>9, <2>2 DEF Unseen
    <3>2. Alone(m)'
      BY <3>1 DEF Alone
    <3>3. QED
      BY <1>0, <1>4, <1>5, <2>2, <3>2
  <2>3. QED
    BY <2>1, <2>2
<1>12. ASSUME NEW g \in Handlers
       PROVE  /\ pc'[g] = "queueNotice" => g # h /\ pc[g] = "queueNotice" /\ local'[g] = local[g]
              /\ pc'[g] = "noticesDone" => g # h /\ pc[g] = "noticesDone" /\ local'[g] = local[g]
  BY <1>5 DEF Elsewhere
<1>13. ASSUME NEW g \in Handlers, NEW m \in 1..MaxRequests, pc'[g] = "queueNotice", local'[g].message = m
       PROVE  Unseen(m)'
  <2>1. m # k
    BY <1>0, <1>1, <1>3, <1>12, <1>13 DEF Notices
  <2>2. Unseen(m)
    BY <1>0, <1>12, <1>13 DEF Notices
  <2>3. QED
    BY <1>10, <2>1, <2>2
<1>14. \A n \in notices' : n.done => notified'[n.message] > 0
  BY <1>0, <1>2, <1>3 DEF Notices
<1>15. Notices'
  BY <1>0, <1>3, <1>11, <1>12, <1>13, <1>14 DEF Notices
<1>16. QED
  BY <1>5, <1>6, <1>7, <1>15 DEF JobsInv

LEMMA StepProcessNotifications ==
  ASSUME JobsInv, NEW h \in Handlers, ProcessNotifications(h)
  PROVE  JobsInv'
<1>0. JobRows /\ JobRequests /\ Delivery /\ Notices /\ begun \in Nat
  BY JobFacts
<1>1. PICK batch : batch = Pending
  OBVIOUS
<1>2. /\ Begin(h, "notify", [batch |-> batch])
      /\ doubt' = doubt \cup {Note(m) : m \in {m \in batch :
                    \E g \in Handlers \ {h} : pc[g] \in {"notify", "noticesDone"} /\ m \in local[g].batch}}
      /\ UNCHANGED <<account, days, period, marked, queue, notices, sent, notified, undelivered>>
  BY <1>1 DEF ProcessNotifications
<1>3. batch \subseteq 1..begun + 1
  <2>1. ASSUME NEW m \in batch
        PROVE  m \in 1..begun + 1
    <3>1. PICK n \in notices : n.message = m
      BY <1>1, <2>1 DEF Pending
    <3>2. m \in 1..MaxRequests
      BY <1>0, <3>1 DEF JobRows, Notice
    <3>3. ~Unseen(m)
      BY <3>1 DEF Unseen
    <3>4. ~(m > begun)
      BY <1>0, <3>2, <3>3 DEF Notices
    <3>5. QED
      BY <1>0, <3>2, <3>4
  <2>2. QED
    BY <2>1
<1>4. JobCarry("notify", [batch |-> batch], period, begun + 1)
  BY <1>3 DEF JobCarry
<1>5. /\ JobRequests' /\ Elsewhere(h) /\ begun' = begun + 1
      /\ pc[h] = "idle" /\ pc'[h] = "notify" /\ local'[h] = [batch |-> batch]
  BY <1>0, <1>2, <1>4, BeginJob DEF JobAwaits
<1>6. JobRows'
  BY <1>0, <1>2 DEF JobRows
<1>7. doubt \subseteq doubt'
  BY <1>2
<1>8. Delivery'
  BY <1>0, <1>2, <1>5, <1>7, FrameDelivery
<1>9. \A m : /\ h \notin Notifying(m)
             /\ Notifying(m)' = Notifying(m) \cup (IF m \in batch THEN {h} ELSE {})
             /\ \A g \in Notifying(m) : pc'[g] = pc[g]
  BY <1>5, OthersStay DEF Notifying
<1>10. Pending' = Pending
  BY <1>2 DEF Pending
<1>11. \A m : m \notin batch => (Unseen(m)' <=> Unseen(m)) /\ (Alone(m) => Alone(m)')
  BY <1>2, <1>9, <1>10 DEF Unseen, Alone
<1>12. \A m \in batch : ~Unseen(m)
  BY <1>1 DEF Pending, Unseen
<1>13. ASSUME NEW m \in 1..MaxRequests
       PROVE  (Note(m) \in doubt' \/ Alone(m)') /\ (m > begun' => Unseen(m)')
  <2>0. (Note(m) \in doubt \/ Alone(m)) /\ (m > begun => Unseen(m))
    BY <1>0 DEF Notices
  <2>1. CASE m \notin batch
    BY <1>0, <1>5, <1>7, <1>11, <2>0, <2>1
  <2>2. CASE m \in batch
    <3>1. ASSUME Note(m) \notin doubt'
          PROVE  Alone(m)'
      <4>1. Alone(m)
        BY <1>7, <2>0, <3>1
      <4>2. Notifying(m) = {}
        <5>1. \A g \in Handlers \ {h} : ~(pc[g] \in {"notify", "noticesDone"} /\ m \in local[g].batch)
          BY <1>2, <2>2, <3>1
        <5>2. QED
          BY <1>9, <5>1 DEF Notifying
      <4>3. notified[m] \in Nat /\ m \in Pending
        BY <1>0, <1>1, <2>2 DEF JobRows
      <4>4. notified[m] = 0
        BY <4>1, <4>2, <4>3 DEF Alone
      <4>5. Notifying(m)' = {h}
        BY <1>9, <2>2, <4>2
      <4>6. QED
        BY <1>2, <1>5, <4>4, <4>5 DEF Alone
    <3>2. ~(m > begun')
      BY <1>0, <1>3, <1>5, <2>2
    <3>3. QED
      BY <3>1, <3>2
  <2>3. QED
    BY <2>1, <2>2
<1>14. ASSUME NEW g \in Handlers
       PROVE  /\ pc'[g] = "queueNotice" => g # h /\ pc[g] = "queueNotice" /\ local'[g] = local[g]
              /\ pc'[g] = "noticesDone" => g # h /\ pc[g] = "noticesDone" /\ local'[g] = local[g]
  BY <1>5 DEF Elsewhere
<1>15. ASSUME NEW g \in Handlers, NEW m \in 1..MaxRequests, pc'[g] = "queueNotice", local'[g].message = m
       PROVE  Unseen(m)'
  <2>1. Unseen(m)
    BY <1>0, <1>14, <1>15 DEF Notices
  <2>2. QED
    BY <1>11, <1>12, <2>1
<1>16. Notices'
  BY <1>0, <1>2, <1>13, <1>14, <1>15 DEF Notices
<1>17. QED
  BY <1>5, <1>6, <1>8, <1>16 DEF JobsInv

LEMMA StepCreateNotifications ==
  ASSUME JobsInv, NEW h \in Handlers, CreateNotifications(h)
  PROVE  JobsInv'
<1>0. JobRows /\ JobRequests /\ Delivery /\ Notices /\ begun \in Nat
  BY JobFacts
<1>1. PICK batch : batch = local[h].batch
  OBVIOUS
<1>2. /\ pc[h] = "notify" /\ Goto(h, "noticesDone")
      /\ notified' = [m \in DOMAIN notified |-> IF m \in batch THEN notified[m] + 1 ELSE notified[m]]
      /\ UNCHANGED <<account, days, period, marked, queue, notices, sent, undelivered, doubt>>
  BY <1>1 DEF CreateNotifications
<1>3. batch \subseteq 1..begun /\ batch \subseteq 1..MaxRequests
  BY <1>0, <1>1, <1>2, JobFacts, RequestsAssumption DEF JobCarry, JobRequests
<1>4. JobRequests' /\ Elsewhere(h) /\ begun' = begun /\ pc'[h] = "noticesDone" /\ local'[h] = local[h]
  <2>1. JobCarry("noticesDone", local[h], period, begun)
    BY <1>1, <1>3 DEF JobCarry
  <2>2. QED
    BY <1>0, <1>2, <2>1, GotoJob DEF JobAwaits
<1>5. /\ notified' \in [1..MaxRequests -> Nat]
      /\ \A m \in 1..MaxRequests : notified[m] \in Nat /\ notified'[m] = IF m \in batch THEN notified[m] + 1 ELSE notified[m]
  BY <1>0, <1>2 DEF JobRows
<1>6. JobRows'
  BY <1>0, <1>2, <1>5 DEF JobRows
<1>7. Delivery'
  BY <1>0, <1>2, <1>4, FrameDelivery
<1>8. \A m : /\ h \in Notifying(m) <=> m \in batch
             /\ Notifying(m)' = Notifying(m)
             /\ \A g \in Notifying(m) \ {h} : pc'[g] = pc[g]
  BY <1>1, <1>2, <1>4, OthersStay DEF Notifying
<1>9. Pending' = Pending
  BY <1>2 DEF Pending
<1>10. \A m \in 1..MaxRequests : Unseen(m) => m \notin batch /\ Unseen(m)'
  BY <1>2, <1>5, <1>8 DEF Unseen
<1>11. ASSUME NEW m \in 1..MaxRequests, Alone(m)
       PROVE  Alone(m)'
  <2>1. CASE m \notin batch
    <3>1. \A g \in Notifying(m) : pc'[g] = pc[g]
      BY <1>8, <2>1
    <3>2. QED
      BY <1>5, <1>8, <1>9, <1>11, <2>1, <3>1 DEF Alone
  <2>2. CASE m \in batch
    <3>1. Notifying(m)' = {h} /\ notified[m] = 0
      BY <1>2, <1>8, <1>11, <2>2 DEF Alone
    <3>2. notified'[m] = 1
      BY <1>5, <2>2, <3>1
    <3>3. QED
      BY <1>4, <3>1, <3>2 DEF Alone
  <2>3. QED
    BY <2>1, <2>2
<1>12. ASSUME NEW g \in Handlers
       PROVE  /\ pc'[g] = "queueNotice" => g # h /\ pc[g] = "queueNotice"
              /\ pc'[g] = "noticesDone" => g = h \/ pc[g] = "noticesDone"
              /\ local'[g] = local[g]
  BY <1>4 DEF Elsewhere
<1>13. ASSUME NEW g \in Handlers, pc'[g] = "noticesDone"
       PROVE  \A m \in local'[g].batch : notified'[m] > 0
  <2>1. CASE g = h
    BY <1>1, <1>3, <1>4, <1>5, <2>1
  <2>2. CASE g # h
    <3>1. pc[g] = "noticesDone" /\ local'[g] = local[g]
      BY <1>12, <1>13, <2>2
    <3>2. local[g].batch \subseteq 1..MaxRequests
      BY <1>0, <3>1, JobFacts, RequestsAssumption DEF JobCarry, JobRequests
    <3>3. QED
      BY <1>0, <1>5, <3>1, <3>2 DEF Notices
  <2>3. QED
    BY <2>1, <2>2
<1>14. \A n \in notices' : n.done => notified'[n.message] > 0
  <2>1. \A n \in notices : n.message \in 1..MaxRequests
    BY <1>0 DEF JobRows, Notice
  <2>2. QED
    BY <1>0, <1>2, <1>5, <2>1 DEF Notices
<1>15. Notices'
  BY <1>0, <1>2, <1>4, <1>10, <1>11, <1>12, <1>13, <1>14 DEF Notices
<1>16. QED
  BY <1>4, <1>6, <1>7, <1>15 DEF JobsInv

LEMMA StepMarkProcessed ==
  ASSUME JobsInv, NEW h \in Handlers, MarkProcessed(h)
  PROVE  JobsInv'
<1>0. JobRows /\ JobRequests /\ Delivery /\ Notices /\ begun \in Nat
  BY JobFacts
<1>1. PICK batch : batch = local[h].batch
  OBVIOUS
<1>2. /\ pc[h] = "noticesDone" /\ Answer(h)
      /\ notices' = {[n EXCEPT !.done = @ \/ n.message \in batch] : n \in notices}
      /\ UNCHANGED <<account, days, period, marked, queue, sent, notified, undelivered, doubt>>
  BY <1>1 DEF MarkProcessed
<1>3. JobRequests' /\ Elsewhere(h) /\ pc'[h] = "idle" /\ begun' = begun
  BY <1>0, <1>2, AnswerJob
<1>4. \A m \in batch : notified[m] > 0
  BY <1>0, <1>1, <1>2 DEF Notices
<1>5. ASSUME NEW r \in notices'
      PROVE  /\ r \in Notice
             /\ \E n \in notices : r.message = n.message /\ (r.done <=> n.done \/ n.message \in batch)
  <2>1. PICK n \in notices : r = [n EXCEPT !.done = @ \/ n.message \in batch]
    BY <1>2, <1>5
  <2>2. n \in Notice
    BY <1>0 DEF JobRows
  <2>3. PICK b \in BOOLEAN : b = (n.done \/ n.message \in batch)
    OBVIOUS
  <2>4. r = [n EXCEPT !.done = b]
    BY <2>1, <2>3
  <2>5. r \in Notice /\ r.message = n.message /\ r.done = b
    BY <2>2, <2>4 DEF Notice
  <2>6. QED
    BY <2>3, <2>5
<1>6. JobRows'
  BY <1>0, <1>2, <1>5 DEF JobRows
<1>7. Delivery'
  BY <1>0, <1>2, <1>3, FrameDelivery
<1>8. \A m : /\ h \in Notifying(m) <=> m \in batch
             /\ Notifying(m)' = Notifying(m) \ {h}
             /\ \A g \in Notifying(m)' : pc'[g] = pc[g]
  BY <1>1, <1>2, <1>3, OthersStay DEF Notifying
<1>9. \A m \in Pending' : m \in Pending /\ m \notin batch
  <2>1. SUFFICES ASSUME NEW r \in notices', ~r.done PROVE r.message \in Pending /\ r.message \notin batch
    BY DEF Pending
  <2>2. PICK n \in notices : r.message = n.message /\ (r.done <=> n.done \/ n.message \in batch)
    BY <1>5
  <2>3. QED
    BY <2>1, <2>2 DEF Pending
<1>10. ASSUME NEW m, Unseen(m)
       PROVE  Unseen(m)'
  <2>1. Notifying(m)' = {} /\ notified'[m] = 0
    BY <1>2, <1>8, <1>10 DEF Unseen
  <2>2. \A r \in notices' : r.message # m
    BY <1>5, <1>10 DEF Unseen
  <2>3. QED
    BY <2>1, <2>2 DEF Unseen
<1>11. ASSUME NEW m, Alone(m)
       PROVE  Alone(m)'
  <2>1. notified'[m] > 0 /\ m \in Pending' => \E g \in Notifying(m)' : pc'[g] = "noticesDone"
    <3>1. SUFFICES ASSUME notified[m] > 0, m \in Pending' PROVE \E g \in Notifying(m)' : pc'[g] = "noticesDone"
      BY <1>2
    <3>2. m \in Pending /\ h \notin Notifying(m)
      BY <1>8, <1>9, <3>1
    <3>3. PICK g \in Notifying(m) : pc[g] = "noticesDone"
      BY <1>11, <3>1, <3>2 DEF Alone
    <3>4. QED
      BY <1>8, <3>2, <3>3
  <2>2. QED
    BY <1>2, <1>8, <1>11, <2>1 DEF Alone
<1>12. ASSUME NEW g \in Handlers
       PROVE  /\ pc'[g] = "queueNotice" => g # h /\ pc[g] = "queueNotice" /\ local'[g] = local[g]
              /\ pc'[g] = "noticesDone" => g # h /\ pc[g] = "noticesDone" /\ local'[g] = local[g]
  BY <1>3 DEF Elsewhere
<1>13. \A r \in notices' : r.done => notified'[r.message] > 0
  BY <1>0, <1>2, <1>4, <1>5 DEF Notices
<1>14. Notices'
  BY <1>0, <1>2, <1>3, <1>10, <1>11, <1>12, <1>13 DEF Notices
<1>15. QED
  BY <1>3, <1>6, <1>7, <1>14 DEF JobsInv

LEMMA StopNotices ==
  ASSUME JobsInv, NEW h \in Handlers, JobsFail(h), Elsewhere(h), pc'[h] = "idle", begun' = begun
  PROVE  Notices'
<1>0. JobRows /\ JobRequests /\ Notices /\ begun \in Nat
  BY JobFacts
<1>1. /\ UNCHANGED <<notices, notified>>
      /\ doubt' = CASE pc[h] = "mark" -> doubt \cup {local[h].note}
                    [] pc[h] = "noticesDone" -> doubt \cup {Note(m) : m \in local[h].batch}
                    [] OTHER -> doubt
  BY DEF JobsFail
<1>2. doubt \subseteq doubt'
  BY <1>1
<1>3. \A m : /\ Notifying(m)' = Notifying(m) \ {h}
             /\ \A g \in Notifying(m)' : pc'[g] = pc[g]
  BY OthersStay DEF Notifying
<1>4. Pending' = Pending
  BY <1>1 DEF Pending
<1>5. \A m : Unseen(m) => Unseen(m)'
  BY <1>1, <1>3 DEF Unseen
<1>6. \A m : pc[h] = "noticesDone" /\ h \in Notifying(m) => Note(m) \in doubt'
  BY <1>1 DEF Notifying
<1>7. ASSUME NEW m \in 1..MaxRequests
      PROVE  Note(m) \in doubt' \/ Alone(m)'
  <2>1. SUFFICES ASSUME Note(m) \notin doubt', Alone(m) PROVE Alone(m)'
    BY <1>0, <1>2 DEF Notices
  <2>2. \A g \in Notifying(m) : pc[g] = "noticesDone" => g \in Notifying(m)'
    BY <1>3, <1>6, <2>1
  <2>3. QED
    BY <1>1, <1>3, <1>4, <2>1, <2>2 DEF Alone
<1>8. ASSUME NEW g \in Handlers
      PROVE  /\ pc'[g] = "queueNotice" => g # h /\ pc[g] = "queueNotice" /\ local'[g] = local[g]
             /\ pc'[g] = "noticesDone" => g # h /\ pc[g] = "noticesDone" /\ local'[g] = local[g]
  BY DEF Elsewhere
<1>9. QED
  BY <1>0, <1>1, <1>5, <1>7, <1>8 DEF Notices

LEMMA StepJobsFail ==
  ASSUME JobsInv, NEW h \in Handlers, JobsFail(h)
  PROVE  JobsInv'
<1>0. JobRows /\ JobRequests /\ Delivery /\ Notices /\ begun \in Nat
  BY JobFacts
<1>1. Answer(h) /\ UNCHANGED <<account, days, period, marked, queue, notices, sent, notified>>
  BY DEF JobsFail
<1>2. JobRequests' /\ Elsewhere(h) /\ pc'[h] = "idle" /\ begun' = begun
  BY <1>0, <1>1, AnswerJob
<1>3. JobRows'
  BY <1>0, <1>1 DEF JobRows
<1>4. Delivery' /\ Notices'
  BY <1>2, StopDelivery, StopNotices
<1>5. QED
  BY <1>2, <1>3, <1>4 DEF JobsInv

-----------------------------------------------------------------------------
LEMMA JobsStart ==
  ASSUME JobsInit, RequestsInit
  PROVE  JobsInv
<1>1. JobRows
  <2>1. queue \in Seq(Job)
    BY EmptySeq DEF JobsInit
  <2>2. QED
    BY <2>1 DEF JobsInit, JobRows, Periods
<1>2. InFlight = {} /\ IsFiniteSet(InFlight)
  BY FS_EmptySet DEF RequestsInit, InFlight
<1>3. JobRequests
  BY <1>2, RequestsAssumption DEF RequestsInit, JobRequests, JobCarry
<1>4. \A n : Reminding(n) = {} /\ Marking(n) = {} /\ WithWorker(n) = {} /\ OnList(n) = {} /\ Notifying(n) = {}
  BY DEF RequestsInit, JobsInit, Reminding, Marking, WithWorker, OnList, Notifying
<1>5. ASSUME NEW n \in Reminders
      PROVE  DeliveryOf(n)
  <2>1. sent[n] = 0 /\ ~Somewhere(n)
    BY <1>4 DEF JobsInit, Somewhere
  <2>2. Single(n)
    BY <1>4, <2>1 DEF Single, Once
  <2>3. n[1] # "tax" => marked[n[1]] # n[2]
    BY ReminderFacts DEF JobsInit
  <2>4. QED
    BY <1>4, <2>1, <2>2, <2>3 DEF DeliveryOf
<1>6. Delivery
  BY <1>5 DEF Delivery
<1>7. \A m \in 1..MaxRequests : Unseen(m) /\ Alone(m)
  BY <1>4 DEF JobsInit, Unseen, Alone
<1>8. Notices
  BY <1>7 DEF Notices, JobsInit, RequestsInit
<1>9. QED
  BY <1>1, <1>3, <1>6, <1>8 DEF JobsInv

LEMMA JobsStay ==
  ASSUME JobsInv, UNCHANGED <<jobsVars, handlerVars>>
  PROVE  JobsInv'
<1>0. JobRows /\ JobRequests /\ Delivery /\ Notices
  BY JobFacts
<1>1. UNCHANGED <<account, period, marked, queue, notices, sent, notified, undelivered, doubt, pc, local, begun>>
  BY DEF jobsVars, handlerVars
<1>2. JobRows' /\ JobRequests'
  BY <1>0, <1>1 DEF JobRows, JobRequests, InFlight
<1>3. \A n : /\ Reminding(n)' = Reminding(n) /\ Marking(n)' = Marking(n)
             /\ WithWorker(n)' = WithWorker(n) /\ OnList(n)' = OnList(n) /\ Notifying(n)' = Notifying(n)
  BY <1>1 DEF Reminding, Marking, WithWorker, OnList, Notifying
<1>4. \A n : (Somewhere(n)' <=> Somewhere(n)) /\ (Once(n) => Once(n)')
  BY <1>1, <1>3 DEF Somewhere, Once
<1>5. \A n : Single(n) => Single(n)'
  BY <1>1, <1>3, <1>4 DEF Single
<1>6. Delivery'
  BY <1>0, <1>1, <1>3, <1>4, <1>5 DEF Delivery, DeliveryOf
<1>7. Pending' = Pending
  BY <1>1 DEF Pending
<1>8. \A m : (Unseen(m)' <=> Unseen(m)) /\ (Alone(m) => Alone(m)')
  BY <1>1, <1>3, <1>7 DEF Unseen, Alone
<1>9. Notices'
  BY <1>0, <1>1, <1>8 DEF Notices
<1>10. QED
  BY <1>2, <1>6, <1>9 DEF JobsInv

LEMMA JobsStep ==
  ASSUME JobsInv, [JobsNext]_<<jobsVars, handlerVars>>
  PROVE  JobsInv'
<1>1. CASE UNCHANGED <<jobsVars, handlerVars>>
  BY <1>1, JobsStay
<1>2. CASE JobsNext
  <2>1. CASE Day \/ Renew
    BY <2>1, StepDay, StepRenew
  <2>2. ASSUME NEW h \in Handlers,
               \/ RunBillingReminders(h) \/ RunTaxReminders(h)
               \/ DeliverQueued(h) \/ PushUnheard(h) \/ DeliverDirect(h) \/ MarkReminder(h)
        PROVE  JobsInv'
    BY <2>2, StepRunBillingReminders, StepRunTaxReminders, StepDeliverQueued, StepPushUnheard,
       StepDeliverDirect, StepMarkReminder
  <2>3. ASSUME NEW h \in Handlers,
               \/ RunEmailJobs(h) \/ Dequeue(h) \/ DequeueUnheard(h) \/ BatchEnd(h)
               \/ SendJob(h) \/ SendFails(h) \/ SendUnheard(h) \/ Requeue(h) \/ RequeueFails(h)
        PROVE  JobsInv'
    BY <2>3, StepRunEmailJobs, StepDequeue, StepDequeueUnheard, StepBatchEnd, StepSendJob,
       StepSendFails, StepSendUnheard, StepRequeue, StepRequeueFails
  <2>4. ASSUME NEW h \in Handlers,
               \/ MessageSend(h) \/ CreateNotificationQueue(h)
               \/ ProcessNotifications(h) \/ CreateNotifications(h) \/ MarkProcessed(h)
               \/ JobsFail(h)
        PROVE  JobsInv'
    BY <2>4, StepMessageSend, StepCreateNotificationQueue, StepProcessNotifications,
       StepCreateNotifications, StepMarkProcessed, StepJobsFail
  <2>5. QED
    BY <1>2, <2>1, <2>2, <2>3, <2>4 DEF JobsNext
<1>3. QED
  BY <1>1, <1>2

\* The inductive invariant: what each request of the jobs carries, which mail is in
\* the queue or in whose hands, and what may have been marked, mailed or lost by then.
THEOREM JobsInvariant == JobsSpec => []JobsInv
<1>1. JobsInit /\ RequestsInit => JobsInv
  BY JobsStart
<1>2. JobsInv /\ [JobsNext]_<<jobsVars, handlerVars>> => JobsInv'
  BY JobsStep
<1>3. QED
  BY <1>1, <1>2, PTL DEF JobsSpec

\* A set without two members has at most one.
LEMMA AtMostOne ==
  ASSUME NEW S, IsFiniteSet(S), \A x, y \in S : x = y
  PROVE  Cardinality(S) \in {0, 1} /\ (Cardinality(S) = 0 <=> S = {})
<1>1. CASE S = {}
  BY <1>1, FS_EmptySet
<1>2. CASE S # {}
  <2>1. PICK x : S = {x}
    BY <1>2
  <2>2. QED
    BY <2>1, FS_Singleton
<1>3. QED
  BY <1>1, <1>2

LEMMA AccountedFor ==
  ASSUME JobsInv
  PROVE  NoticesAccounted
<1>0. JobRows /\ JobRequests /\ Delivery /\ Notices
  BY JobFacts
<1>1. ASSUME NEW n \in Reminders
      PROVE  /\ Queued(n) = Cardinality(OnList(n)) /\ IsFiniteSet(OnList(n))
             /\ InHand(n) = Cardinality(WithWorker(n)) /\ IsFiniteSet(WithWorker(n))
             /\ Queued(n) \in Nat /\ InHand(n) \in Nat /\ sent[n] \in Nat
  <2>1. IsFiniteSet(OnList(n))
    <3>1. Len(queue) \in Int /\ OnList(n) \subseteq 1..Len(queue)
      BY <1>0, QueueFacts
    <3>2. IsFiniteSet(1..Len(queue))
      BY <3>1, FS_Interval
    <3>3. QED
      BY <3>1, <3>2, FS_Subset
  <2>2. IsFiniteSet(WithWorker(n))
    <3>1. WithWorker(n) \subseteq InFlight
      BY DEF WithWorker, InFlight
    <3>2. QED
      BY <1>0, <3>1, FS_Subset DEF JobRequests
  <2>3. Cardinality(OnList(n)) \in Nat /\ Cardinality(WithWorker(n)) \in Nat
    BY <2>1, <2>2, FS_CardinalityType
  <2>4. Queued(n) = Cardinality(OnList(n)) /\ InHand(n) = Cardinality(WithWorker(n))
    BY DEF Queued, InHand, OnList, WithWorker, Holding
  <2>5. QED
    BY <1>1, <2>1, <2>2, <2>3, <2>4, JobFacts
<1>2. ASSUME NEW n \in Reminders
      PROVE  Queued(n) + InHand(n) + sent[n] <= 1 \/ n \in doubt
  <2>1. SUFFICES ASSUME Once(n) PROVE Queued(n) + InHand(n) + sent[n] <= 1
    BY <1>0, <1>2 DEF Delivery, DeliveryOf, Single
  <2>2. Queued(n) \in {0, 1} /\ (Queued(n) = 0 <=> OnList(n) = {})
    BY <1>1, <2>1, AtMostOne DEF Once
  <2>3. InHand(n) \in {0, 1} /\ (InHand(n) = 0 <=> WithWorker(n) = {})
    BY <1>1, <2>1, AtMostOne DEF Once
  <2>4. QED
    BY <1>1, <2>1, <2>2, <2>3 DEF Once
<1>3. ASSUME NEW k \in Kinds, NEW n, n = <<k, marked[k]>>, marked[k] # 0
      PROVE  Queued(n) + InHand(n) + sent[n] > 0 \/ n \in undelivered
  <2>1. n \in Reminders /\ n[1] # "tax" /\ marked[n[1]] = n[2]
    BY <1>0, <1>3, KindFacts DEF JobRows, Reminders, Periods
  <2>2. Somewhere(n) \/ n \in undelivered
    BY <1>0, <2>1 DEF Delivery, DeliveryOf
  <2>3. OnList(n) # {} => Queued(n) # 0
    BY <1>1, <2>1, FS_EmptySet
  <2>4. WithWorker(n) # {} => InHand(n) # 0
    BY <1>1, <2>1, FS_EmptySet
  <2>5. QED
    BY <1>1, <2>1, <2>2, <2>3, <2>4 DEF Somewhere
<1>4. \A m \in DOMAIN notified : notified[m] <= 1 \/ Note(m) \in doubt
  BY <1>0 DEF JobRows, Notices, Alone
<1>5. \A n \in notices : n.done => notified[n.message] > 0
  BY <1>0 DEF Notices
<1>6. QED
  BY <1>2, <1>3, <1>4, <1>5 DEF NoticesAccounted

\* However the queue, its retries, the nightly scans and the notification worker
\* interleave, fail or stop: a reminder is in one place and mailed once, a marked one
\* is on its way, mailed or given up, and a message is notified once, before its row is
\* marked; but for the runs that overlapped and those that did not hear of their own
\* mail (deliverEmail, runEmailJobs, processNotifications).
THEOREM NoticesAreAccounted == JobsSpec => []NoticesAccounted
<1>1. JobsInv => NoticesAccounted
  BY AccountedFor
<1>2. QED
  BY <1>1, JobsInvariant, PTL

-----------------------------------------------------------------------------
(* HashPool: its inductive invariant.                                      *)

\* Handing out by the places of a queue, the last of them last.
IsRun(g, s, q, refused) == g = [p \in SUBSET DOMAIN q |->
   IF p = {} THEN s ELSE HandOut(g[p \ {Max(p)}], q[Max(p)], refused)]
RunOf(s, q, refused) == CHOOSE g : IsRun(g, s, q, refused)

LEMMA MaxIs ==
  ASSUME NEW n \in Nat, NEW S, S \subseteq 1..n, S # {}
  PROVE  Max(S) \in S /\ \A x \in S : x <= Max(S)
<1> DEFINE T == {n - x : x \in S}
<1>0. \A x \in S : x \in 1..n /\ n - x \in Nat
  OBVIOUS
<1>1a. T # {}
  OBVIOUS
<1>1. T \subseteq Nat
  BY <1>0
<1>2. PICK m \in T : \A y \in T : m <= y
  <2> HIDE DEF T
  <2>1. QED
    BY <1>1, <1>1a, MinIs
<1>3. PICK x \in S : m = n - x
  BY <1>2
<1>4. \A y \in S : x >= y
  <2>1. TAKE y \in S
  <2>2. n - y \in T
    OBVIOUS
  <2>3. QED
    BY <1>2, <1>3, <2>2
<1>5. \A y \in S : y \in Int
  OBVIOUS
<1>6. QED
  BY <1>4, <1>5 DEF Max

LEMMA LastPlace ==
  ASSUME NEW q, NEW n \in Nat, DOMAIN q = 1..n, NEW p \in SUBSET DOMAIN q, p # {}
  PROVE  Max(p) \in p
<1>1. p \subseteq 1..n
  OBVIOUS
<1>2. QED
  BY <1>1, MaxIs

LEMMA RunUnique ==
  ASSUME NEW n \in Nat, NEW q, DOMAIN q = 1..n, NEW s, NEW refused, NEW g, NEW h,
         IsRun(g, s, q, refused), IsRun(h, s, q, refused)
  PROVE  g = h
<1> DEFINE Bad == {p \in SUBSET DOMAIN q : g[p] # h[p]}
<1>1. SUFFICES Bad = {}
  BY DEF IsRun
<1>2. SUFFICES ASSUME Bad # {} PROVE FALSE
  OBVIOUS
<1>3. Bad \subseteq SUBSET DOMAIN q /\ IsFiniteSet(DOMAIN q)
  BY FS_Interval
<1>4. PICK p \in Bad : \A y \in Bad : y \subseteq p => y = p
  <2> HIDE DEF Bad
  <2>1. QED
    BY <1>2, <1>3, Smaller
<1>5. CASE p = {}
  BY <1>4, <1>5 DEF IsRun
<1>6. CASE p # {}
  <2>1. PICK c \in p : c = Max(p)
    BY <1>4, <1>6, LastPlace
  <2>2. g[p \ {c}] = h[p \ {c}]
    BY <1>4, <2>1
  <2>3. g[p] = HandOut(g[p \ {c}], q[c], refused) /\ h[p] = HandOut(h[p \ {c}], q[c], refused)
    BY <1>4, <1>6, <2>1 DEF IsRun
  <2>4. QED
    BY <1>4, <2>2, <2>3
<1>7. QED
  BY <1>5, <1>6

\* A run on the first places of a queue is a part of a run on all of them.
First(q, k) == [i \in 1..k |-> q[i]]

LEMMA RunRestricted ==
  ASSUME NEW n \in Nat, NEW q, DOMAIN q = 1..n, NEW s, NEW refused, NEW k \in 0..n, NEW g,
         IsRun(g, s, q, refused)
  PROVE  IsRun([p \in SUBSET (1..k) |-> g[p]], s, First(q, k), refused)
<1> DEFINE h == [p \in SUBSET (1..k) |-> g[p]]
           f == First(q, k)
<1>1. DOMAIN f = 1..k /\ 1..k \subseteq 1..n
  BY DEF First
<1>2. ASSUME NEW p \in SUBSET (1..k)
      PROVE  h[p] = IF p = {} THEN s ELSE HandOut(h[p \ {Max(p)}], f[Max(p)], refused)
  <2>1. p \in SUBSET DOMAIN q
    BY <1>1
  <2>2. CASE p = {}
    BY <2>1, <2>2 DEF IsRun
  <2>3. CASE p # {}
    <3>1. PICK c \in p : c = Max(p)
      BY <2>1, <2>3, LastPlace
    <3>2. g[p] = HandOut(g[p \ {c}], q[c], refused)
      BY <2>1, <2>3, <3>1 DEF IsRun
    <3>3. h[p] = g[p] /\ h[p \ {c}] = g[p \ {c}] /\ f[c] = q[c]
      BY <3>1 DEF First
    <3>4. QED
      BY <2>3, <3>1, <3>2, <3>3
  <2>4. QED
    BY <2>2, <2>3
<1>3. h = [p \in SUBSET DOMAIN f |-> h[p]]
  BY <1>1
<1>4. QED
  <2> HIDE DEF h, f
  <2>1. IsRun(h, s, f, refused)
    BY <1>1, <1>2, <1>3 DEF IsRun
  <2>2. QED
    BY <2>1 DEF h, f

\* One more task is handed out after the others.
LEMMA RunExtends ==
  ASSUME NEW n \in Nat \ {0}, NEW q, DOMAIN q = 1..n, NEW s, NEW refused, NEW g,
         IsRun(g, s, First(q, n - 1), refused)
  PROVE  \E h : IsRun(h, s, q, refused)
<1> DEFINE h == [p \in SUBSET (1..n) |->
                   IF p \subseteq 1..(n - 1) THEN g[p] ELSE HandOut(g[p \ {n}], q[n], refused)]
           f == First(q, n - 1)
<1>1. DOMAIN f = 1..(n - 1) /\ DOMAIN q = 1..n /\ n - 1 \in Nat /\ 1..(n - 1) \subseteq 1..n
  BY DEF First
<1>1a. \A p \in SUBSET (1..n) : p \ {n} \in SUBSET (1..(n - 1))
  OBVIOUS
<1>2. ASSUME NEW p \in SUBSET (1..n)
      PROVE  h[p] = IF p = {} THEN s ELSE HandOut(h[p \ {Max(p)}], q[Max(p)], refused)
  <2>1. CASE p = {}
    <3>1. h[p] = g[p] /\ p \in SUBSET DOMAIN f
      BY <1>1, <2>1
    <3>2. QED
      BY <2>1, <3>1 DEF IsRun
  <2>2. CASE p # {} /\ p \subseteq 1..(n - 1)
    <3>1. PICK c \in p : c = Max(p)
      BY <1>1, <2>2, LastPlace
    <3>2. g[p] = HandOut(g[p \ {c}], f[c], refused)
      BY <1>1, <2>2, <3>1 DEF IsRun
    <3>3. h[p] = g[p] /\ h[p \ {c}] = g[p \ {c}] /\ f[c] = q[c]
      BY <2>2, <3>1 DEF First
    <3>4. QED
      BY <2>2, <3>1, <3>2, <3>3
  <2>3. CASE ~(p \subseteq 1..(n - 1))
    <3>1. n \in p /\ p \subseteq 1..n
      BY <2>3
    <3>2. Max(p) \in p /\ \A x \in p : x <= Max(p)
      BY <3>1, MaxIs
    <3>2a. Max(p) \in 1..n /\ n <= Max(p)
      BY <3>1, <3>2
    <3>3. Max(p) = n
      BY <3>2a
    <3>4. h[p] = HandOut(g[p \ {n}], q[n], refused) /\ h[p \ {n}] = g[p \ {n}]
      BY <1>1a, <2>3
    <3>5. QED
      BY <3>1, <3>3, <3>4
  <2>4. QED
    BY <2>1, <2>2, <2>3
<1>3. h = [p \in SUBSET DOMAIN q |-> h[p]]
  BY <1>1
<1>4. QED
  <2> HIDE DEF h
  <2>1. IsRun(h, s, q, refused)
    BY <1>1, <1>2, <1>3 DEF IsRun
  <2>2. QED
    BY <2>1

LEMMA RunExists ==
  ASSUME NEW n \in Nat, NEW q, DOMAIN q = 1..n, NEW s, NEW refused
  PROVE  IsRun(RunOf(s, q, refused), s, q, refused)
<1> DEFINE Bad == {k \in 0..n : ~ \E g : IsRun(g, s, First(q, k), refused)}
<1>1. SUFFICES Bad = {}
  <2>1. n \notin Bad /\ n \in 0..n
    BY <1>1
  <2>2. \E g : IsRun(g, s, First(q, n), refused)
    BY <2>1
  <2>3. \A i \in 1..n : First(q, n)[i] = q[i]
    BY DEF First
  <2>4. \A g : IsRun(g, s, First(q, n), refused) => IsRun(g, s, q, refused)
    <3>1. ASSUME NEW g, IsRun(g, s, First(q, n), refused)
          PROVE  IsRun(g, s, q, refused)
      <4>1. DOMAIN First(q, n) = 1..n
        BY DEF First
      <4>2. \A p \in SUBSET (1..n) : p # {} => Max(p) \in 1..n
        BY LastPlace
      <4>3. ASSUME NEW p \in SUBSET (1..n)
            PROVE  g[p] = IF p = {} THEN s ELSE HandOut(g[p \ {Max(p)}], q[Max(p)], refused)
        <5>1. g[p] = IF p = {} THEN s ELSE HandOut(g[p \ {Max(p)}], First(q, n)[Max(p)], refused)
          BY <3>1, <4>1 DEF IsRun
        <5>2. p # {} => First(q, n)[Max(p)] = q[Max(p)]
          BY <2>3, <4>2
        <5>3. QED
          BY <5>1, <5>2
      <4>4. g = [p \in SUBSET DOMAIN q |-> g[p]]
        BY <3>1, <4>1 DEF IsRun
      <4>5. QED
        BY <4>3, <4>4 DEF IsRun
    <3>2. QED
      BY <3>1
  <2>5. QED
    BY <2>2, <2>4 DEF RunOf
<1>2. SUFFICES ASSUME Bad # {} PROVE FALSE
  OBVIOUS
<1>3. PICK k \in Bad : \A j \in Bad : k <= j
  <2>1. Bad \subseteq Nat
    OBVIOUS
  <2>2. QED
    BY <1>2, <2>1, MinIs
<1>4. CASE k = 0
  <2>1. DOMAIN First(q, 0) = {}
    BY DEF First
  <2>2. IsRun([p \in SUBSET {} |-> s], s, First(q, 0), refused)
    BY <2>1 DEF IsRun
  <2>3. QED
    BY <1>3, <1>4, <2>2
<1>5. CASE k # 0
  <2>1. k \in Nat \ {0} /\ k - 1 \in 0..n /\ k - 1 \notin Bad
    BY <1>3, <1>5
  <2>2. PICK g : IsRun(g, s, First(q, k - 1), refused)
    BY <2>1
  <2>3. First(First(q, k), k - 1) = First(q, k - 1) /\ DOMAIN First(q, k) = 1..k
    BY <2>1 DEF First
  <2>4. \E h : IsRun(h, s, First(q, k), refused)
    BY <2>1, <2>2, <2>3, RunExtends
  <2>5. QED
    BY <1>3, <2>4
<1>6. QED
  BY <1>4, <1>5

\* The state after the first k tasks of the queue.
After(s, q, k, refused) == RunOf(s, q, refused)[1..k]

LEMMA HandOutFirst ==
  ASSUME NEW n \in Nat, NEW q, DOMAIN q = 1..n, NEW s, NEW refused
  PROVE  After(s, q, 0, refused) = s
<1>1. IsRun(RunOf(s, q, refused), s, q, refused)
  BY RunExists
<1>2. 1..0 = {}
  OBVIOUS
<1>3. QED
  BY <1>1, <1>2 DEF IsRun, After

LEMMA HandOutNext ==
  ASSUME NEW n \in Nat, NEW q, DOMAIN q = 1..n, NEW s, NEW refused, NEW k \in 1..n
  PROVE  After(s, q, k, refused) = HandOut(After(s, q, k - 1, refused), q[k], refused)
<1>1. IsRun(RunOf(s, q, refused), s, q, refused)
  BY RunExists
<1>2. 1..k \in SUBSET (1..n) /\ k \in 1..k
  OBVIOUS
<1>3. Max(1..k) \in 1..k /\ \A x \in 1..k : x <= Max(1..k)
  BY <1>2, MaxIs
<1>4. Max(1..k) = k
  BY <1>2, <1>3
<1>5. (1..k) \ {k} = 1..(k - 1)
  OBVIOUS
<1>6. RunOf(s, q, refused)[1..k] = HandOut(RunOf(s, q, refused)[(1..k) \ {Max(1..k)}], q[Max(1..k)], refused)
  BY <1>1, <1>2 DEF IsRun
<1>7. QED
  BY <1>4, <1>5, <1>6 DEF After

Outcomes == {"none", "waiting", "refused", "hashed", "failed", "stale", "twice"}
WorkerState == [idle : BOOLEAN, current : Tasks \cup {None}, dead : BOOLEAN]
Answers == [kind : {"message"}, id : Tasks, ok : BOOLEAN]
ExitEvent == [kind |-> "exit"]
ErrorEvent == [kind |-> "error"]
HasherState ==
  [runs : BOOLEAN, inbox : SUBSET Tasks, events : SUBSET (Answers \cup {ExitEvent, ErrorEvent})]

PoolStates(n) ==
  [workers : {<<>>} \cup [1..PoolSize -> 1..n], pending : Seq(Tasks),
   worker : [1..n -> WorkerState], hasher : [1..n -> HasherState], promise : [Tasks -> Outcomes]]

\* What worker k is at fits what its thread x has to do or has sent.
Messages(x) == {m \in x.events : m.kind = "message"}
Fits(k, x) ==
  /\ k.idle <=> k.current = None
  /\ k.dead => k.current = None
  /\ ~x.runs => k.dead \/ ExitEvent \in x.events
  /\ ~k.dead =>
       /\ x.inbox \subseteq {k.current} /\ \A m \in Messages(x) : m.id = k.current
       /\ \A m, n \in Messages(x) : m = n
       /\ x.inbox # {} => Messages(x) = {}
       /\ k.current # None /\ x.runs => x.inbox # {} \/ Messages(x) # {}

PlacesOf(t, s) == {i \in DOMAIN s.pending : s.pending[i] = t}
HoldersOf(t, s) == {w \in DOMAIN s.worker : s.worker[w].current = t}

\* Task t waits in one place: in the queue, with a worker, or among those the loop
\* has yet to hand out.
Placed(t, s, more) ==
  /\ s.promise[t] = "waiting" <=> PlacesOf(t, s) # {} \/ HoldersOf(t, s) # {} \/ t \in more
  /\ \A i, j \in PlacesOf(t, s) : i = j
  /\ \A v, w \in HoldersOf(t, s) : v = w
  /\ PlacesOf(t, s) # {} => HoldersOf(t, s) = {}
  /\ t \in more => PlacesOf(t, s) = {} /\ HoldersOf(t, s) = {}
  /\ s.promise[t] \notin {"stale", "twice"}

PoolCore(s, more, many) ==
  /\ \E n \in Nat : s \in PoolStates(n) /\ (s.workers = <<>> => n = 0)
  /\ \A w \in DOMAIN s.worker : Fits(s.worker[w], s.hasher[w])
  /\ \A i \in DOMAIN s.workers : ~s.worker[s.workers[i]].dead
  /\ \A t \in Tasks : Placed(t, s, more) /\ (t > many => s.promise[t] = "none")

NoneIdle(s) == s.pending # <<>> => IdleSlots(s) = {}

PoolInv == PoolCore(Here, {}, begun) /\ NoneIdle(Here) /\ begun \in 0..MaxRequests

LEMMA PlacedElsewhere ==
  ASSUME NEW u, NEW a, NEW b, NEW more, NEW rest, Placed(u, a, more),
         a.promise[u] = b.promise[u], PlacesOf(u, a) = PlacesOf(u, b), HoldersOf(u, a) = HoldersOf(u, b),
         u \in more <=> u \in rest
  PROVE  Placed(u, b, rest)
BY DEF Placed

\* The tasks a queue holds, with one more at its end.
LEMMA PlacesAfterAppend ==
  ASSUME NEW a, NEW b, a.pending \in Seq(Tasks), NEW t \in Tasks, b.pending = Append(a.pending, t)
  PROVE  /\ \A u \in Tasks \ {t} : PlacesOf(u, b) = PlacesOf(u, a)
         /\ PlacesOf(t, b) = PlacesOf(t, a) \cup {Len(a.pending) + 1}
         /\ b.pending \in Seq(Tasks) /\ b.pending # <<>>
<1> DEFINE q == a.pending
           r == b.pending
<1>1. /\ r \in Seq(Tasks) /\ r # <<>> /\ Len(r) = Len(q) + 1 /\ Len(q) \in Nat
      /\ DOMAIN q = 1..Len(q) /\ DOMAIN r = 1..(Len(q) + 1)
      /\ \A i \in 1..Len(q) : r[i] = q[i]
      /\ r[Len(q) + 1] = t
  BY AppendProperties, LenProperties
<1>2. \A u \in Tasks \ {t} : PlacesOf(u, b) = PlacesOf(u, a)
  <2> HIDE DEF q, r
  <2>1. \A u : {i \in DOMAIN r : r[i] = u} = {i \in DOMAIN q : q[i] = u} \cup {i \in {Len(q) + 1} : t = u}
    BY <1>1
  <2>2. QED
    BY <2>1 DEF PlacesOf, q, r
<1>3. PlacesOf(t, b) = PlacesOf(t, a) \cup {Len(a.pending) + 1}
  <2> HIDE DEF q, r
  <2>1. {i \in DOMAIN r : r[i] = t} = {i \in DOMAIN q : q[i] = t} \cup {Len(q) + 1}
    BY <1>1
  <2>2. QED
    BY <2>1 DEF PlacesOf, q, r
<1>4. QED
  BY <1>1, <1>2, <1>3

\* What a worker holds when its entry alone changes.
LEMMA HoldersAfter ==
  ASSUME NEW a, NEW b, NEW w \in DOMAIN a.worker, NEW k, b.worker = [a.worker EXCEPT ![w] = k], NEW u
  PROVE  HoldersOf(u, b) = IF k.current = u THEN HoldersOf(u, a) \cup {w} ELSE HoldersOf(u, a) \ {w}
BY DEF HoldersOf

LEMMA HandOutKeeps ==
  ASSUME NEW a, NEW more \in SUBSET Tasks, NEW many, PoolCore(a, more, many), NoneIdle(a),
         NEW t \in more, NEW refused
  PROVE  PoolCore(HandOut(a, t, refused), more \ {t}, many) /\ NoneIdle(HandOut(a, t, refused))
<1> DEFINE b == HandOut(a, t, refused)
           rest == more \ {t}
<1>1. PICK n \in Nat : a \in PoolStates(n) /\ (a.workers = <<>> => n = 0)
  BY DEF PoolCore
<1>2. /\ a.workers \in {<<>>} \cup [1..PoolSize -> 1..n] /\ a.pending \in Seq(Tasks)
      /\ a.worker \in [1..n -> WorkerState] /\ a.hasher \in [1..n -> HasherState]
      /\ a.promise \in [Tasks -> Outcomes]
  BY <1>1 DEF PoolStates
<1>2a. a = [workers |-> a.workers, pending |-> a.pending, worker |-> a.worker,
              hasher |-> a.hasher, promise |-> a.promise]
  BY <1>1 DEF PoolStates
<1>3. /\ \A w \in 1..n : Fits(a.worker[w], a.hasher[w])
      /\ \A i \in DOMAIN a.workers : ~a.worker[a.workers[i]].dead
      /\ \A u \in Tasks : Placed(u, a, more) /\ (u > many => a.promise[u] = "none")
  BY <1>2 DEF PoolCore
<1>4. t \in Tasks /\ a.promise[t] = "waiting" /\ PlacesOf(t, a) = {} /\ HoldersOf(t, a) = {}
  BY <1>3 DEF Placed
<1>5. CASE IdleSlots(a) = {}
  <2>1. b = [a EXCEPT !.pending = Append(a.pending, t)]
    BY <1>5 DEF HandOut
  <2>2. /\ b.pending = Append(a.pending, t) /\ b.workers = a.workers /\ b.worker = a.worker
        /\ b.hasher = a.hasher /\ b.promise = a.promise
    BY <1>2, <1>2a, <2>1
  <2>3. /\ \A u \in Tasks \ {t} : PlacesOf(u, b) = PlacesOf(u, a)
        /\ PlacesOf(t, b) = PlacesOf(t, a) \cup {Len(a.pending) + 1}
        /\ b.pending \in Seq(Tasks) /\ b.pending # <<>>
    BY <1>2, <1>4, <2>2, PlacesAfterAppend
  <2>4. b \in PoolStates(n)
    BY <1>2, <1>2a, <2>1, <2>2, <2>3 DEF PoolStates
  <2>5. IdleSlots(b) = {}
    BY <1>5, <2>2 DEF IdleSlots
  <2>6. \A u : HoldersOf(u, b) = HoldersOf(u, a)
    BY <2>2 DEF HoldersOf
  <2>7. ASSUME NEW u \in Tasks
        PROVE  Placed(u, b, rest)
    <3>1. CASE u = t
      <4>1. PlacesOf(t, b) = {Len(a.pending) + 1} /\ HoldersOf(t, b) = {} /\ b.promise[t] = "waiting" /\ t \notin rest
        BY <1>4, <2>2, <2>3, <2>6
      <4>2. QED
        BY <3>1, <4>1 DEF Placed
    <3>2. CASE u # t
      BY <1>3, <2>2, <2>3, <2>6, <3>2, PlacedElsewhere
    <3>3. QED
      BY <3>1, <3>2
  <2> HIDE DEF b, rest
  <2>8. PoolCore(b, rest, many)
    BY <1>1, <1>2, <1>3, <2>2, <2>4, <2>7 DEF PoolCore
  <2>9. QED
    BY <2>5, <2>8 DEF NoneIdle, b, rest
<1>6. CASE IdleSlots(a) # {} /\ t \in refused
  <2>1. b = [a EXCEPT !.promise = Settled(a.promise, t, "refused")]
    BY <1>6 DEF HandOut
  <2>2. /\ b.pending = a.pending /\ b.workers = a.workers /\ b.worker = a.worker
        /\ b.hasher = a.hasher /\ b.promise = [a.promise EXCEPT ![t] = "refused"]
    BY <1>2, <1>2a, <1>4, <2>1 DEF Settled
  <2>3. b.promise \in [Tasks -> Outcomes]
    BY <1>2, <2>2 DEF Outcomes
  <2>4. b \in PoolStates(n)
    BY <1>2, <1>2a, <2>1, <2>2, <2>3 DEF PoolStates
  <2>5. \A u : HoldersOf(u, b) = HoldersOf(u, a) /\ PlacesOf(u, b) = PlacesOf(u, a)
    BY <2>2 DEF HoldersOf, PlacesOf
  <2>7. ASSUME NEW u \in Tasks
        PROVE  Placed(u, b, rest) /\ (u > many => b.promise[u] = "none")
    <3>1. CASE u = t
      <4>1. PlacesOf(t, b) = {} /\ HoldersOf(t, b) = {} /\ b.promise[t] = "refused" /\ t \notin rest
        BY <1>2, <1>4, <2>2, <2>5
      <4>2. ~(u > many)
        BY <1>3, <1>4, <3>1
      <4>3. QED
        BY <3>1, <4>1, <4>2 DEF Placed
    <3>2. CASE u # t
      <4>1. b.promise[u] = a.promise[u]
        BY <2>2, <3>2
      <4>2. QED
        BY <1>3, <2>5, <3>2, <4>1, PlacedElsewhere
    <3>3. QED
      BY <3>1, <3>2
  <2> HIDE DEF b, rest
  <2>8. PoolCore(b, rest, many)
    BY <1>1, <1>2, <1>3, <2>2, <2>4, <2>7 DEF PoolCore
  <2>9. NoneIdle(b)
    BY <2>2 DEF NoneIdle, IdleSlots
  <2>10. QED
    BY <2>8, <2>9 DEF b, rest
<1>7. CASE IdleSlots(a) # {} /\ t \notin refused
  <2>1. PICK w : w = a.workers[Min(IdleSlots(a))]
    OBVIOUS
  <2>2. IdleSlots(a) \subseteq Nat
    BY <1>2, HashPoolAssumption DEF IdleSlots
  <2>3. Min(IdleSlots(a)) \in IdleSlots(a)
    BY <1>7, <2>2, MinIs
  <2>4. w \in 1..n /\ a.worker[w].idle /\ ~a.worker[w].dead
    <3>1. /\ Min(IdleSlots(a)) \in DOMAIN a.workers
          /\ a.worker[a.workers[Min(IdleSlots(a))]].idle /\ ~a.worker[a.workers[Min(IdleSlots(a))]].dead
      <4> HIDE DEF b
      <4>1. QED
        BY <2>3 DEF IdleSlots
    <3>2. a.workers \in [1..PoolSize -> 1..n]
      BY <1>2, <3>1
    <3>3. QED
      BY <2>1, <3>1, <3>2
  <2>5. a.worker[w] \in WorkerState /\ a.hasher[w] \in HasherState /\ Fits(a.worker[w], a.hasher[w])
    BY <1>2, <1>3, <2>4
  <2>6. a.worker[w].current = None /\ None \notin Tasks
    BY <2>4, <2>5, HashPoolAssumption DEF Fits, Tasks
  <2>7. a.hasher[w].inbox = {} /\ Messages(a.hasher[w]) = {}
    <3>1. a.hasher[w].inbox \subseteq Tasks /\ \A m \in Messages(a.hasher[w]) : m.id \in Tasks
      <4>1. a.hasher[w].inbox \subseteq Tasks /\ a.hasher[w].events \subseteq (Answers \cup {ExitEvent, ErrorEvent})
        BY <2>5 DEF HasherState
      <4>2. \A m \in Answers : m.id \in Tasks
        BY DEF Answers
      <4>3. ExitEvent.kind # "message" /\ ErrorEvent.kind # "message"
        BY DEF ExitEvent, ErrorEvent
      <4>4. QED
        BY <4>1, <4>2, <4>3 DEF Messages
    <3>2. QED
      BY <2>4, <2>5, <2>6, <3>1 DEF Fits
  <2>8. b = [a EXCEPT !.worker[w].idle = FALSE, !.worker[w].current = t, !.hasher[w].inbox = @ \cup {t}]
    BY <1>7, <2>1 DEF HandOut
  <2> DEFINE k == [idle |-> FALSE, current |-> t, dead |-> FALSE]
             x == [runs |-> a.hasher[w].runs, inbox |-> {t}, events |-> a.hasher[w].events]
  <2>9. /\ b.pending = a.pending /\ b.workers = a.workers /\ b.promise = a.promise
        /\ b.worker = [a.worker EXCEPT ![w].idle = FALSE, ![w].current = t]
        /\ b.hasher = [a.hasher EXCEPT ![w].inbox = @ \cup {t}]
    BY <1>2a, <2>8
  <2>10. b.worker = [a.worker EXCEPT ![w] = k]
    <3>1. [[a.worker[w] EXCEPT !.idle = FALSE] EXCEPT !.current = t] = k
      <4>1. PICK row \in WorkerState : row = a.worker[w]
        BY <2>5
      <4>2. row.dead = FALSE /\ row = [idle |-> row.idle, current |-> row.current, dead |-> row.dead]
        BY <2>4, <4>1 DEF WorkerState
      <4>3. [[row EXCEPT !.idle = FALSE] EXCEPT !.current = t] = [idle |-> FALSE, current |-> t, dead |-> row.dead]
        <5>1. PICK i, c, d : row = [idle |-> i, current |-> c, dead |-> d]
          BY <4>2
        <5>2. PICK no \in BOOLEAN : no = FALSE
          OBVIOUS
        <5>2a. PICK r : r = [row EXCEPT !.idle = no]
          OBVIOUS
        <5>2b. r = [idle |-> no, current |-> c, dead |-> d]
          BY <5>1, <5>2a
        <5>2c. [r EXCEPT !.current = t] = [idle |-> no, current |-> t, dead |-> d]
          BY <5>2b
        <5>3. QED
          BY <5>1, <5>2, <5>2a, <5>2c
      <4>4. QED
        BY <4>1, <4>2, <4>3
    <3>2. QED
      BY <1>2, <2>4, <2>9, <3>1
  <2>11. b.hasher = [a.hasher EXCEPT ![w] = x]
    <3>1. [a.hasher[w] EXCEPT !.inbox = @ \cup {t}] = x
      BY <2>5, <2>7, SMTT(60) DEF HasherState
    <3>2. QED
      BY <1>2, <2>4, <2>9, <3>1
  <2>12. k \in WorkerState /\ x \in HasherState /\ Fits(k, x)
    <3>1. k \in WorkerState
      BY <1>4 DEF WorkerState
    <3>2. x \in HasherState
      BY <1>4, <2>5 DEF HasherState
    <3>3. Messages(x) = {}
      BY <2>7 DEF Messages
    <3>4. ~x.runs => ExitEvent \in x.events
      BY <2>4, <2>5 DEF Fits
    <3>5. QED
      BY <1>4, <2>6, <3>1, <3>2, <3>3, <3>4 DEF Fits
  <2>13. b.worker \in [1..n -> WorkerState] /\ b.hasher \in [1..n -> HasherState]
    <3> HIDE DEF k, x
    <3>1. QED
      BY <1>2, <2>10, <2>11, <2>12, ZenonT(60)
  <2>14. b \in PoolStates(n)
    BY <1>2, <1>2a, <2>8, <2>9, <2>13 DEF PoolStates
  <2>15. \A u : PlacesOf(u, b) = PlacesOf(u, a)
    BY <2>9 DEF PlacesOf
  <2>16. \A u \in Tasks \ {t} : HoldersOf(u, b) = HoldersOf(u, a)
    <3>1. \A u : HoldersOf(u, b) = IF k.current = u THEN HoldersOf(u, a) \cup {w} ELSE HoldersOf(u, a) \ {w}
      <4> HIDE DEF k, b
      <4>1. w \in DOMAIN a.worker
        BY <1>2, <2>4
      <4>2. QED
        BY <2>10, <4>1, HoldersAfter
    <3>2. \A u \in Tasks : w \notin HoldersOf(u, a)
      BY <2>6 DEF HoldersOf
    <3>3. QED
      BY <3>1, <3>2
  <2>17. HoldersOf(t, b) = {w}
    <3>1. HoldersOf(t, b) = IF k.current = t THEN HoldersOf(t, a) \cup {w} ELSE HoldersOf(t, a) \ {w}
      <4> HIDE DEF k, b
      <4>1. w \in DOMAIN a.worker
        BY <1>2, <2>4
      <4>2. QED
        BY <2>10, <4>1, HoldersAfter
    <3>2. QED
      BY <1>4, <3>1
  <2>18. ASSUME NEW u \in Tasks
         PROVE  Placed(u, b, rest)
    <3>1. CASE u = t
      <4>1. PlacesOf(t, b) = {} /\ b.promise[t] = "waiting" /\ t \notin rest
        BY <1>4, <2>9, <2>15
      <4>2. QED
        BY <2>17, <3>1, <4>1 DEF Placed
    <3>2. CASE u # t
      BY <1>3, <2>9, <2>15, <2>16, <3>2, PlacedElsewhere
    <3>3. QED
      BY <3>1, <3>2
  <2>19. \A v \in 1..n : Fits(b.worker[v], b.hasher[v])
    <3> HIDE DEF k, x
    <3>1. QED
      BY <1>2, <1>3, <2>10, <2>11, <2>12
  <2>20. \A v \in 1..n : b.worker[v].dead <=> a.worker[v].dead
    <3>1. k.dead = FALSE /\ ~a.worker[w].dead
      BY <2>4
    <3>2. \A v \in 1..n : b.worker[v] = IF v = w THEN k ELSE a.worker[v]
      <4> HIDE DEF k, b
      <4>1. QED
        BY <1>2, <2>4, <2>10
    <3>3. QED
      <4> HIDE DEF b, k
      <4>1. TAKE v \in 1..n
      <4>2. CASE v = w
        BY <3>1, <3>2, <4>2
      <4>3. CASE v # w
        BY <3>2, <4>3
      <4>4. QED
        BY <4>2, <4>3
  <2>21. \A i \in DOMAIN b.workers : ~b.worker[b.workers[i]].dead
    <3>1. \A i \in DOMAIN a.workers : a.workers[i] \in 1..n
      <4>1. CASE a.workers = <<>>
        BY <4>1
      <4>2. CASE a.workers \in [1..PoolSize -> 1..n]
        BY <4>2
      <4>3. QED
        BY <1>2, <4>1, <4>2
    <3>2. QED
      BY <1>3, <2>9, <2>20, <3>1
  <2>22. \A u \in Tasks : u > many => b.promise[u] = "none"
    BY <1>3, <2>9
  <2>23. a.pending = <<>>
    BY <1>7 DEF NoneIdle
  <2> HIDE DEF b, rest, k, x
  <2>24. PoolCore(b, rest, many)
    BY <1>1, <1>2, <2>9, <2>13, <2>14, <2>18, <2>19, <2>21, <2>22 DEF PoolCore
  <2>25. NoneIdle(b)
    BY <2>9, <2>23 DEF NoneIdle
  <2>26. QED
    BY <2>24, <2>25 DEF b, rest
<1>8. QED
  BY <1>5, <1>6, <1>7

\* The tasks of a queue from the place after k on.
Rest(q, k) == {q[i] : i \in (k + 1)..Len(q)}

LEMMA QueueTakenOut ==
  ASSUME NEW s, NEW many, PoolCore(s, {}, many)
  PROVE  LET base == [s EXCEPT !.pending = <<>>] IN
         PoolCore(base, Rest(s.pending, 0), many) /\ NoneIdle(base)
<1> DEFINE q == s.pending
           b == [s EXCEPT !.pending = <<>>]
           more == Rest(q, 0)
<1>1. PICK n \in Nat : s \in PoolStates(n) /\ (s.workers = <<>> => n = 0)
  BY DEF PoolCore
<1>2. /\ s.workers \in {<<>>} \cup [1..PoolSize -> 1..n] /\ s.pending \in Seq(Tasks)
      /\ s.worker \in [1..n -> WorkerState] /\ s.hasher \in [1..n -> HasherState]
      /\ s.promise \in [Tasks -> Outcomes]
  BY <1>1 DEF PoolStates
<1>2a. s = [workers |-> s.workers, pending |-> s.pending, worker |-> s.worker,
            hasher |-> s.hasher, promise |-> s.promise]
  BY <1>1 DEF PoolStates
<1>3. /\ b.pending = <<>> /\ b.workers = s.workers /\ b.worker = s.worker
      /\ b.hasher = s.hasher /\ b.promise = s.promise
  BY <1>2a
<1>4. b \in PoolStates(n)
  <2>1. b = [workers |-> s.workers, pending |-> <<>>, worker |-> s.worker,
            hasher |-> s.hasher, promise |-> s.promise]
    BY <1>2a
  <2>2. <<>> \in Seq(Tasks)
    OBVIOUS
  <2>3. QED
    BY <1>2, <2>1, <2>2 DEF PoolStates
<1> HIDE DEF b
<1>5. ASSUME NEW u \in Tasks
      PROVE  Placed(u, b, more)
  <2>1. Placed(u, s, {})
    BY DEF PoolCore
  <2>2. DOMAIN q = 1..Len(q) /\ 0 + 1 = 1
    BY <1>2
  <2>3. u \in more <=> PlacesOf(u, s) # {}
    BY <2>2 DEF PlacesOf, Rest
  <2>4. PlacesOf(u, b) = {} /\ HoldersOf(u, b) = HoldersOf(u, s)
    BY <1>3 DEF PlacesOf, HoldersOf
  <2>5. /\ s.promise[u] = "waiting" <=> PlacesOf(u, s) # {} \/ HoldersOf(u, s) # {}
        /\ \A v, w \in HoldersOf(u, s) : v = w
        /\ PlacesOf(u, s) # {} => HoldersOf(u, s) = {}
        /\ s.promise[u] \notin {"stale", "twice"}
    BY <2>1 DEF Placed
  <2> HIDE DEF more
  <2>6. QED
    BY <1>3, <2>3, <2>4, <2>5 DEF Placed
<1>6. PoolCore(b, more, many)
  <2>1. /\ \A w \in DOMAIN s.worker : Fits(s.worker[w], s.hasher[w])
        /\ \A i \in DOMAIN s.workers : ~s.worker[s.workers[i]].dead
        /\ \A t \in Tasks : t > many => s.promise[t] = "none"
    BY DEF PoolCore
  <2> HIDE DEF more
  <2>2. QED
    BY <1>1, <1>2, <1>3, <1>4, <1>5, <2>1 DEF PoolCore
<1>7. NoneIdle(b)
  BY <1>3 DEF NoneIdle
<1>8. QED
  BY <1>6, <1>7 DEF b

\* The loop keeps what holds of the state, and leaves no worker idle over a task.
LEMMA AllHandedOut ==
  ASSUME NEW s, NEW many, PoolCore(s, {}, many), NEW refused
  PROVE  LET after == RunOf([s EXCEPT !.pending = <<>>], s.pending, refused)[DOMAIN s.pending] IN
         PoolCore(after, {}, many) /\ NoneIdle(after)
<1> DEFINE q == s.pending
           b == [s EXCEPT !.pending = <<>>]
           n == Len(q)
           at(k) == After(b, q, k, refused)
           Holds(k) == PoolCore(at(k), Rest(q, k), many) /\ NoneIdle(at(k))
<1>1. q \in Seq(Tasks)
  BY DEF PoolCore, PoolStates
<1>2. n \in Nat /\ DOMAIN q = 1..n /\ \A i \in 1..n : q[i] \in Tasks
  BY <1>1
<1>3. \A i, j \in 1..n : q[i] = q[j] => i = j
  <2>1. TAKE i \in 1..n, j \in 1..n
  <2>2. Placed(q[i], s, {})
    BY <1>2 DEF PoolCore
  <2>3. q[i] = q[j] => i \in PlacesOf(q[i], s) /\ j \in PlacesOf(q[i], s)
    BY <1>2 DEF PlacesOf
  <2>4. QED
    BY <2>2, <2>3 DEF Placed
<1>4. PoolCore(b, Rest(q, 0), many) /\ NoneIdle(b)
  BY QueueTakenOut
<1>5. /\ at(0) = b
      /\ \A k \in 1..n : at(k) = HandOut(at(k - 1), q[k], refused)
  <2> HIDE DEF b, q, n
  <2>1. n \in Nat /\ DOMAIN q = 1..n
    BY <1>2
  <2>2. After(b, q, 0, refused) = b
    BY <2>1, HandOutFirst
  <2>3. \A k \in 1..n : After(b, q, k, refused) = HandOut(After(b, q, k - 1, refused), q[k], refused)
    BY <2>1, HandOutNext
  <2>4. QED
    BY <2>2, <2>3
<1>5a. RunOf(b, q, refused)[DOMAIN q] = at(n)
  BY <1>2 DEF After
<1>6. Rest(q, n) = {}
  BY <1>2 DEF Rest
<1> HIDE DEF q, b, n, at
<1>7. SUFFICES Holds(n)
  BY <1>5a, <1>6 DEF q, b
<1> DEFINE Bad == {k \in 0..n : ~Holds(k)}
<1>8. SUFFICES ASSUME Bad # {} PROVE FALSE
  BY <1>2
<1>9. PICK k \in Bad : \A j \in Bad : k <= j
  <2>1. Bad \subseteq Nat
    BY <1>2
  <2> HIDE DEF Bad
  <2>2. QED
    BY <1>8, <2>1, MinIs
<1>10. CASE k = 0
  BY <1>4, <1>5, <1>9, <1>10
<1>11. CASE k # 0
  <2>1. k \in 1..n /\ k - 1 \in 0..n /\ ~(k <= k - 1)
    BY <1>2, <1>9, <1>11
  <2>2. k - 1 \notin Bad
    BY <1>9, <2>1
  <2>3. PoolCore(at(k - 1), Rest(q, k - 1), many) /\ NoneIdle(at(k - 1))
    BY <2>1, <2>2
  <2>4. q[k] \in Rest(q, k - 1) /\ Rest(q, k - 1) \in SUBSET Tasks
    <3>1. (k - 1) + 1 = k /\ \A i \in k..n : i \in 1..n
      BY <1>2, <2>1
    <3>2. k \in k..n
      BY <1>2, <2>1
    <3>3. QED
      BY <1>2, <3>1, <3>2 DEF Rest, n
  <2>5. Rest(q, k - 1) \ {q[k]} = Rest(q, k)
    <3>1. (k - 1) + 1 = k /\ \A i \in k..n : i \in 1..n
      BY <1>2, <2>1
    <3>2. k..n = ((k + 1)..n) \cup {k} /\ k \notin (k + 1)..n
      BY <1>2, <2>1
    <3>3. \A i \in (k + 1)..n : i \in 1..n /\ i # k
      BY <1>2, <2>1
    <3>4. \A i \in (k + 1)..n : q[i] # q[k]
      BY <1>3, <2>1, <3>3
    <3>5. Rest(q, k - 1) = Rest(q, k) \cup {q[k]}
      BY <3>1, <3>2 DEF Rest, n
    <3>6. q[k] \notin Rest(q, k)
      BY <3>4 DEF Rest, n
    <3>7. QED
      BY <3>5, <3>6
  <2>6. /\ PoolCore(HandOut(at(k - 1), q[k], refused), Rest(q, k - 1) \ {q[k]}, many)
        /\ NoneIdle(HandOut(at(k - 1), q[k], refused))
    BY <2>3, <2>4, HandOutKeeps
  <2>7. Holds(k)
    BY <1>5, <2>1, <2>5, <2>6
  <2>8. QED
    BY <1>9, <2>7
<1>12. QED
  BY <1>10, <1>11

LEMMA DispatchKeeps ==
  ASSUME NEW CONSTANT s, NEW CONSTANT many, PoolCore(s, {}, many), Dispatch(s)
  PROVE  PoolCore(Here', {}, many) /\ NoneIdle(Here')
<1>1. PICK refused :
        LET after == RunOf([s EXCEPT !.pending = <<>>], s.pending, refused)[DOMAIN s.pending] IN
          /\ workers' = after.workers /\ pending' = after.pending
          /\ worker' = after.worker /\ hasher' = after.hasher /\ promise' = after.promise
  BY DEF Dispatch, FoldLeft, MapThenFoldSet, RunOf, IsRun
<1>2. PICK a : a = RunOf([s EXCEPT !.pending = <<>>], s.pending, refused)[DOMAIN s.pending]
  OBVIOUS
<1>3. PoolCore(a, {}, many) /\ NoneIdle(a)
  BY <1>2, AllHandedOut
<1>4. /\ workers' = a.workers /\ pending' = a.pending
      /\ worker' = a.worker /\ hasher' = a.hasher /\ promise' = a.promise
  BY <1>1, <1>2
<1>5. a = [workers |-> a.workers, pending |-> a.pending, worker |-> a.worker,
           hasher |-> a.hasher, promise |-> a.promise]
  BY <1>3 DEF PoolCore, PoolStates
<1>6. Here' = a
  BY <1>4, <1>5 DEF Here
<1>7. QED
  BY <1>3, <1>6

LEMMA PoolParts ==
  ASSUME NEW s, NEW n \in Nat, s \in PoolStates(n)
  PROVE  /\ s.workers \in {<<>>} \cup [1..PoolSize -> 1..n] /\ s.pending \in Seq(Tasks)
         /\ s.worker \in [1..n -> WorkerState] /\ s.hasher \in [1..n -> HasherState]
         /\ s.promise \in [Tasks -> Outcomes]
         /\ s = [workers |-> s.workers, pending |-> s.pending, worker |-> s.worker,
                 hasher |-> s.hasher, promise |-> s.promise]
BY DEF PoolStates

\* What PoolInv says of the variables.
LEMMA PoolNow ==
  ASSUME PoolInv
  PROVE  \E n \in Nat :
           /\ workers \in {<<>>} \cup [1..PoolSize -> 1..n] /\ (workers = <<>> => n = 0)
           /\ pending \in Seq(Tasks)
           /\ worker \in [1..n -> WorkerState] /\ hasher \in [1..n -> HasherState]
           /\ promise \in [Tasks -> Outcomes]
           /\ \A w \in 1..n : Fits(worker[w], hasher[w])
           /\ \A i \in DOMAIN workers : ~worker[workers[i]].dead
           /\ \A t \in Tasks : Placed(t, Here, {}) /\ (t > begun => promise[t] = "none")
           /\ NoneIdle(Here) /\ begun \in 0..MaxRequests
<1>1. PICK n \in Nat : Here \in PoolStates(n) /\ (Here.workers = <<>> => n = 0)
  BY DEF PoolInv, PoolCore
<1>2. /\ Here.workers = workers /\ Here.pending = pending /\ Here.worker = worker
      /\ Here.hasher = hasher /\ Here.promise = promise
  BY DEF Here
<1>3. /\ workers \in {<<>>} \cup [1..PoolSize -> 1..n] /\ (workers = <<>> => n = 0)
      /\ pending \in Seq(Tasks)
      /\ worker \in [1..n -> WorkerState] /\ hasher \in [1..n -> HasherState]
      /\ promise \in [Tasks -> Outcomes]
  BY <1>1, <1>2, PoolParts
<1>4. /\ \A w \in 1..n : Fits(worker[w], hasher[w])
      /\ \A i \in DOMAIN workers : ~worker[workers[i]].dead
      /\ \A t \in Tasks : Placed(t, Here, {}) /\ (t > begun => promise[t] = "none")
  BY <1>2, <1>3 DEF PoolInv, PoolCore
<1>5. QED
  BY <1>3, <1>4 DEF PoolInv

\* The same, to show it of a state.
LEMMA PoolCoreOf ==
  ASSUME NEW n \in Nat, NEW ws, NEW p, NEW k, NEW h, NEW pr, NEW many, NEW s,
         s = [workers |-> ws, pending |-> p, worker |-> k, hasher |-> h, promise |-> pr],
         ws \in {<<>>} \cup [1..PoolSize -> 1..n], ws = <<>> => n = 0, p \in Seq(Tasks),
         k \in [1..n -> WorkerState], h \in [1..n -> HasherState], pr \in [Tasks -> Outcomes],
         \A w \in 1..n : Fits(k[w], h[w]),
         \A i \in DOMAIN ws : ~k[ws[i]].dead,
         \A t \in Tasks : Placed(t, s, {}) /\ (t > many => pr[t] = "none")
  PROVE  PoolCore(s, {}, many)
<1>1. s \in PoolStates(n)
  BY DEF PoolStates
<1>2. s.workers = ws /\ s.pending = p /\ s.worker = k /\ s.hasher = h /\ s.promise = pr
  OBVIOUS
<1>3. DOMAIN k = 1..n
  OBVIOUS
<1>4. QED
  BY <1>1, <1>2, <1>3 DEF PoolCore

\* What PoolCoreOf asks of a state, in one formula to cite.
CoreParts(n, ws, p, k, h, pr, many, s) ==
  /\ s = [workers |-> ws, pending |-> p, worker |-> k, hasher |-> h, promise |-> pr]
  /\ ws \in {<<>>} \cup [1..PoolSize -> 1..n] /\ (ws = <<>> => n = 0) /\ p \in Seq(Tasks)
  /\ k \in [1..n -> WorkerState] /\ h \in [1..n -> HasherState] /\ pr \in [Tasks -> Outcomes]
  /\ \A w \in 1..n : Fits(k[w], h[w])
  /\ \A i \in DOMAIN ws : ~k[ws[i]].dead
  /\ \A t \in Tasks : Placed(t, s, {}) /\ (t > many => pr[t] = "none")

LEMMA PoolCoreFrom ==
  ASSUME NEW n \in Nat, NEW ws, NEW p, NEW k, NEW h, NEW pr, NEW many, NEW s,
         CoreParts(n, ws, p, k, h, pr, many, s)
  PROVE  PoolCore(s, {}, many)
<1>1. /\ s = [workers |-> ws, pending |-> p, worker |-> k, hasher |-> h, promise |-> pr]
      /\ ws \in {<<>>} \cup [1..PoolSize -> 1..n] /\ (ws = <<>> => n = 0) /\ p \in Seq(Tasks)
      /\ k \in [1..n -> WorkerState] /\ h \in [1..n -> HasherState] /\ pr \in [Tasks -> Outcomes]
      /\ \A w \in 1..n : Fits(k[w], h[w])
      /\ \A i \in DOMAIN ws : ~k[ws[i]].dead
      /\ \A t \in Tasks : Placed(t, s, {}) /\ (t > many => pr[t] = "none")
  BY DEF CoreParts
<1>2. QED
  BY ONLY n \in Nat, <1>1, PoolCoreOf

\* Worker w's task is settled, and is with no worker after that.
LEMMA SettleKeeps ==
  ASSUME NEW a, NEW b, NEW many, NEW w, NEW t \in Tasks, NEW o \in {"hashed", "failed"},
         a.promise \in [Tasks -> Outcomes],
         \A u \in Tasks : Placed(u, a, {}) /\ (u > many => a.promise[u] = "none"),
         w \in HoldersOf(t, a),
         b.promise = Settled(a.promise, t, o),
         \A u \in Tasks : PlacesOf(u, b) = PlacesOf(u, a) /\ HoldersOf(u, b) = HoldersOf(u, a) \ {w}
  PROVE  /\ b.promise \in [Tasks -> Outcomes]
         /\ \A u \in Tasks : Placed(u, b, {}) /\ (u > many => b.promise[u] = "none")
<1>1. /\ a.promise[t] = "waiting" /\ PlacesOf(t, a) = {} /\ HoldersOf(t, a) = {w}
  BY DEF Placed
<1>2. b.promise = [a.promise EXCEPT ![t] = o]
  BY <1>1 DEF Settled
<1>3. b.promise \in [Tasks -> Outcomes]
  BY <1>2 DEF Outcomes
<1>4. ASSUME NEW u \in Tasks
      PROVE  Placed(u, b, {}) /\ (u > many => b.promise[u] = "none")
  <2>1. CASE u = t
    <3>1. PlacesOf(t, b) = {} /\ HoldersOf(t, b) = {} /\ b.promise[t] = o
      BY <1>1, <1>2
    <3>2. ~(t > many)
      BY <1>1
    <3>3. QED
      BY <2>1, <3>1, <3>2 DEF Placed
  <2>2. CASE u # t
    <3>1. w \notin HoldersOf(u, a)
      BY <2>2 DEF HoldersOf
    <3>2. PlacesOf(u, b) = PlacesOf(u, a) /\ HoldersOf(u, b) = HoldersOf(u, a) /\ b.promise[u] = a.promise[u]
      BY <1>2, <2>2, <3>1
    <3>3. Placed(u, a, {})
      OBVIOUS
    <3>4. QED
      BY <3>2, <3>3, PlacedElsewhere
  <2>3. QED
    BY <2>1, <2>2
<1>5. QED
  BY <1>3, <1>4

\* A thread moves; the main thread has heard nothing yet.
LEMMA ThreadMoves ==
  ASSUME PoolInv, NEW w \in Spawned, NEW x \in HasherState, Fits(worker[w], x),
         hasher' = [hasher EXCEPT ![w] = x],
         UNCHANGED <<workers, pending, worker, promise, begun>>
  PROVE  PoolInv'
<1>1. PICK n \in Nat :
           /\ workers \in {<<>>} \cup [1..PoolSize -> 1..n] /\ (workers = <<>> => n = 0)
           /\ pending \in Seq(Tasks)
           /\ worker \in [1..n -> WorkerState] /\ hasher \in [1..n -> HasherState]
           /\ promise \in [Tasks -> Outcomes]
           /\ \A v \in 1..n : Fits(worker[v], hasher[v])
           /\ \A i \in DOMAIN workers : ~worker[workers[i]].dead
           /\ \A t \in Tasks : Placed(t, Here, {}) /\ (t > begun => promise[t] = "none")
           /\ NoneIdle(Here) /\ begun \in 0..MaxRequests
  BY PoolNow
<1>2. w \in 1..n
  BY <1>1 DEF Spawned
<1>2a. PICK hs : hs = hasher'
  OBVIOUS
<1>3. PICK s : s = [workers |-> workers, pending |-> pending, worker |-> worker, hasher |-> hs, promise |-> promise]
  OBVIOUS
<1>4. Here' = s
  BY <1>2a, <1>3 DEF Here
<1>5. \A t : HoldersOf(t, s) = HoldersOf(t, Here) /\ PlacesOf(t, s) = PlacesOf(t, Here) /\ s.promise = Here.promise
  BY <1>3 DEF HoldersOf, PlacesOf, Here
<1>6. \A t \in Tasks : Placed(t, s, {})
  BY <1>1, <1>5, PlacedElsewhere
<1>7. hs \in [1..n -> HasherState] /\ \A v \in 1..n : Fits(worker[v], hs[v])
  BY <1>1, <1>2, <1>2a
<1>8. PoolCore(s, {}, begun)
  <2>1. \A t \in Tasks : Placed(t, s, {}) /\ (t > begun => promise[t] = "none")
    BY <1>1, <1>6
  <2>2. /\ workers \in {<<>>} \cup [1..PoolSize -> 1..n] /\ (workers = <<>> => n = 0) /\ pending \in Seq(Tasks)
        /\ worker \in [1..n -> WorkerState] /\ promise \in [Tasks -> Outcomes]
        /\ \A i \in DOMAIN workers : ~worker[workers[i]].dead
    BY <1>1
  <2>3. PICK ws, p, k, pr, many : ws = workers /\ p = pending /\ k = worker /\ pr = promise /\ many = begun
    OBVIOUS
  <2>4. QED
    BY ONLY n \in Nat, <1>3, <1>7, <2>1, <2>2, <2>3, PoolCoreOf
<1>9. NoneIdle(s)
  BY <1>1, <1>3 DEF NoneIdle, IdleSlots, Here
<1>10. QED
  BY <1>1, <1>4, <1>8, <1>9 DEF PoolInv

LEMMA HasherAnswersKeeps ==
  ASSUME PoolInv, NEW w \in Spawned, HasherAnswers(w)
  PROVE  PoolInv'
<1>1. PICK t \in hasher[w].inbox, ok \in BOOLEAN :
        /\ hasher[w].runs
        /\ hasher' = [hasher EXCEPT ![w].inbox = @ \ {t},
                                    ![w].events = @ \cup {[kind |-> "message", id |-> t, ok |-> ok]}]
  BY DEF HasherAnswers
<1>2. UNCHANGED <<workers, pending, worker, promise, begun>>
  BY DEF HasherAnswers, handlerVars
<1>3. PICK n \in Nat : /\ worker \in [1..n -> WorkerState] /\ hasher \in [1..n -> HasherState]
                       /\ \A v \in 1..n : Fits(worker[v], hasher[v])
  BY PoolNow
<1>4. PICK y \in HasherState : y = hasher[w]
  BY <1>3 DEF Spawned
<1>5. Fits(worker[w], y)
  BY <1>3, <1>4 DEF Spawned
<1>6. PICK m : m = [kind |-> "message", id |-> t, ok |-> ok]
  OBVIOUS
<1> DEFINE x == [runs |-> y.runs, inbox |-> y.inbox \ {t}, events |-> y.events \cup {m}]
<1>7. hasher' = [hasher EXCEPT ![w] = x]
  <2>1. y = [runs |-> y.runs, inbox |-> y.inbox, events |-> y.events]
    BY DEF HasherState
  <2>2. PICK z : z = [y EXCEPT !.inbox = @ \ {t}]
    OBVIOUS
  <2>3. z = [runs |-> y.runs, inbox |-> y.inbox \ {t}, events |-> y.events]
    BY <2>1, <2>2
  <2>4. [z EXCEPT !.events = @ \cup {m}] = x
    BY <2>3
  <2>5. PICK hz : hz = [hasher EXCEPT ![w] = z]
    OBVIOUS
  <2>6. hasher' = [hz EXCEPT ![w].events = @ \cup {m}]
    BY <1>1, <1>4, <1>6, <2>2, <2>5
  <2>7. hz[w] = z
    BY <1>3, <2>5 DEF Spawned
  <2>8. hasher' = [hasher EXCEPT ![w] = [z EXCEPT !.events = @ \cup {m}]]
    BY <2>5, <2>6, <2>7
  <2>9. QED
    BY <2>4, <2>8
<1>8. x \in HasherState
  <2>1. t \in Tasks
    BY <1>1, <1>4 DEF HasherState
  <2>2. m \in Answers
    BY <1>6, <2>1 DEF Answers
  <2>3. QED
    BY <2>2 DEF HasherState
<1>9. Fits(worker[w], x)
  <2>1. Messages(x) = Messages(y) \cup {m}
    BY <1>6 DEF Messages
  <2>2. y.inbox # {} /\ y.runs /\ m.id = t /\ t \in y.inbox
    BY <1>1, <1>4, <1>6
  <2>3. CASE worker[w].dead
    BY <1>5, <2>2, <2>3 DEF Fits
  <2>4. CASE ~worker[w].dead
    <3>1. t = worker[w].current /\ x.inbox = {} /\ Messages(y) = {}
      BY <1>5, <2>2, <2>4 DEF Fits
    <3>2. QED
      BY <1>5, <2>1, <2>2, <2>4, <3>1 DEF Fits
  <2>5. QED
    BY <2>3, <2>4
<1>10. QED
  <2> HIDE DEF x
  <2>1. QED
    BY <1>2, <1>7, <1>8, <1>9, ThreadMoves

LEMMA HasherStopsKeeps ==
  ASSUME PoolInv, NEW w \in Spawned, HasherStops(w)
  PROVE  PoolInv'
<1>1. PICK throws \in BOOLEAN :
        hasher' = [hasher EXCEPT ![w] =
          [runs |-> FALSE, inbox |-> {},
           events |-> @.events \cup {[kind |-> "exit"]} \cup (IF throws THEN {[kind |-> "error"]} ELSE {})]]
  BY DEF HasherStops
<1>2. UNCHANGED <<workers, pending, worker, promise, begun>>
  BY DEF HasherStops, handlerVars
<1>3. PICK n \in Nat : /\ worker \in [1..n -> WorkerState] /\ hasher \in [1..n -> HasherState]
                       /\ \A v \in 1..n : Fits(worker[v], hasher[v])
  BY PoolNow
<1>4. PICK y \in HasherState : y = hasher[w]
  BY <1>3 DEF Spawned
<1>5. Fits(worker[w], y)
  BY <1>3, <1>4 DEF Spawned
<1>6. PICK more : more = IF throws THEN {ErrorEvent} ELSE {}
  OBVIOUS
<1> DEFINE x == [runs |-> FALSE, inbox |-> {}, events |-> y.events \cup {ExitEvent} \cup more]
<1>7. hasher' = [hasher EXCEPT ![w] = x]
  BY <1>1, <1>4, <1>6 DEF ExitEvent, ErrorEvent
<1>8. x \in HasherState
  BY <1>6 DEF HasherState
<1>9. Fits(worker[w], x)
  <2>1. Messages(x) = Messages(y)
    BY <1>6 DEF Messages, ExitEvent, ErrorEvent
  <2>2. QED
    BY <1>5, <2>1 DEF Fits
<1>10. QED
  <2> HIDE DEF x
  <2>1. QED
    BY <1>2, <1>7, <1>8, <1>9, ThreadMoves

\* Nobody needs to be handed a task.
LEMMA NotDispatched ==
  ASSUME NEW CONSTANT s, NEW CONSTANT many, PoolCore(s, {}, many), NoneIdle(s), DispatchNot(s)
  PROVE  PoolCore(Here', {}, many) /\ NoneIdle(Here')
<1>1. s = [workers |-> s.workers, pending |-> s.pending, worker |-> s.worker,
           hasher |-> s.hasher, promise |-> s.promise]
  BY DEF PoolCore, PoolStates
<1>2. Here' = s
  BY <1>1 DEF Here, DispatchNot
<1>3. QED
  BY <1>2

LEMMA OnMessageKeeps ==
  ASSUME PoolInv, NEW w \in Spawned, OnMessage(w)
  PROVE  PoolInv'
<1>1. PICK n \in Nat :
           /\ workers \in {<<>>} \cup [1..PoolSize -> 1..n] /\ (workers = <<>> => n = 0)
           /\ pending \in Seq(Tasks)
           /\ worker \in [1..n -> WorkerState] /\ hasher \in [1..n -> HasherState]
           /\ promise \in [Tasks -> Outcomes]
           /\ \A v \in 1..n : Fits(worker[v], hasher[v])
           /\ \A i \in DOMAIN workers : ~worker[workers[i]].dead
           /\ \A u \in Tasks : Placed(u, Here, {}) /\ (u > begun => promise[u] = "none")
           /\ NoneIdle(Here) /\ begun \in 0..MaxRequests
  BY PoolNow
<1>2. w \in 1..n
  BY <1>1 DEF Spawned
<1>3. PICK k \in WorkerState : k = worker[w]
  BY <1>1, <1>2
<1>4. PICK y \in HasherState : y = hasher[w]
  BY <1>1, <1>2
<1>5. Fits(k, y)
  BY <1>1, <1>2, <1>3, <1>4
<1>6a. PICK m \in hasher[w].events :
        /\ m.kind = "message"
        /\ LET heard == [Here EXCEPT !.worker[w].current = None, !.worker[w].idle = TRUE,
                                     !.hasher[w].events = @ \ {m}] IN
           IF worker[w].current = None THEN DispatchNot(heard)
           ELSE Dispatch([heard EXCEPT !.promise = Settled(@, worker[w].current,
                  IF m.id # worker[w].current THEN "stale" ELSE IF m.ok THEN "hashed" ELSE "failed")])
  BY DEF OnMessage
<1>6b. PICK heard : heard = [Here EXCEPT !.worker[w].current = None, !.worker[w].idle = TRUE,
                                         !.hasher[w].events = @ \ {m}]
  OBVIOUS
<1>6. /\ m \in y.events /\ m.kind = "message"
      /\ IF k.current = None THEN DispatchNot(heard)
         ELSE Dispatch([heard EXCEPT !.promise = Settled(@, k.current,
                IF m.id # k.current THEN "stale" ELSE IF m.ok THEN "hashed" ELSE "failed")])
  BY <1>3, <1>4, <1>6a, <1>6b
<1>7. begun' = begun
  BY DEF OnMessage, handlerVars
<1>8. m \in Messages(y) /\ m.id \in Tasks /\ m.ok \in BOOLEAN
  <2>1. m \in Answers
    BY <1>6 DEF HasherState, ExitEvent, ErrorEvent
  <2>2. QED
    BY <1>6, <2>1 DEF Answers, Messages
<1> DEFINE r == [idle |-> TRUE, current |-> None, dead |-> k.dead]
           x == [runs |-> y.runs, inbox |-> y.inbox, events |-> y.events \ {m}]
<1>9. heard = [workers |-> workers, pending |-> pending, worker |-> [worker EXCEPT ![w] = r],
               hasher |-> [hasher EXCEPT ![w] = x], promise |-> promise]
  <2>1. y = [runs |-> y.runs, inbox |-> y.inbox, events |-> y.events]
    BY DEF HasherState
  <2>2. [y EXCEPT !.events = @ \ {m}] = x
    BY <2>1
  <2>3. k = [idle |-> k.idle, current |-> k.current, dead |-> k.dead]
    BY DEF WorkerState
  <2>4. PICK yes \in BOOLEAN : yes = TRUE
    OBVIOUS
  <2>5. PICK q : q = [k EXCEPT !.current = None]
    OBVIOUS
  <2>6. PICK i, c, d : k = [idle |-> i, current |-> c, dead |-> d] /\ d = k.dead
    BY <2>3
  <2>7. q = [idle |-> i, current |-> None, dead |-> d]
    BY <2>5, <2>6
  <2>8. [q EXCEPT !.idle = yes] = [idle |-> yes, current |-> None, dead |-> d]
    BY <2>7
  <2>9. r = [idle |-> yes, current |-> None, dead |-> d]
    BY <2>4, <2>6
  <2>10. PICK wq : wq = [worker EXCEPT ![w] = q]
    OBVIOUS
  <2>11. wq[w] = q /\ [wq EXCEPT ![w] = [q EXCEPT !.idle = yes]] = [worker EXCEPT ![w] = [q EXCEPT !.idle = yes]]
    BY <1>1, <1>2, <2>10
  <2>12. [[worker EXCEPT ![w].current = None] EXCEPT ![w].idle = yes] = [worker EXCEPT ![w] = [q EXCEPT !.idle = yes]]
    BY <1>3, <2>5, <2>10, <2>11
  <2>13. [hasher EXCEPT ![w].events = @ \ {m}] = [hasher EXCEPT ![w] = [y EXCEPT !.events = @ \ {m}]]
    BY <1>4
  <2>14. PICK wr, hx : wr = [worker EXCEPT ![w] = r] /\ hx = [hasher EXCEPT ![w] = x]
    OBVIOUS
  <2>15. [[worker EXCEPT ![w].current = None] EXCEPT ![w].idle = yes] = wr /\ [hasher EXCEPT ![w].events = @ \ {m}] = hx
    BY <2>2, <2>8, <2>9, <2>12, <2>13, <2>14
  <2>16. heard = [Here EXCEPT !.worker[w].current = None, !.worker[w].idle = yes, !.hasher[w].events = @ \ {m}]
    BY <1>6b, <2>4
  <2>17. heard = [workers |-> workers, pending |-> pending,
                  worker |-> [[worker EXCEPT ![w].current = None] EXCEPT ![w].idle = yes],
                  hasher |-> [hasher EXCEPT ![w].events = @ \ {m}], promise |-> promise]
    BY <2>16 DEF Here
  <2>18. QED
    BY <2>14, <2>15, <2>17
<1>10. r \in WorkerState /\ x \in HasherState
  BY <1>3, <1>4 DEF WorkerState, HasherState
<1>11. Fits(r, x)
  <2>1. Messages(x) = Messages(y) \ {m}
    BY DEF Messages
  <2>2. CASE k.dead
    BY <1>5, <1>10, <2>2 DEF Fits
  <2>3. CASE ~k.dead
    <3>1. Messages(x) = {} /\ x.inbox = {} /\ (~x.runs => ExitEvent \in y.events)
      BY <1>5, <1>8, <2>1, <2>3 DEF Fits
    <3>2. ExitEvent # m
      BY <1>6 DEF ExitEvent
    <3>3. QED
      BY <2>3, <3>1, <3>2 DEF Fits
  <2>4. QED
    BY <2>2, <2>3
<1>12. PICK wr, hx : wr = [worker EXCEPT ![w] = r] /\ hx = [hasher EXCEPT ![w] = x]
  OBVIOUS
<1>13. heard = [workers |-> workers, pending |-> pending, worker |-> wr, hasher |-> hx, promise |-> promise]
  BY <1>9, <1>12
<1> HIDE DEF x
<1>14. /\ wr \in [1..n -> WorkerState] /\ hx \in [1..n -> HasherState]
       /\ wr[w] = r /\ \A v \in 1..n \ {w} : wr[v] = worker[v]
  <2> HIDE DEF r
  <2>1. QED
    BY <1>1, <1>2, <1>10, <1>12
<1>15. \A v \in 1..n : Fits(wr[v], hx[v])
  <2> HIDE DEF r
  <2>1. QED
    BY <1>1, <1>2, <1>11, <1>12
<1>16. \A i \in DOMAIN workers : ~wr[workers[i]].dead
  <2>1. \A v \in 1..n : ~worker[v].dead => ~wr[v].dead
    <3>1. r.dead = worker[w].dead
      BY <1>3
    <3> HIDE DEF r
    <3>2. TAKE v \in 1..n
    <3>3. CASE v = w
      BY <1>14, <3>1, <3>3
    <3>4. CASE v # w
      BY <1>14, <3>4
    <3>5. QED
      BY <3>3, <3>4
  <2>2. \A i \in DOMAIN workers : workers[i] \in 1..n
    <3>1. CASE workers = <<>>
      BY <3>1
    <3>2. CASE workers # <<>>
      BY <1>1, <3>2
    <3>3. QED
      BY <3>1, <3>2
  <2>3. QED
    BY <1>1, <2>1, <2>2
<1>17. Here.worker = worker /\ Here.pending = pending /\ Here.promise = promise
  BY DEF Here
<1>18. CASE k.current = None
  <2>1. k.dead
    BY <1>5, <1>8, <1>18, HashPoolAssumption DEF Fits, Tasks
  <2>2. wr = worker
    <3>1. k = [idle |-> k.idle, current |-> k.current, dead |-> k.dead] /\ k.idle = TRUE
      BY <1>5, <1>18 DEF WorkerState, Fits
    <3>2. r = k
      BY <1>18, <3>1
    <3> HIDE DEF r
    <3>3. QED
      BY <1>1, <1>3, <1>12, <3>2
  <2>3. \A u \in Tasks : Placed(u, heard, {}) /\ (u > begun => promise[u] = "none")
    <3>1. \A u : PlacesOf(u, heard) = PlacesOf(u, Here) /\ HoldersOf(u, heard) = HoldersOf(u, Here) /\ heard.promise = Here.promise
      BY <1>13, <1>17, <2>2 DEF PlacesOf, HoldersOf
    <3>2. QED
      BY <1>1, <3>1, PlacedElsewhere
  <2>4. PoolCore(heard, {}, begun)
    <3>1. PICK ws, p, pr, many : ws = workers /\ p = pending /\ pr = promise /\ many = begun
      OBVIOUS
    <3>2. /\ ws \in {<<>>} \cup [1..PoolSize -> 1..n] /\ (ws = <<>> => n = 0) /\ p \in Seq(Tasks)
          /\ pr \in [Tasks -> Outcomes]
      BY <1>1, <3>1
    <3>3. QED
      BY ONLY n \in Nat, <1>13, <1>14, <1>15, <1>16, <2>3, <3>1, <3>2, PoolCoreOf
  <2>5. NoneIdle(heard)
    BY <1>1, <1>13, <2>2 DEF NoneIdle, IdleSlots, Here
  <2>6. DispatchNot(heard)
    BY <1>6, <1>18
  <2>7. PICK many : many = begun
    OBVIOUS
  <2>8. PoolCore(Here', {}, many) /\ NoneIdle(Here')
    BY <2>4, <2>5, <2>6, <2>7, NotDispatched
  <2>9. QED
    BY <1>1, <1>7, <2>7, <2>8 DEF PoolInv
<1>19. CASE k.current # None
  <2>1. PICK t \in Tasks : t = k.current
    BY <1>19 DEF WorkerState
  <2>2. ~k.dead /\ m.id = t
    BY <1>5, <1>8, <1>19, <2>1 DEF Fits
  <2>3. PICK o \in {"hashed", "failed"} : \E s :
          s = [heard EXCEPT !.promise = Settled(promise, t, o)] /\ Dispatch(s)
    <3>1. PICK o \in {"hashed", "failed"} : o = IF m.id # k.current THEN "stale" ELSE IF m.ok THEN "hashed" ELSE "failed"
      BY <1>8, <2>1, <2>2
    <3>2. Dispatch([heard EXCEPT !.promise = Settled(@, t, o)])
      BY <1>6, <1>19, <2>1, <3>1
    <3>3. heard.promise = promise
      BY <1>13
    <3>4. PICK s : s = [heard EXCEPT !.promise = Settled(heard.promise, t, o)]
      OBVIOUS
    <3>5. Dispatch(s)
      BY <3>2, <3>4
    <3>6. QED
      BY <3>3, <3>4, <3>5
  <2>3a. PICK s : s = [heard EXCEPT !.promise = Settled(promise, t, o)] /\ Dispatch(s)
    BY <2>3
  <2>4. PICK pr : pr = Settled(promise, t, o)
    OBVIOUS
  <2>5. s = [workers |-> workers, pending |-> pending, worker |-> wr, hasher |-> hx, promise |-> pr]
    BY <1>13, <2>3a, <2>4
  <2>6. w \in HoldersOf(t, Here)
    BY <1>1, <1>2, <1>3, <1>17, <2>1 DEF HoldersOf
  <2>7. ASSUME NEW u \in Tasks
        PROVE  PlacesOf(u, s) = PlacesOf(u, Here) /\ HoldersOf(u, s) = HoldersOf(u, Here) \ {w}
    <3>1. PlacesOf(u, s) = PlacesOf(u, Here)
      BY <1>17, <2>5 DEF PlacesOf
    <3>2. r.current # u
      BY HashPoolAssumption DEF Tasks
    <3>3. HoldersOf(u, s) = {v \in 1..n : wr[v].current = u} /\ HoldersOf(u, Here) = {v \in 1..n : worker[v].current = u}
      BY <1>1, <1>14, <1>17, <2>5 DEF HoldersOf
    <3> HIDE DEF r
    <3>4. {v \in 1..n : wr[v].current = u} = {v \in 1..n : worker[v].current = u} \ {w}
      BY <1>2, <1>14, <3>2
    <3>5. QED
      BY <3>1, <3>3, <3>4
  <2>8. /\ pr \in [Tasks -> Outcomes]
        /\ \A u \in Tasks : Placed(u, s, {}) /\ (u > begun => pr[u] = "none")
    <3>1. s.promise = pr
      BY <2>5
    <3>2. PICK a, many : a = Here /\ many = begun
      OBVIOUS
    <3>3. /\ a.promise \in [Tasks -> Outcomes] /\ w \in HoldersOf(t, a) /\ s.promise = Settled(a.promise, t, o)
          /\ \A u \in Tasks : Placed(u, a, {}) /\ (u > many => a.promise[u] = "none")
          /\ \A u \in Tasks : PlacesOf(u, s) = PlacesOf(u, a) /\ HoldersOf(u, s) = HoldersOf(u, a) \ {w}
      BY <1>1, <1>17, <2>4, <2>6, <2>7, <3>1, <3>2
    <3>4. s.promise \in [Tasks -> Outcomes] /\ \A u \in Tasks : Placed(u, s, {}) /\ (u > many => s.promise[u] = "none")
      BY ONLY <3>3, t \in Tasks, o \in {"hashed", "failed"}, SettleKeeps, ZenonT(60)
    <3>5. QED
      BY <3>1, <3>2, <3>4
  <2>9. PICK ws, p, many : ws = workers /\ p = pending /\ many = begun
    OBVIOUS
  <2>10. PoolCore(s, {}, many)
    <3>1. /\ ws \in {<<>>} \cup [1..PoolSize -> 1..n] /\ (ws = <<>> => n = 0) /\ p \in Seq(Tasks)
      BY <1>1, <2>9
    <3>2. QED
      BY ONLY n \in Nat, <1>14, <1>15, <1>16, <2>5, <2>8, <2>9, <3>1, PoolCoreOf
  <2>11. PoolCore(Here', {}, many) /\ NoneIdle(Here')
    BY <2>3a, <2>10, DispatchKeeps
  <2>12. QED
    BY <1>1, <1>7, <2>9, <2>11 DEF PoolInv
<1>20. QED
  BY <1>18, <1>19

LEMMA OnFailureKeeps ==
  ASSUME PoolInv, NEW w \in Spawned, OnFailure(w)
  PROVE  PoolInv'
<1>1. PICK n \in Nat :
           /\ workers \in {<<>>} \cup [1..PoolSize -> 1..n] /\ (workers = <<>> => n = 0)
           /\ pending \in Seq(Tasks)
           /\ worker \in [1..n -> WorkerState] /\ hasher \in [1..n -> HasherState]
           /\ promise \in [Tasks -> Outcomes]
           /\ \A v \in 1..n : Fits(worker[v], hasher[v])
           /\ \A i \in DOMAIN workers : ~worker[workers[i]].dead
           /\ \A u \in Tasks : Placed(u, Here, {}) /\ (u > begun => promise[u] = "none")
           /\ NoneIdle(Here) /\ begun \in 0..MaxRequests
  BY PoolNow
<1>2. w \in 1..n
  BY <1>1 DEF Spawned
<1>3. PICK k \in WorkerState : k = worker[w]
  BY <1>1, <1>2
<1>4. PICK y \in HasherState : y = hasher[w]
  BY <1>1, <1>2
<1>5. Fits(k, y)
  BY <1>1, <1>2, <1>3, <1>4
<1>6a. PICK e \in hasher[w].events : FailAndRespawn(w, [Here EXCEPT !.hasher[w].events = @ \ {e}])
  BY DEF OnFailure
<1>6. PICK heard : heard = [Here EXCEPT !.hasher[w].events = @ \ {e}]
  OBVIOUS
<1>7. begun' = begun
  BY DEF OnFailure, handlerVars
<1> DEFINE x == [runs |-> y.runs, inbox |-> y.inbox, events |-> y.events \ {e}]
<1>8. x \in HasherState
  BY DEF HasherState
<1>9. PICK hx : hx = [hasher EXCEPT ![w] = x]
  OBVIOUS
<1>10. heard = [workers |-> workers, pending |-> pending, worker |-> worker, hasher |-> hx, promise |-> promise]
  <2>1. y = [runs |-> y.runs, inbox |-> y.inbox, events |-> y.events]
    BY DEF HasherState
  <2>2. [y EXCEPT !.events = @ \ {e}] = x
    BY <2>1
  <2>3. [hasher EXCEPT ![w].events = @ \ {e}] = [hasher EXCEPT ![w] = [y EXCEPT !.events = @ \ {e}]]
    BY <1>4
  <2>4. heard = [workers |-> workers, pending |-> pending, worker |-> worker,
                 hasher |-> [hasher EXCEPT ![w].events = @ \ {e}], promise |-> promise]
    BY <1>6 DEF Here
  <2>5. QED
    BY <1>9, <2>2, <2>3, <2>4
<1>11. /\ hx \in [1..n -> HasherState] /\ hx[w] = x
       /\ \A v \in 1..n \ {w} : hx[v] = hasher[v]
  <2> HIDE DEF x
  <2>1. QED
    BY <1>1, <1>2, <1>8, <1>9
<1>12. Here.worker = worker /\ Here.pending = pending /\ Here.promise = promise
  BY DEF Here
<1>13. CASE k.dead
  <2>1. Fits(k, x)
    BY <1>5, <1>13 DEF Fits
  <2>2. \A v \in 1..n : Fits(worker[v], hx[v])
    <3> HIDE DEF x
    <3>1. QED
      BY <1>1, <1>3, <1>11, <2>1
  <2>3. \A u \in Tasks : Placed(u, heard, {}) /\ (u > begun => promise[u] = "none")
    <3>1. \A u : PlacesOf(u, heard) = PlacesOf(u, Here) /\ HoldersOf(u, heard) = HoldersOf(u, Here) /\ heard.promise = Here.promise
      BY <1>10, <1>12 DEF PlacesOf, HoldersOf
    <3>2. QED
      BY <1>1, <3>1, PlacedElsewhere
  <2>4. PICK ws, p, kk, pr, many : ws = workers /\ p = pending /\ kk = worker /\ pr = promise /\ many = begun
    OBVIOUS
  <2>5. PoolCore(heard, {}, many)
    <3>1. /\ ws \in {<<>>} \cup [1..PoolSize -> 1..n] /\ (ws = <<>> => n = 0) /\ p \in Seq(Tasks)
          /\ kk \in [1..n -> WorkerState] /\ pr \in [Tasks -> Outcomes]
          /\ \A i \in DOMAIN ws : ~kk[ws[i]].dead
      BY <1>1, <2>4
    <3>2. QED
      BY ONLY n \in Nat, <1>10, <1>11, <2>2, <2>3, <2>4, <3>1, PoolCoreOf
  <2>6. NoneIdle(heard)
    BY <1>1, <1>10 DEF NoneIdle, IdleSlots, Here
  <2>7. DispatchNot(heard)
    BY <1>3, <1>6, <1>6a, <1>13 DEF FailAndRespawn
  <2>8. PoolCore(Here', {}, many) /\ NoneIdle(Here')
    BY <2>5, <2>6, <2>7, NotDispatched
  <2>9. QED
    BY <1>1, <1>7, <2>4, <2>8 DEF PoolInv
<1>14. CASE ~k.dead
  <2>1. Cardinality(Spawned) + 1 = n + 1
    <3>1. Spawned = 1..n
      BY <1>1 DEF Spawned
    <3>2. QED
      BY <3>1, FS_Interval
  <2>2. PICK new \in Nat : new = n + 1 /\ new = Cardinality(Spawned) + 1
    BY <2>1
  <2> DEFINE r == [idle |-> TRUE, current |-> None, dead |-> TRUE]
  <2>3. PICK wk, hz, ws, pr :
          /\ wk = [v \in Spawned \cup {new} |-> IF v = new THEN NewWorker ELSE IF v = w THEN r ELSE worker[v]]
          /\ hz = [v \in Spawned \cup {new} |-> IF v = new THEN NewHasher ELSE hx[v]]
          /\ ws = [i \in DOMAIN workers |-> IF workers[i] = w THEN new ELSE workers[i]]
          /\ pr = IF k.current = None THEN promise ELSE Settled(promise, k.current, "failed")
    OBVIOUS
  <2>4. PICK s : s = [heard EXCEPT
          !.worker = [v \in Spawned \cup {new} |-> IF v = new THEN NewWorker ELSE IF v = w THEN r ELSE @[v]],
          !.hasher = [v \in Spawned \cup {new} |-> IF v = new THEN NewHasher ELSE @[v]],
          !.workers = [i \in DOMAIN @ |-> IF @[i] = w THEN new ELSE @[i]],
          !.promise = IF k.current = None THEN @ ELSE Settled(@, k.current, "failed")]
    OBVIOUS
  <2>5. Dispatch(s)
    BY <1>3, <1>6, <1>6a, <1>14, <2>2, <2>4 DEF FailAndRespawn
  <2>6. s = [workers |-> ws, pending |-> pending, worker |-> wk, hasher |-> hz, promise |-> pr]
    BY <1>10, <2>3, <2>4
  <2>7. r \in WorkerState /\ NewWorker \in WorkerState /\ NewHasher \in HasherState
    BY DEF WorkerState, HasherState, NewWorker, NewHasher
  <2>8. Fits(r, x) /\ Fits(NewWorker, NewHasher)
    BY HashPoolAssumption DEF Fits, NewWorker, NewHasher, Messages
  <2>8a. 1..(n + 1) = (1..n) \cup {new} /\ new \notin 1..n /\ Spawned = 1..n
    BY <1>1, <2>2 DEF Spawned
  <2>9. /\ DOMAIN wk = 1..(n + 1) /\ wk[new] = NewWorker /\ wk[w] = r
        /\ \A v \in 1..n \ {w} : wk[v] = worker[v]
    <3> HIDE DEF r
    <3>1. QED
      BY <1>1, <1>2, <2>3, <2>8a
  <2>10. /\ DOMAIN hz = 1..(n + 1) /\ hz[new] = NewHasher /\ \A v \in 1..n : hz[v] = hx[v]
    <3> HIDE DEF x
    <3>1. QED
      BY <1>11, <2>3, <2>8a
  <2>11. wk \in [1..(n + 1) -> WorkerState] /\ hz \in [1..(n + 1) -> HasherState]
    <3> HIDE DEF r, x
    <3>1. /\ \A v \in 1..(n + 1) : wk[v] \in WorkerState /\ hz[v] \in HasherState
      BY <1>1, <1>11, <2>7, <2>8a, <2>9, <2>10
    <3>2. wk = [v \in 1..(n + 1) |-> wk[v]] /\ hz = [v \in 1..(n + 1) |-> hz[v]]
      BY <2>3, <2>9, <2>10
    <3>3. QED
      BY <3>1, <3>2
  <2>12. \A v \in 1..(n + 1) : Fits(wk[v], hz[v])
    <3> HIDE DEF r, x
    <3>1. QED
      BY <1>1, <1>11, <2>8, <2>8a, <2>9, <2>10
  <2>13. /\ workers \in [1..PoolSize -> 1..n] /\ workers # <<>>
    BY <1>1, <1>2
  <2>14. /\ ws \in [1..PoolSize -> 1..(n + 1)] /\ ws # <<>>
    <3>1. ws = [i \in 1..PoolSize |-> IF workers[i] = w THEN new ELSE workers[i]]
      BY <2>3, <2>13
    <3>2. 1 \in DOMAIN ws
      BY <3>1, HashPoolAssumption
    <3>3. QED
      BY <2>8a, <2>13, <3>1, <3>2
  <2>15. \A i \in DOMAIN ws : ~wk[ws[i]].dead
    <3>1. DOMAIN ws = 1..PoolSize
      BY <2>14
    <3>2. ASSUME NEW i \in 1..PoolSize
          PROVE  ~wk[ws[i]].dead
      <4>1. CASE workers[i] = w
        <5>1. ws[i] = new
          BY <2>3, <2>13, <4>1
        <5>2. QED
          BY <2>9, <5>1 DEF NewWorker
      <4>2. CASE workers[i] # w
        <5>1. ws[i] = workers[i] /\ workers[i] \in 1..n \ {w}
          BY <2>3, <2>13, <4>2
        <5>2. wk[ws[i]] = worker[workers[i]]
          <6> HIDE DEF r
          <6>1. QED
            BY <2>9, <5>1
        <5>3. QED
          BY <1>1, <2>13, <5>2
      <4>3. QED
        BY <4>1, <4>2
    <3>3. QED
      BY <3>1, <3>2
  <2>16. ASSUME NEW u \in Tasks
         PROVE  PlacesOf(u, s) = PlacesOf(u, Here) /\ HoldersOf(u, s) = HoldersOf(u, Here) \ {w}
    <3>1. PlacesOf(u, s) = PlacesOf(u, Here)
      BY <1>12, <2>6 DEF PlacesOf
    <3>2. r.current # u /\ NewWorker.current # u
      BY HashPoolAssumption DEF Tasks, NewWorker
    <3>3. HoldersOf(u, s) = {v \in 1..(n + 1) : wk[v].current = u} /\ HoldersOf(u, Here) = {v \in 1..n : worker[v].current = u}
      BY <1>1, <1>12, <2>6, <2>9 DEF HoldersOf
    <3> HIDE DEF r
    <3>4. {v \in 1..(n + 1) : wk[v].current = u} = {v \in 1..n : worker[v].current = u} \ {w}
      BY <1>2, <2>8a, <2>9, <3>2
    <3>5. QED
      BY <3>1, <3>3, <3>4
  <2>17. PICK a, many : a = Here /\ many = begun
    OBVIOUS
  <2>18. s.promise = pr
    BY <2>6
  <2>19. s.promise \in [Tasks -> Outcomes] /\ \A u \in Tasks : Placed(u, s, {}) /\ (u > many => s.promise[u] = "none")
    <3>1. CASE k.current = None
      <4>1. \A u \in Tasks : w \notin HoldersOf(u, Here)
        BY <1>3, <1>12, <3>1, HashPoolAssumption DEF HoldersOf, Tasks
      <4>2. s.promise = promise
        BY <2>3, <2>18, <3>1
      <4>3. \A u \in Tasks : PlacesOf(u, s) = PlacesOf(u, Here) /\ HoldersOf(u, s) = HoldersOf(u, Here) /\ s.promise[u] = Here.promise[u]
        BY <1>12, <2>16, <4>1, <4>2
      <4>4. \A u \in Tasks : Placed(u, s, {})
        BY <1>1, <4>3, PlacedElsewhere
      <4>5. QED
        BY <1>1, <2>17, <4>2, <4>4
    <3>2. CASE k.current # None
      <4>1. PICK t \in Tasks : t = k.current
        BY <3>2 DEF WorkerState
      <4>2. s.promise = Settled(promise, t, "failed")
        BY <2>3, <2>18, <3>2, <4>1
      <4>3. w \in HoldersOf(t, Here)
        BY <1>1, <1>2, <1>3, <1>12, <4>1 DEF HoldersOf
      <4>4. /\ a.promise \in [Tasks -> Outcomes] /\ w \in HoldersOf(t, a) /\ s.promise = Settled(a.promise, t, "failed")
            /\ \A u \in Tasks : Placed(u, a, {}) /\ (u > many => a.promise[u] = "none")
            /\ \A u \in Tasks : PlacesOf(u, s) = PlacesOf(u, a) /\ HoldersOf(u, s) = HoldersOf(u, a) \ {w}
        BY <1>1, <1>12, <2>16, <2>17, <4>2, <4>3
      <4>5. QED
        <5>1. PICK o \in {"hashed", "failed"} : o = "failed"
          OBVIOUS
        <5>2. s.promise = Settled(a.promise, t, o)
          BY <4>4, <5>1
        <5>3. QED
          BY ONLY <4>4, <5>2, t \in Tasks, SettleKeeps
    <3>3. QED
      BY <3>1, <3>2
  <2>20. PICK p : p = pending
    OBVIOUS
  <2>21. PoolCore(s, {}, many)
    <3>1. p \in Seq(Tasks)
      BY <1>1, <2>20
    <3>2. PICK next \in Nat : next = n + 1
      OBVIOUS
    <3>3. pr \in [Tasks -> Outcomes] /\ \A u \in Tasks : Placed(u, s, {}) /\ (u > many => pr[u] = "none")
      BY <2>18, <2>19
    <3>4. wk \in [1..next -> WorkerState] /\ hz \in [1..next -> HasherState]
      BY <2>11, <2>12, <2>14, <3>2
    <3>4a. \A v \in 1..next : Fits(wk[v], hz[v])
      BY <2>11, <2>12, <2>14, <3>2
    <3>4b. ws \in {<<>>} \cup [1..PoolSize -> 1..next] /\ (ws = <<>> => next = 0)
      BY <2>11, <2>12, <2>14, <3>2
    <3>5. s = [workers |-> ws, pending |-> p, worker |-> wk, hasher |-> hz, promise |-> pr]
      BY <2>6, <2>20
    <3>6. CoreParts(next, ws, p, wk, hz, pr, many, s)
      BY ONLY <3>5, <2>15, <3>1, <3>3, <3>4, <3>4a, <3>4b DEF CoreParts
    <3>7. QED
      BY ONLY next \in Nat, <3>6, PoolCoreFrom
  <2>22. PoolCore(Here', {}, many) /\ NoneIdle(Here')
    BY <2>5, <2>21, DispatchKeeps
  <2>23. QED
    BY <1>1, <1>7, <2>17, <2>22 DEF PoolInv
<1>15. QED
  BY <1>13, <1>14

LEMMA RunOnPoolKeeps ==
  ASSUME PoolInv, RunOnPool
  PROVE  PoolInv'
<1>1. PICK n \in Nat :
           /\ workers \in {<<>>} \cup [1..PoolSize -> 1..n] /\ (workers = <<>> => n = 0)
           /\ pending \in Seq(Tasks)
           /\ worker \in [1..n -> WorkerState] /\ hasher \in [1..n -> HasherState]
           /\ promise \in [Tasks -> Outcomes]
           /\ \A v \in 1..n : Fits(worker[v], hasher[v])
           /\ \A i \in DOMAIN workers : ~worker[workers[i]].dead
           /\ \A u \in Tasks : Placed(u, Here, {}) /\ (u > begun => promise[u] = "none")
           /\ NoneIdle(Here) /\ begun \in 0..MaxRequests
  BY PoolNow
<1>2. PICK t \in Tasks : t = begun + 1 /\ t = begun'
  BY <1>1, RequestsAssumption DEF RunOnPool, Tasks
<1>3. PICK many \in 0..MaxRequests : many = begun'
  BY <1>1, <1>2 DEF Tasks
<1>4. Here = [workers |-> workers, pending |-> pending, worker |-> worker, hasher |-> hasher, promise |-> promise]
  BY DEF Here
<1>5. PICK a : a = EnsurePool(Here)
  OBVIOUS
<1>6. PICK s : s = [a EXCEPT !.pending = Append(@, t), !.promise[t] = "waiting"]
  OBVIOUS
<1>7. Dispatch(s)
  BY <1>2, <1>5, <1>6 DEF RunOnPool
<1> DEFINE Made(next, ws, wk, hz) ==
        /\ a = [workers |-> ws, pending |-> pending, worker |-> wk, hasher |-> hz, promise |-> promise]
        /\ ws \in {<<>>} \cup [1..PoolSize -> 1..next] /\ (ws = <<>> => next = 0)
        /\ wk \in [1..next -> WorkerState] /\ hz \in [1..next -> HasherState]
        /\ \A v \in 1..next : Fits(wk[v], hz[v])
        /\ \A i \in DOMAIN ws : ~wk[ws[i]].dead
        /\ \A u \in Tasks : {v \in DOMAIN wk : wk[v].current = u} = HoldersOf(u, Here)
<1>8. \E next \in Nat : \E ws, wk, hz : Made(next, ws, wk, hz)
  <2>1. CASE workers # <<>>
    <3>1. a = Here
      BY <1>4, <1>5, <2>1 DEF EnsurePool
    <3>2. \A u : {v \in DOMAIN worker : worker[v].current = u} = HoldersOf(u, Here)
      BY <1>4 DEF HoldersOf
    <3>3. QED
      <4>1. Made(n, workers, worker, hasher)
        BY <1>1, <1>4, <3>1, <3>2
      <4> HIDE DEF Made
      <4>2. QED
        BY <4>1
  <2>2. CASE workers = <<>>
    <3>1. PICK ws, wk, hz :
            /\ ws = [i \in 1..PoolSize |-> i]
            /\ wk = [i \in 1..PoolSize |-> NewWorker]
            /\ hz = [i \in 1..PoolSize |-> NewHasher]
      OBVIOUS
    <3>2. a = [Here EXCEPT !.workers = ws, !.worker = wk, !.hasher = hz]
      BY <1>4, <1>5, <2>2, <3>1 DEF EnsurePool
    <3>3. a = [workers |-> ws, pending |-> pending, worker |-> wk, hasher |-> hz, promise |-> promise]
      BY <1>4, <3>2
    <3>4. NewWorker \in WorkerState /\ NewHasher \in HasherState /\ Fits(NewWorker, NewHasher) /\ ~NewWorker.dead
      BY HashPoolAssumption DEF WorkerState, HasherState, NewWorker, NewHasher, Fits, Messages
    <3>5. wk \in [1..PoolSize -> WorkerState] /\ hz \in [1..PoolSize -> HasherState]
      BY <3>1, <3>4
    <3>6. \A v \in 1..PoolSize : wk[v] = NewWorker /\ hz[v] = NewHasher /\ ws[v] = v
      BY <3>1
    <3>7. ws \in [1..PoolSize -> 1..PoolSize] /\ DOMAIN ws = 1..PoolSize /\ ws # <<>>
      <4>1. 1 \in DOMAIN ws
        BY <3>1, HashPoolAssumption
      <4>2. QED
        BY <3>1, <4>1
    <3>8. \A v \in 1..PoolSize : Fits(wk[v], hz[v])
      BY <3>4, <3>6
    <3>9. \A i \in DOMAIN ws : ~wk[ws[i]].dead
      BY <3>4, <3>6, <3>7
    <3>10. \A u \in Tasks : {v \in DOMAIN wk : wk[v].current = u} = HoldersOf(u, Here)
      <4>1. \A v \in DOMAIN wk : wk[v].current = None
        BY <3>1 DEF NewWorker
      <4>2. DOMAIN Here.worker = {}
        BY <1>1, <1>4, <2>2
      <4>3. QED
        BY <4>1, <4>2, HashPoolAssumption DEF HoldersOf, Tasks
    <3>11. PoolSize \in Nat
      BY HashPoolAssumption
    <3>12. QED
      <4>1. Made(PoolSize, ws, wk, hz)
        BY <3>3, <3>5, <3>7, <3>8, <3>9, <3>10
      <4> HIDE DEF Made
      <4>2. QED
        BY <3>11, <4>1
  <2>3. QED
    BY <2>1, <2>2
<1>9a. PICK next \in Nat : \E ws, wk, hz : Made(next, ws, wk, hz)
  BY <1>8
<1>9b. PICK ws, wk, hz : Made(next, ws, wk, hz)
  BY <1>9a
<1>9.   /\ a = [workers |-> ws, pending |-> pending, worker |-> wk, hasher |-> hz, promise |-> promise]
        /\ ws \in {<<>>} \cup [1..PoolSize -> 1..next] /\ (ws = <<>> => next = 0)
        /\ wk \in [1..next -> WorkerState] /\ hz \in [1..next -> HasherState]
        /\ \A v \in 1..next : Fits(wk[v], hz[v])
        /\ \A i \in DOMAIN ws : ~wk[ws[i]].dead
        /\ \A u \in Tasks : {v \in DOMAIN wk : wk[v].current = u} = HoldersOf(u, Here)
  BY <1>9b
<1>10. PICK p, pr : p = Append(pending, t) /\ pr = [promise EXCEPT ![t] = "waiting"]
  OBVIOUS
<1>11. s = [workers |-> ws, pending |-> p, worker |-> wk, hasher |-> hz, promise |-> pr]
  BY <1>6, <1>9, <1>10
<1>12. Placed(t, Here, {}) /\ promise[t] = "none"
  BY <1>1, <1>2
<1>13. PlacesOf(t, Here) = {} /\ HoldersOf(t, Here) = {}
  BY <1>4, <1>12 DEF Placed
<1>14. /\ p \in Seq(Tasks) /\ PlacesOf(t, s) = {Len(pending) + 1}
       /\ \A u \in Tasks \ {t} : PlacesOf(u, s) = PlacesOf(u, Here)
  <2>1. PICK b : b = Here
    OBVIOUS
  <2>2. b.pending = pending /\ s.pending = Append(b.pending, t) /\ s.pending = p
    BY <1>4, <1>10, <1>11, <2>1
  <2>3. b.pending \in Seq(Tasks)
    BY <1>1, <2>2
  <2>4. /\ \A u \in Tasks \ {t} : PlacesOf(u, s) = PlacesOf(u, b)
        /\ PlacesOf(t, s) = PlacesOf(t, b) \cup {Len(b.pending) + 1}
        /\ s.pending \in Seq(Tasks)
    BY <2>2, <2>3, PlacesAfterAppend, ZenonT(60)
  <2>5. QED
    BY <1>13, <2>1, <2>2, <2>4
<1>15. \A u \in Tasks : HoldersOf(u, s) = HoldersOf(u, Here)
  BY <1>9, <1>11 DEF HoldersOf
<1>16. pr \in [Tasks -> Outcomes] /\ pr[t] = "waiting" /\ \A u \in Tasks \ {t} : pr[u] = promise[u]
  BY <1>1, <1>10 DEF Outcomes
<1>17. ASSUME NEW u \in Tasks
       PROVE  Placed(u, s, {}) /\ (u > many => pr[u] = "none")
  <2>1. CASE u = t
    <3>1. s.promise[t] = "waiting"
      BY <1>11, <1>16
    <3>2. PlacesOf(u, s) = {Len(pending) + 1} /\ HoldersOf(u, s) = {}
      BY <1>13, <1>14, <1>15, <2>1
    <3>3. Placed(u, s, {})
      BY <2>1, <3>1, <3>2 DEF Placed
    <3>4. ~(u > many)
      BY <1>2, <1>3, <2>1 DEF Tasks
    <3>5. QED
      BY <3>3, <3>4
  <2>2. CASE u # t
    <3>1. s.promise[u] = Here.promise[u]
      BY <1>4, <1>11, <1>16, <2>2
    <3>2. Placed(u, s, {})
      BY <1>1, <1>14, <1>15, <2>2, <3>1, PlacedElsewhere
    <3>3. u > many => u > begun
      BY <1>1, <1>2, <1>3 DEF Tasks
    <3>4. QED
      BY <1>1, <1>16, <2>2, <3>2, <3>3
  <2>3. QED
    BY <2>1, <2>2
<1>18. p \in Seq(Tasks)
  BY <1>14
<1>19. pr \in [Tasks -> Outcomes]
  BY <1>16
<1>20. PoolCore(s, {}, many)
  <2>1. CoreParts(next, ws, p, wk, hz, pr, many, s)
    BY ONLY <1>9, <1>11, <1>17, <1>18, <1>19 DEF CoreParts
  <2>2. QED
    BY ONLY next \in Nat, <2>1, PoolCoreFrom
<1>21. PoolCore(Here', {}, many) /\ NoneIdle(Here')
  BY <1>7, <1>20, DispatchKeeps
<1>22. QED
  BY <1>3, <1>21 DEF PoolInv

LEMMA PoolStarts ==
  ASSUME PoolInit, RequestsInit
  PROVE  PoolInv
<1>1. Here = [workers |-> <<>>, pending |-> <<>>, worker |-> <<>>, hasher |-> <<>>, promise |-> promise]
  BY DEF PoolInit, Here
<1>2. PICK s : s = Here
  OBVIOUS
<1>3. promise = [t \in Tasks |-> "none"]
  BY DEF PoolInit
<1>4. s \in PoolStates(0)
  <2>1. <<>> \in [1..0 -> WorkerState] /\ <<>> \in [1..0 -> HasherState] /\ <<>> \in Seq(Tasks)
    OBVIOUS
  <2>2. promise \in [Tasks -> Outcomes]
    BY <1>3 DEF Outcomes
  <2>3. QED
    BY <1>1, <1>2, <2>1, <2>2 DEF PoolStates
<1>5. \A t \in Tasks : PlacesOf(t, s) = {} /\ HoldersOf(t, s) = {} /\ s.promise[t] = "none"
  BY <1>1, <1>2, <1>3 DEF PlacesOf, HoldersOf
<1>6. \A t \in Tasks : Placed(t, s, {})
  BY <1>5 DEF Placed
<1>7. s.workers = <<>> /\ s.worker = <<>> /\ s.pending = <<>>
  BY <1>1, <1>2
<1>8. PoolCore(s, {}, begun)
  BY <1>4, <1>5, <1>6, <1>7 DEF PoolCore
<1>9. QED
  BY <1>2, <1>7, <1>8, RequestsAssumption DEF PoolInv, NoneIdle, RequestsInit

\* The main thread's turns and the threads' steps keep the invariant.
LEMMA PoolStep ==
  ASSUME PoolInv, PoolNext
  PROVE  PoolInv'
<1>1. CASE RunOnPool
  BY <1>1, RunOnPoolKeeps
<1>2. ASSUME NEW w \in Spawned, OnMessage(w) \/ OnFailure(w) \/ HasherAnswers(w) \/ HasherStops(w)
      PROVE  PoolInv'
  BY <1>2, OnMessageKeeps, OnFailureKeeps, HasherAnswersKeeps, HasherStopsKeeps
<1>3. QED
  BY <1>1, <1>2 DEF PoolNext

LEMMA PoolStandsStill ==
  ASSUME PoolInv, UNCHANGED poolVars, UNCHANGED begun
  PROVE  PoolInv'
<1>1. Here' = Here
  BY DEF Here, poolVars
<1>2. QED
  BY <1>1 DEF PoolInv

\* A set with one member, and no other.
LEMMA OneMember ==
  ASSUME NEW S, NEW x \in S, \A y \in S : y = x
  PROVE  Cardinality(S) = 1
<1>1. S = {x}
  OBVIOUS
<1>2. QED
  BY <1>1, FS_Singleton

LEMMA PoolIsSound ==
  ASSUME PoolInv
  PROVE  PoolSound
<1>1. PICK n \in Nat :
           /\ workers \in {<<>>} \cup [1..PoolSize -> 1..n] /\ (workers = <<>> => n = 0)
           /\ pending \in Seq(Tasks)
           /\ worker \in [1..n -> WorkerState] /\ hasher \in [1..n -> HasherState]
           /\ promise \in [Tasks -> Outcomes]
           /\ \A v \in 1..n : Fits(worker[v], hasher[v])
           /\ \A i \in DOMAIN workers : ~worker[workers[i]].dead
           /\ \A u \in Tasks : Placed(u, Here, {}) /\ (u > begun => promise[u] = "none")
           /\ NoneIdle(Here) /\ begun \in 0..MaxRequests
  BY PoolNow
<1>2. /\ Here.worker = worker /\ Here.pending = pending /\ Here.promise = promise /\ Here.workers = workers
  BY DEF Here
<1>3. \A t : PlacesOf(t, Here) = {i \in DOMAIN pending : pending[i] = t} /\ HoldersOf(t, Here) = HeldBy(t)
  BY <1>2 DEF PlacesOf, HoldersOf, HeldBy, Spawned
<1>4. ASSUME NEW t \in Waiting
      PROVE  Cardinality({i \in DOMAIN pending : pending[i] = t}) + Cardinality(HeldBy(t)) = 1
  <2>1. t \in Tasks /\ Placed(t, Here, {}) /\ Here.promise[t] = "waiting"
    BY <1>1, <1>2 DEF Waiting
  <2>2. PICK P, H : P = PlacesOf(t, Here) /\ H = HoldersOf(t, Here)
    OBVIOUS
  <2>3. (P # {} \/ H # {}) /\ (\A i, j \in P : i = j) /\ (\A i, j \in H : i = j) /\ (P # {} => H = {})
    BY <2>1, <2>2 DEF Placed
  <2>4. Cardinality({}) = 0
    BY FS_EmptySet
  <2>5. Cardinality(P) + Cardinality(H) = 1
    <3>1. CASE P # {}
      <4>1. PICK i \in P : TRUE
        BY <3>1
      <4>2. Cardinality(P) = 1
        BY <2>3, OneMember
      <4>3. QED
        BY <2>3, <2>4, <3>1, <4>2
    <3>2. CASE P = {}
      <4>1. PICK i \in H : TRUE
        BY <2>3, <3>2
      <4>2. Cardinality(H) = 1
        BY <2>3, OneMember
      <4>3. QED
        BY <2>4, <3>2, <4>2
    <3>3. QED
      BY <3>1, <3>2
  <2>6. QED
    BY <1>3, <2>2, <2>5
<1>5. ASSUME NEW t \in Tasks, NEW w \in Spawned, w \in HeldBy(t)
      PROVE  t \in Waiting /\ (t \in hasher[w].inbox \/ hasher[w].events # {})
  <2>1. Here.promise[t] = "waiting"
    BY <1>1, <1>3, <1>5 DEF Placed
  <2>2. w \in 1..n /\ Fits(worker[w], hasher[w]) /\ worker[w].current = t /\ t # None
    BY <1>1, <1>5, HashPoolAssumption DEF HeldBy, Spawned, Tasks
  <2>3. ~worker[w].dead
    BY <2>2 DEF Fits
  <2>4. CASE hasher[w].runs
    BY <1>2, <2>1, <2>2, <2>3, <2>4 DEF Fits, Messages, Waiting
  <2>5. CASE ~hasher[w].runs
    BY <1>2, <2>1, <2>2, <2>3, <2>5 DEF Fits, Waiting
  <2>6. QED
    BY <2>4, <2>5
<1>6. pending # <<>> => \A i \in DOMAIN workers : ~worker[workers[i]].idle
  BY <1>1, <1>2 DEF NoneIdle, IdleSlots
<1>7. \A t \in Tasks : promise[t] \notin {"stale", "twice"}
  BY <1>1, <1>2 DEF Placed
<1>8. QED
  BY <1>4, <1>5, <1>6, <1>7 DEF PoolSound

\* No password check hangs, and none gets another's answer.
THEOREM NoCheckHangs == PoolSpec => []PoolSound
<1>1. PoolInit /\ RequestsInit => PoolInv
  BY PoolStarts
<1>2. PoolInv /\ [PoolNext]_<<poolVars, handlerVars>> => PoolInv'
  BY PoolStep, PoolStandsStill DEF handlerVars
<1>3. PoolInv => PoolSound
  BY PoolIsSound
<1>4. QED
  BY <1>1, <1>2, <1>3, PTL DEF PoolSpec
=============================================================================

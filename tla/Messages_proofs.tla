-------------------------- MODULE Messages_proofs ---------------------------
(***************************************************************************)
(* Proofs about Threads and Messaging, the two halves of the messages      *)
(* service, for any number of members, reps, sockets and requests.         *)
(***************************************************************************)
EXTENDS Threads, Messaging, SequenceTheorems, FiniteSetTheorems, TLAPS

-----------------------------------------------------------------------------
(* A group: its inductive invariant.                                       *)

Message == [by : Members, gone : BOOLEAN]
Membership == [in : {"never", "in", "left"}, admin : BOOLEAN, read : Nat]
Joining == {"memberships", "enter"}
ThreadAwaits ==
  {"store", "preview", "delete", "receipts", "lastRead", "add", "call", "remove"} \cup Joining

\* What a request at await p carries; the messages it has seen are among the first
\* so many there are.
ThreadCarry(p, r, many) ==
  /\ p \in ThreadAwaits => "user" \in DOMAIN r /\ r.user \in Members
  /\ p = "preview" => r.alone \in BOOLEAN /\ r.id \in 1..many /\ {"id", "alone"} \subseteq DOMAIN r
  /\ p = "delete" => r.id \in 1..many
  /\ p = "receipts" => r.seen \in 0..many /\ {"unread", "seen", "at", "late"} \subseteq DOMAIN r
  /\ p = "lastRead" => r.at \in 0..many
  /\ p \in Joining => "socket" \in DOMAIN r
  /\ p = "enter" => r.in \in BOOLEAN

ThreadRows ==
  /\ thread \in Seq(Message)
  /\ member \in [Members -> Membership]
  /\ \A u \in Members : member[u].read <= Len(thread)
  /\ DOMAIN socket = Members

ThreadRequests ==
  /\ pc \in [Handlers -> ThreadAwaits \cup {"idle"}]
  /\ DOMAIN local = Handlers
  /\ begun \in Nat
  /\ \A h \in Handlers : ThreadCarry(pc[h], local[h], Len(thread))

\* A send that nobody overlaps is about to show the newest message.
Previews ==
  /\ Busy({"preview"}) = {} /\ ~behind => preview = Len(thread)
  /\ \A h \in Handlers : pc[h] = "preview" /\ local[h].alone =>
       local[h].id = Len(thread) /\ Previewing(h) = {}

\* u has been asked for, or needs no receipt of, message n.
Told(u, n) == thread[n].by = u \/ thread[n].gone \/ <<u, n>> \in receipts \cup skipped

\* What is not counted as unread, or soon will not be, is accounted for.
Readings == \A u \in Members :
  /\ \A n \in 1..member[u].read : Told(u, n)
  /\ \A h \in Handlers : pc[h] = "receipts" /\ local[h].user = u =>
       \A n \in 1..local[h].seen : Told(u, n) \/ n \in local[h].unread
  /\ \A h \in Handlers : pc[h] = "lastRead" /\ local[h].user = u =>
       \A n \in 1..local[h].at : Told(u, n) \/ n \in local[h].late

\* h will put the socket that u has open into the room.
Calls(h, u) ==
  /\ pc[h] \in Joining \cup {"call"} /\ local[h].user = u
  /\ pc[h] \in Joining => local[h].socket = socket[u]
  /\ pc[h] = "enter" => local[h].in

Rooms == \A u \in Members : In(u) /\ socket[u] # 0 =>
  u \in room \cup deaf \/ \E h \in Handlers : Calls(h, u)

ThreadTypes == ThreadRows /\ ThreadRequests
ThreadInv == ThreadTypes /\ Previews /\ Readings /\ Rooms

-----------------------------------------------------------------------------
(* The steps the actions are built from.                                   *)

\* A step of one request leaves the others alone.
Elsewhere(h) == \A g \in Handlers \ {h} : pc'[g] = pc[g] /\ local'[g] = local[g]

LEMMA CarryMore ==
  ASSUME NEW p, NEW r, NEW m \in Nat, NEW n \in Nat, m <= n, ThreadCarry(p, r, m)
  PROVE  ThreadCarry(p, r, n)
  BY DEF ThreadCarry

LEMMA ThreadLength ==
  ASSUME ThreadRows
  PROVE  /\ Len(thread) \in Nat /\ DOMAIN thread = 1..Len(thread)
         /\ \A n \in 1..Len(thread) : thread[n] \in Message
         /\ \A u \in Members : member[u].read \in 0..Len(thread)
  BY DEF ThreadRows, Membership

LEMMA BeginThread ==
  ASSUME ThreadTypes, NEW h \in Handlers, NEW await \in ThreadAwaits, NEW c, Begin(h, await, c),
         ThreadCarry(await, c, Len(thread)), thread' = thread
  PROVE  /\ ThreadRequests' /\ Elsewhere(h)
         /\ pc[h] = "idle" /\ pc'[h] = await /\ local'[h] = c /\ begun' = begun + 1
  BY DEF ThreadTypes, ThreadRequests, Begin, Elsewhere

LEMMA AnswerThread ==
  ASSUME ThreadTypes, NEW h \in Handlers, Answer(h), Len(thread') = Len(thread)
  PROVE  ThreadRequests' /\ Elsewhere(h) /\ pc'[h] = "idle"
  <1>1. ThreadCarry("idle", Nothing, Len(thread))
    BY DEF ThreadCarry, ThreadAwaits, Joining
  <1>2. QED
    BY <1>1 DEF ThreadTypes, ThreadRequests, Answer, Elsewhere

LEMMA GotoThread ==
  ASSUME ThreadTypes, NEW h \in Handlers, NEW await \in ThreadAwaits, Goto(h, await),
         ThreadCarry(await, local[h], Len(thread)), thread' = thread
  PROVE  /\ ThreadRequests' /\ Elsewhere(h)
         /\ pc'[h] = await /\ local'[h] = local[h]
  BY DEF ThreadTypes, ThreadRequests, Goto, Elsewhere

LEMMA CarryThread ==
  ASSUME ThreadTypes, NEW h \in Handlers, NEW await \in ThreadAwaits, NEW more, Carry(h, await, more),
         ThreadCarry(await, With(more, local[h]), Len(thread)), thread' = thread
  PROVE  /\ ThreadRequests' /\ Elsewhere(h)
         /\ pc'[h] = await /\ local'[h] = With(more, local[h])
  BY DEF ThreadTypes, ThreadRequests, Carry, Elsewhere

LEMMA FramePreviews ==
  ASSUME Previews, NEW h \in Handlers, Elsewhere(h), Len(thread') = Len(thread),
         preview' = preview, ~behind' => ~behind, pc[h] # "preview", pc'[h] # "preview"
  PROVE  Previews'
  <1>1. \A g \in Handlers : (pc'[g] = "preview" <=> pc[g] = "preview")
                            /\ (pc[g] = "preview" => local'[g] = local[g])
    BY DEF Elsewhere
  <1>2. Busy({"preview"})' = Busy({"preview"})
    BY <1>1 DEF Busy
  <1>3. \A g \in Handlers : Previewing(g)' = Previewing(g)
    BY <1>1 DEF Previewing
  <1>4. QED
    BY <1>1, <1>2, <1>3 DEF Previews

\* What a member has been told stays told.
ToldKept == \A u \in Members : \A n \in 1..Len(thread) : Told(u, n) => Told(u, n)'

LEMMA FrameReadings ==
  ASSUME ThreadTypes, Readings, NEW h \in Handlers, Elsewhere(h), ToldKept,
         \A u \in Members : member'[u].read = member[u].read, pc'[h] \notin {"receipts", "lastRead"}
  PROVE  Readings'
  <1> SUFFICES ASSUME NEW u \in Members
               PROVE  /\ \A n \in 1..member'[u].read : Told(u, n)'
                      /\ \A g \in Handlers : pc'[g] = "receipts" /\ local'[g].user = u =>
                           \A n \in 1..local'[g].seen : Told(u, n)' \/ n \in local'[g].unread
                      /\ \A g \in Handlers : pc'[g] = "lastRead" /\ local'[g].user = u =>
                           \A n \in 1..local'[g].at : Told(u, n)' \/ n \in local'[g].late
    BY DEF Readings
  <1>0. /\ \A n \in 0..Len(thread) : 1..n \subseteq 1..Len(thread)
        /\ member[u].read \in 0..Len(thread)
    BY ThreadLength DEF ThreadTypes
  <1>1. ASSUME NEW n \in 1..member'[u].read
        PROVE  Told(u, n)'
    BY <1>0, <1>1 DEF Readings, ToldKept
  <1>2. ASSUME NEW g \in Handlers, pc'[g] = "receipts", local'[g].user = u, NEW n \in 1..local'[g].seen
        PROVE  Told(u, n)' \/ n \in local'[g].unread
    <2>1. pc[g] = "receipts" /\ local'[g] = local[g]
      BY <1>2 DEF Elsewhere
    <2>2. local[g].seen \in 0..Len(thread)
      BY <2>1 DEF ThreadTypes, ThreadRequests, ThreadCarry
    <2>3. n \in 1..Len(thread) /\ (Told(u, n) \/ n \in local[g].unread)
      BY <1>0, <1>2, <2>1, <2>2 DEF Readings
    <2>4. QED
      BY <2>1, <2>3 DEF ToldKept
  <1>3. ASSUME NEW g \in Handlers, pc'[g] = "lastRead", local'[g].user = u, NEW n \in 1..local'[g].at
        PROVE  Told(u, n)' \/ n \in local'[g].late
    <2>1. pc[g] = "lastRead" /\ local'[g] = local[g]
      BY <1>3 DEF Elsewhere
    <2>2. local[g].at \in 0..Len(thread)
      BY <2>1 DEF ThreadTypes, ThreadRequests, ThreadCarry
    <2>3. n \in 1..Len(thread) /\ (Told(u, n) \/ n \in local[g].late)
      BY <1>0, <1>3, <2>1, <2>2 DEF Readings
    <2>4. QED
      BY <2>1, <2>3 DEF ToldKept
  <1>4. QED
    BY <1>1, <1>2, <1>3

LEMMA ToldStays ==
  ASSUME thread' = thread, receipts \subseteq receipts', skipped \subseteq skipped'
  PROVE  ToldKept
  BY DEF ToldKept, Told

LEMMA FrameRooms ==
  ASSUME Rooms, NEW h \in Handlers, Elsewhere(h), \A u \in Members : In(u)' => In(u),
         socket' = socket, room \subseteq room', deaf \subseteq deaf',
         \A u \in Members : Calls(h, u) => Calls(h, u)' \/ u \in room' \cup deaf'
  PROVE  Rooms'
  <1> SUFFICES ASSUME NEW u \in Members, In(u)', socket'[u] # 0
               PROVE  u \in room' \cup deaf' \/ \E g \in Handlers : Calls(g, u)'
    BY DEF Rooms
  <1>1. u \in room \cup deaf \/ \E g \in Handlers : Calls(g, u)
    BY DEF Rooms
  <1>2. ASSUME NEW g \in Handlers \ {h}, Calls(g, u)
        PROVE  Calls(g, u)'
    BY <1>2 DEF Calls, Elsewhere
  <1>3. QED
    BY <1>1, <1>2

-----------------------------------------------------------------------------
(* The actions on a group.                                                 *)

\* A request begins, and nothing else happens.
LEMMA PlainBegin ==
  ASSUME ThreadInv, NEW h \in Handlers, NEW await \in {"store", "delete", "add", "remove", "memberships"},
         NEW c, Begin(h, await, c), ThreadCarry(await, c, Len(thread)), UNCHANGED threadsVars
  PROVE  ThreadInv'
  <1>0. /\ ThreadTypes /\ ThreadRows /\ Previews /\ Readings /\ Rooms
        /\ UNCHANGED <<thread, preview, member, receipts, socket, room, behind, skipped, deaf>>
    BY DEF ThreadInv, ThreadTypes, threadsVars
  <1>1. /\ ThreadRequests' /\ Elsewhere(h)
        /\ pc[h] = "idle" /\ pc'[h] = await /\ local'[h] = c
    BY <1>0, BeginThread DEF ThreadAwaits, Joining
  <1>2. Previews'
    BY <1>0, <1>1, FramePreviews
  <1>3. Readings'
    BY <1>0, <1>1, ToldStays, FrameReadings
  <1>4. \A u \in Members : ~Calls(h, u) /\ (In(u)' => In(u))
    BY <1>0, <1>1 DEF Calls, Joining, In
  <1>5. Rooms'
    BY <1>0, <1>1, <1>4, FrameRooms
  <1>6. ThreadRows'
    BY <1>0 DEF ThreadRows
  <1>7. QED
    BY <1>1, <1>2, <1>3, <1>5, <1>6 DEF ThreadInv, ThreadTypes

LEMMA BeginsStep ==
  ASSUME ThreadInv, NEW h \in Handlers,
         SendCheck(h) \/ DeleteCheck(h) \/ AddFind(h) \/ RemoveCheck(h) \/ ConversationJoin(h)
  PROVE  ThreadInv'
  <1>0. DOMAIN thread = 1..Len(thread)
    BY ThreadLength DEF ThreadInv, ThreadTypes
  <1>1. CASE SendCheck(h)
    <2>1. PICK u \in Members : Begin(h, "store", [user |-> u]) /\ UNCHANGED threadsVars
      BY <1>1 DEF SendCheck
    <2>2. ThreadCarry("store", [user |-> u], Len(thread))
      BY DEF ThreadCarry, Joining
    <2>3. QED
      BY <2>1, <2>2, PlainBegin
  <1>2. CASE DeleteCheck(h)
    <2>1. PICK u \in Members, n \in DOMAIN thread :
            Begin(h, "delete", [user |-> u, id |-> n]) /\ UNCHANGED threadsVars
      BY <1>2 DEF DeleteCheck
    <2>2. ThreadCarry("delete", [user |-> u, id |-> n], Len(thread))
      BY <1>0 DEF ThreadCarry, Joining
    <2>3. QED
      BY <2>1, <2>2, PlainBegin
  <1>3. CASE AddFind(h)
    <2>1. PICK u \in Members : Begin(h, "add", [user |-> u, was |-> member[u].in]) /\ UNCHANGED threadsVars
      BY <1>3 DEF AddFind
    <2>2. ThreadCarry("add", [user |-> u, was |-> member[u].in], Len(thread))
      BY DEF ThreadCarry, Joining
    <2>3. QED
      BY <2>1, <2>2, PlainBegin
  <1>4. CASE RemoveCheck(h)
    <2>1. PICK u \in Members : Begin(h, "remove", [user |-> u]) /\ UNCHANGED threadsVars
      BY <1>4 DEF RemoveCheck
    <2>2. ThreadCarry("remove", [user |-> u], Len(thread))
      BY DEF ThreadCarry, Joining
    <2>3. QED
      BY <2>1, <2>2, PlainBegin
  <1>5. CASE ConversationJoin(h)
    <2>1. PICK u \in Members :
            Begin(h, "memberships", [user |-> u, socket |-> socket[u]]) /\ UNCHANGED threadsVars
      BY <1>5 DEF ConversationJoin
    <2>2. ThreadCarry("memberships", [user |-> u, socket |-> socket[u]], Len(thread))
      BY DEF ThreadCarry, Joining
    <2>3. QED
      BY <2>1, <2>2, PlainBegin
  <1>6. QED
    BY <1>1, <1>2, <1>3, <1>4, <1>5

LEMMA SendCreateStep ==
  ASSUME ThreadInv, NEW h \in Handlers, SendCreate(h)
  PROVE  ThreadInv'
  <1> DEFINE u0 == local[h].user  n0 == Len(thread) + 1
  <1>0. /\ ThreadTypes /\ ThreadRows /\ ThreadRequests /\ Previews /\ Readings /\ Rooms
        /\ UNCHANGED <<begun, preview, member, receipts, socket, room, behind, skipped, deaf>>
        /\ Len(thread) \in Nat /\ thread \in Seq(Message) /\ pc[h] = "store"
    BY ThreadLength DEF ThreadInv, ThreadTypes, ThreadRows, SendCreate
  <1>1. u0 \in Members
    BY <1>0 DEF ThreadRequests, ThreadCarry, ThreadAwaits
  <1>2. PICK m : m = [by |-> u0, gone |-> FALSE]
    OBVIOUS
  <1>3. thread' = Append(thread, m) /\ m \in Message
    BY <1>1, <1>2 DEF SendCreate, Message
  <1>4. /\ thread' \in Seq(Message) /\ Len(thread') = n0
        /\ \A n \in 1..Len(thread) : thread'[n] = thread[n]
    BY <1>0, <1>3
  <1>5. PICK b \in BOOLEAN : b = (Previewing(h) = {})
    OBVIOUS
  <1>6. PICK w : w = [user |-> u0, id |-> n0, alone |-> b]
    OBVIOUS
  <1>7. ThreadCarry("preview", w, n0) /\ w.id = n0 /\ w.alone = b
    BY <1>0, <1>1, <1>6 DEF ThreadCarry, Joining
  <1>8. /\ pc' = [pc EXCEPT ![h] = "preview"]
        /\ local' = [g \in Handlers |->
             IF g = h THEN w
             ELSE IF g \in Previewing(h) THEN [local[g] EXCEPT !.alone = FALSE] ELSE local[g]]
    BY <1>5, <1>6 DEF SendCreate
  <1>9. /\ pc'[h] = "preview" /\ local'[h] = w
        /\ \A g \in Handlers \ {h} : pc'[g] = pc[g]
        /\ \A g \in Handlers \ {h} : pc[g] # "preview" => local'[g] = local[g]
    BY <1>0, <1>8 DEF ThreadRequests, Previewing
  <1>10. ASSUME NEW g \in Handlers \ {h}, pc[g] = "preview"
         PROVE  ThreadCarry("preview", local'[g], n0) /\ local'[g].alone = FALSE
    <2>1. local'[g] = [local[g] EXCEPT !.alone = FALSE]
      BY <1>8, <1>10 DEF Previewing
    <2>2. ThreadCarry("preview", local[g], Len(thread))
      BY <1>0, <1>10 DEF ThreadRequests
    <2>3. {"user", "id", "alone"} \subseteq DOMAIN local[g]
      BY <2>2 DEF ThreadCarry, ThreadAwaits
    <2>4. /\ local'[g].alone = FALSE /\ local'[g].id = local[g].id /\ local'[g].user = local[g].user
          /\ {"user", "id", "alone"} \subseteq DOMAIN local'[g]
      BY <2>1, <2>3
    <2>5. local[g].id \in 1..Len(thread) /\ local[g].user \in Members
      BY <2>2 DEF ThreadCarry, ThreadAwaits
    <2>6. local'[g].id \in 1..n0 /\ local'[g].user \in Members
      BY <1>0, <2>4, <2>5
    <2>7. local'[g].alone \in BOOLEAN
      BY <2>4
    <2>8. QED
      BY <2>4, <2>6, <2>7 DEF ThreadCarry, Joining
  <1>11. ThreadRequests'
    <2>1. /\ pc' \in [Handlers -> ThreadAwaits \cup {"idle"}]
          /\ DOMAIN local' = Handlers /\ begun' \in Nat
      BY <1>0, <1>8 DEF ThreadRequests, ThreadAwaits
    <2>2. ASSUME NEW g \in Handlers
          PROVE  ThreadCarry(pc'[g], local'[g], Len(thread'))
      <3>1. ThreadCarry(pc[g], local[g], n0)
        BY <1>0, CarryMore DEF ThreadRequests
      <3>2. QED
        BY <1>4, <1>7, <1>9, <1>10, <3>1
    <2>3. QED
      BY <2>1, <2>2 DEF ThreadRequests
  <1>12. ThreadRows'
    <2>1. \A u \in Members : member'[u].read <= Len(thread')
      BY <1>0, <1>4, ThreadLength
    <2>2. QED
      BY <1>0, <1>4, <2>1 DEF ThreadRows
  <1>13. Previews'
    <2>1. h \in Busy({"preview"})'
      BY <1>9 DEF Busy
    <2>2. ASSUME NEW g \in Handlers, pc'[g] = "preview", local'[g].alone
          PROVE  local'[g].id = Len(thread') /\ Previewing(g)' = {}
      <3>1. g = h
        BY <1>9, <1>10, <2>2
      <3>2. Previewing(h) = {}
        BY <1>5, <1>7, <1>9, <2>2, <3>1
      <3>3. Previewing(h)' = {}
        BY <1>9, <3>2 DEF Previewing
      <3>4. QED
        BY <1>4, <1>7, <1>9, <3>1, <3>3
    <2>3. QED
      BY <2>1, <2>2 DEF Previews
  <1>14. ASSUME NEW u \in Members
         PROVE  \A n \in 1..Len(thread) : Told(u, n)' <=> Told(u, n)
    BY <1>0, <1>4 DEF Told
  <1>15. Readings'
    <2> SUFFICES ASSUME NEW u \in Members
                 PROVE  /\ \A n \in 1..member'[u].read : Told(u, n)'
                        /\ \A g \in Handlers : pc'[g] = "receipts" /\ local'[g].user = u =>
                             \A n \in 1..local'[g].seen : Told(u, n)' \/ n \in local'[g].unread
                        /\ \A g \in Handlers : pc'[g] = "lastRead" /\ local'[g].user = u =>
                             \A n \in 1..local'[g].at : Told(u, n)' \/ n \in local'[g].late
      BY DEF Readings
    <2>0. \A n \in 0..Len(thread) : 1..n \subseteq 1..Len(thread)
      BY <1>0
    <2>1. \A n \in 1..member'[u].read : Told(u, n)'
      <3>1. member[u].read \in 0..Len(thread) /\ member'[u].read = member[u].read
        BY <1>0, ThreadLength
      <3>2. QED
        BY <1>0, <1>14, <2>0, <3>1 DEF Readings
    <2>2. ASSUME NEW g \in Handlers, pc'[g] = "receipts", local'[g].user = u, NEW n \in 1..local'[g].seen
          PROVE  Told(u, n)' \/ n \in local'[g].unread
      <3>1. pc[g] = "receipts" /\ local'[g] = local[g]
        BY <1>9, <2>2
      <3>2. local[g].seen \in 0..Len(thread)
        BY <1>0, <3>1 DEF ThreadRequests, ThreadCarry
      <3>3. n \in 1..Len(thread) /\ (Told(u, n) \/ n \in local[g].unread)
        BY <1>0, <2>0, <2>2, <3>1, <3>2 DEF Readings
      <3>4. QED
        BY <1>14, <3>1, <3>3
    <2>3. ASSUME NEW g \in Handlers, pc'[g] = "lastRead", local'[g].user = u, NEW n \in 1..local'[g].at
          PROVE  Told(u, n)' \/ n \in local'[g].late
      <3>1. pc[g] = "lastRead" /\ local'[g] = local[g]
        BY <1>9, <2>3
      <3>2. local[g].at \in 0..Len(thread)
        BY <1>0, <3>1 DEF ThreadRequests, ThreadCarry
      <3>3. n \in 1..Len(thread) /\ (Told(u, n) \/ n \in local[g].late)
        BY <1>0, <2>0, <2>3, <3>1, <3>2 DEF Readings
      <3>4. QED
        BY <1>14, <3>1, <3>3
    <2>4. QED
      BY <2>1, <2>2, <2>3
  <1>16. Rooms'
    <2> SUFFICES ASSUME NEW u \in Members, In(u)', socket'[u] # 0
                 PROVE  u \in room' \cup deaf' \/ \E g \in Handlers : Calls(g, u)'
      BY DEF Rooms
    <2>1. In(u) /\ socket[u] # 0
      BY <1>0 DEF In
    <2>2. ASSUME NEW g \in Handlers, Calls(g, u)
          PROVE  Calls(g, u)'
      <3>1. g # h /\ pc[g] # "preview"
        BY <1>0, <2>2 DEF Calls, Joining
      <3>2. pc'[g] = pc[g] /\ local'[g] = local[g] /\ socket' = socket
        BY <1>0, <1>9, <3>1
      <3>3. QED
        BY <2>2, <3>2 DEF Calls
    <2>3. QED
      BY <1>0, <2>1, <2>2 DEF Rooms
  <1>17. QED
    BY <1>11, <1>12, <1>13, <1>15, <1>16 DEF ThreadInv, ThreadTypes

LEMMA SendPreviewStep ==
  ASSUME ThreadInv, NEW h \in Handlers, SendPreview(h)
  PROVE  ThreadInv'
  <1>0. /\ ThreadTypes /\ ThreadRows /\ ThreadRequests /\ Previews /\ Readings /\ Rooms
        /\ UNCHANGED <<thread, member, receipts, socket, room, skipped, deaf>>
        /\ pc[h] = "preview" /\ preview' = local[h].id /\ Answer(h)
    BY DEF ThreadInv, ThreadTypes, SendPreview
  <1>1. ThreadRequests' /\ Elsewhere(h) /\ pc'[h] = "idle"
    BY <1>0, AnswerThread
  <1>2. PICK b \in BOOLEAN : b = local[h].alone
    BY <1>0 DEF ThreadRequests, ThreadCarry
  <1>3. behind' = ~b
    BY <1>2 DEF SendPreview
  <1>4. Previews'
    <2>1. b => local[h].id = Len(thread) /\ Previewing(h) = {}
      BY <1>0, <1>2 DEF Previews
    <2>2. ~behind' => preview' = Len(thread')
      BY <1>0, <1>3, <2>1
    <2>3. ASSUME NEW g \in Handlers, pc'[g] = "preview", local'[g].alone
          PROVE  local'[g].id = Len(thread') /\ Previewing(g)' = {}
      <3>1. g # h /\ pc[g] = "preview" /\ local'[g] = local[g]
        BY <1>1, <2>3 DEF Elsewhere
      <3>2. Previewing(g) = {} /\ local[g].id = Len(thread)
        BY <1>0, <2>3, <3>1 DEF Previews
      <3>3. Previewing(g)' = {}
        BY <1>0, <3>1, <3>2 DEF Previewing
      <3>4. QED
        BY <1>0, <3>1, <3>2, <3>3
    <2>4. QED
      BY <2>2, <2>3 DEF Previews
  <1>5. Readings'
    BY <1>0, <1>1, ToldStays, FrameReadings
  <1>6. \A u \in Members : ~Calls(h, u) /\ (In(u)' => In(u))
    BY <1>0 DEF Calls, Joining, In
  <1>7. Rooms'
    BY <1>0, <1>1, <1>6, FrameRooms
  <1>8. ThreadRows'
    BY <1>0 DEF ThreadRows
  <1>9. QED
    BY <1>1, <1>4, <1>5, <1>7, <1>8 DEF ThreadInv, ThreadTypes

LEMMA DeleteMessageStep ==
  ASSUME ThreadInv, NEW h \in Handlers, DeleteMessage(h)
  PROVE  ThreadInv'
  <1>0. /\ ThreadTypes /\ ThreadRows /\ ThreadRequests /\ Previews /\ Readings /\ Rooms
        /\ UNCHANGED <<preview, member, receipts, socket, room, behind, skipped, deaf>>
        /\ pc[h] = "delete" /\ Answer(h) /\ thread \in Seq(Message)
    BY DEF ThreadInv, ThreadTypes, ThreadRows, DeleteMessage
  <1>1. PICK i \in 1..Len(thread) : i = local[h].id
    BY <1>0 DEF ThreadRequests, ThreadCarry
  <1>2. thread' = [thread EXCEPT ![i].gone = TRUE]
    BY <1>1 DEF DeleteMessage
  <1>3. PICK m : m = [thread[i] EXCEPT !.gone = TRUE]
    OBVIOUS
  <1>4. m \in Message /\ m.gone = TRUE
    BY <1>0, <1>3, ThreadLength DEF Message
  <1>5. thread' = [thread EXCEPT ![i] = m]
    BY <1>2, <1>3
  <1>6. /\ thread' \in Seq(Message) /\ Len(thread') = Len(thread)
        /\ thread'[i] = m /\ \A n \in 1..Len(thread) : n # i => thread'[n] = thread[n]
    BY <1>0, <1>4, <1>5
  <1>7. ThreadRequests' /\ Elsewhere(h) /\ pc'[h] = "idle"
    BY <1>0, <1>6, AnswerThread
  <1>8. Previews'
    BY <1>0, <1>6, <1>7, FramePreviews
  <1>9. ToldKept
    <2> SUFFICES ASSUME NEW u \in Members, NEW n \in 1..Len(thread), Told(u, n)
                 PROVE  Told(u, n)'
      BY DEF ToldKept
    <2>1. CASE n = i
      BY <1>4, <1>6, <2>1 DEF Told
    <2>2. CASE n # i
      BY <1>0, <1>6, <2>2 DEF Told
    <2>3. QED
      BY <2>1, <2>2
  <1>10. Readings'
    BY <1>0, <1>7, <1>9, FrameReadings
  <1>11. \A u \in Members : ~Calls(h, u) /\ (In(u)' => In(u))
    BY <1>0 DEF Calls, Joining, In
  <1>12. Rooms'
    BY <1>0, <1>7, <1>11, FrameRooms
  <1>13. ThreadRows'
    BY <1>0, <1>6 DEF ThreadRows
  <1>14. QED
    BY <1>7, <1>8, <1>10, <1>12, <1>13 DEF ThreadInv, ThreadTypes

\* A reading begins, or goes on to note its time.
LEMMA NewReading ==
  ASSUME ThreadInv, NEW h \in Handlers, NEW u0 \in Members, NEW r,
         Elsewhere(h), ThreadRequests', pc[h] \in {"idle", "receipts"}, pc'[h] \in {"receipts", "lastRead"},
         local'[h] = r, r.user = u0, receipts \subseteq receipts',
         UNCHANGED <<thread, preview, member, socket, room, behind, skipped, deaf>>,
         pc'[h] = "receipts" => \A n \in 1..r.seen : Told(u0, n)' \/ n \in r.unread,
         pc'[h] = "lastRead" => \A n \in 1..r.at : Told(u0, n)' \/ n \in r.late
  PROVE  ThreadInv'
  <1>0. ThreadTypes /\ ThreadRows /\ ThreadRequests /\ Previews /\ Readings /\ Rooms
    BY DEF ThreadInv, ThreadTypes
  <1>1. Previews'
    BY <1>0, FramePreviews
  <1>2. \A u \in Members, n \in 1..Len(thread) : Told(u, n) => Told(u, n)'
    BY ToldStays DEF ToldKept
  <1>3. Readings'
    <2> SUFFICES ASSUME NEW u \in Members
                 PROVE  /\ \A n \in 1..member'[u].read : Told(u, n)'
                        /\ \A g \in Handlers : pc'[g] = "receipts" /\ local'[g].user = u =>
                             \A n \in 1..local'[g].seen : Told(u, n)' \/ n \in local'[g].unread
                        /\ \A g \in Handlers : pc'[g] = "lastRead" /\ local'[g].user = u =>
                             \A n \in 1..local'[g].at : Told(u, n)' \/ n \in local'[g].late
      BY DEF Readings
    <2>0. /\ \A n \in 0..Len(thread) : 1..n \subseteq 1..Len(thread)
          /\ member[u].read \in 0..Len(thread)
      BY <1>0, ThreadLength
    <2>1. \A n \in 1..member'[u].read : Told(u, n)'
      BY <1>0, <1>2, <2>0 DEF Readings
    <2>2. ASSUME NEW g \in Handlers, pc'[g] = "receipts", local'[g].user = u, NEW n \in 1..local'[g].seen
          PROVE  Told(u, n)' \/ n \in local'[g].unread
      <3>1. CASE g = h
        BY <2>2, <3>1
      <3>2. CASE g # h
        <4>1. pc[g] = "receipts" /\ local'[g] = local[g]
          BY <2>2, <3>2 DEF Elsewhere
        <4>2. local[g].seen \in 0..Len(thread)
          BY <1>0, <4>1 DEF ThreadRequests, ThreadCarry
        <4>3. n \in 1..Len(thread) /\ (Told(u, n) \/ n \in local[g].unread)
          BY <1>0, <2>0, <2>2, <4>1, <4>2 DEF Readings
        <4>4. QED
          BY <1>2, <4>1, <4>3
      <3>3. QED
        BY <3>1, <3>2
    <2>3. ASSUME NEW g \in Handlers, pc'[g] = "lastRead", local'[g].user = u, NEW n \in 1..local'[g].at
          PROVE  Told(u, n)' \/ n \in local'[g].late
      <3>1. CASE g = h
        BY <2>3, <3>1
      <3>2. CASE g # h
        <4>1. pc[g] = "lastRead" /\ local'[g] = local[g]
          BY <2>3, <3>2 DEF Elsewhere
        <4>2. local[g].at \in 0..Len(thread)
          BY <1>0, <4>1 DEF ThreadRequests, ThreadCarry
        <4>3. n \in 1..Len(thread) /\ (Told(u, n) \/ n \in local[g].late)
          BY <1>0, <2>0, <2>3, <4>1, <4>2 DEF Readings
        <4>4. QED
          BY <1>2, <4>1, <4>3
      <3>3. QED
        BY <3>1, <3>2
    <2>4. QED
      BY <2>1, <2>2, <2>3
  <1>4. \A u \in Members : ~Calls(h, u) /\ (In(u)' => In(u))
    BY DEF Calls, Joining, In
  <1>5. Rooms'
    BY <1>0, <1>4, FrameRooms
  <1>6. ThreadRows'
    BY <1>0 DEF ThreadRows
  <1>7. QED
    BY <1>1, <1>3, <1>5, <1>6 DEF ThreadInv, ThreadTypes

\* What the list does not count as unread is accounted for.
LEMMA UnreadTold ==
  ASSUME ThreadInv, NEW u \in Members
  PROVE  \A n \in 1..Len(thread) : Told(u, n) \/ n \in Unread(u)
  <1> SUFFICES ASSUME NEW n \in 1..Len(thread), n \notin Unread(u)
               PROVE  Told(u, n)
    OBVIOUS
  <1>0. /\ DOMAIN thread = 1..Len(thread) /\ member[u].read \in 0..Len(thread) /\ Readings
        /\ Len(thread) \in Nat
    BY ThreadLength DEF ThreadInv, ThreadTypes
  <1>1. thread[n].by = u \/ thread[n].gone \/ ~(n > member[u].read)
    BY <1>0 DEF Unread
  <1>2. ~(n > member[u].read) => n \in 1..member[u].read
    BY <1>0
  <1>3. QED
    BY <1>0, <1>1, <1>2 DEF Readings, Told

LEMMA MarkReadStep ==
  ASSUME ThreadInv, NEW h \in Handlers, MarkRead(h)
  PROVE  ThreadInv'
  <1>0. /\ ThreadTypes /\ Len(thread) \in Nat
        /\ UNCHANGED <<thread, preview, member, receipts, socket, room, behind, skipped, deaf>>
    BY ThreadLength DEF ThreadInv, ThreadTypes, MarkRead, threadsVars
  <1>1. PICK u \in Members :
          Begin(h, IF Unread(u) = {} THEN "lastRead" ELSE "receipts",
                [user |-> u, unread |-> Unread(u), seen |-> Len(thread), at |-> Len(thread), late |-> {}])
    BY DEF MarkRead
  <1>2. PICK r : r = [user |-> u, unread |-> Unread(u), seen |-> Len(thread), at |-> Len(thread), late |-> {}]
    OBVIOUS
  <1>3. PICK p : p = IF Unread(u) = {} THEN "lastRead" ELSE "receipts"
    OBVIOUS
  <1>4. /\ p \in {"receipts", "lastRead"} /\ (p = "lastRead" => Unread(u) = {})
        /\ r.user = u /\ r.unread = Unread(u) /\ r.seen = Len(thread) /\ r.at = Len(thread)
    BY <1>2, <1>3
  <1>5. ThreadCarry(p, r, Len(thread))
    BY <1>0, <1>2, <1>4 DEF ThreadCarry, Joining
  <1>6. /\ ThreadRequests' /\ Elsewhere(h)
        /\ pc[h] = "idle" /\ pc'[h] = p /\ local'[h] = r
    BY <1>0, <1>1, <1>2, <1>3, <1>4, <1>5, BeginThread, ZenonT(60) DEF ThreadAwaits
  <1>7. \A n \in 1..Len(thread) : Told(u, n) \/ n \in Unread(u)
    BY UnreadTold
  <1>8. \A n : Told(u, n)' <=> Told(u, n)
    BY <1>0 DEF Told
  <1>9. /\ p = "receipts" => \A n \in 1..r.seen : Told(u, n)' \/ n \in r.unread
        /\ p = "lastRead" => \A n \in 1..r.at : Told(u, n)' \/ n \in r.late
    BY <1>4, <1>7, <1>8
  <1>10. QED
    BY <1>0, <1>4, <1>6, <1>9, NewReading

LEMMA WriteReceiptsStep ==
  ASSUME ThreadInv, NEW h \in Handlers, WriteReceipts(h)
  PROVE  ThreadInv'
  <1> DEFINE r == local[h]
  <1>0. /\ ThreadTypes /\ ThreadRequests /\ Readings /\ Len(thread) \in Nat /\ pc[h] = "receipts"
        /\ UNCHANGED <<thread, preview, member, socket, room, behind, skipped, deaf>>
    BY ThreadLength DEF ThreadInv, ThreadTypes, WriteReceipts
  <1>1. PICK u \in Members : u = r.user
    BY <1>0 DEF ThreadRequests, ThreadCarry, ThreadAwaits
  <1>2. r.seen \in 0..Len(thread) /\ {"user", "unread", "seen", "at", "late"} \subseteq DOMAIN r
    BY <1>0 DEF ThreadRequests, ThreadCarry, ThreadAwaits
  <1>3. PICK late : late = r.seen + 1..Len(thread)
    OBVIOUS
  <1>4. PICK w : w = With([at |-> Len(thread), late |-> late], r)
    OBVIOUS
  <1>5. w.at = Len(thread) /\ w.late = late /\ w.user = u /\ "user" \in DOMAIN w
    BY <1>1, <1>2, <1>4 DEF With
  <1>6. ThreadCarry("lastRead", w, Len(thread))
    BY <1>0, <1>5 DEF ThreadCarry, Joining
  <1>7. Carry(h, "lastRead", [at |-> Len(thread), late |-> late])
    BY <1>3 DEF WriteReceipts, ReadNow
  <1>8. ThreadRequests' /\ Elsewhere(h) /\ pc'[h] = "lastRead" /\ local'[h] = w
    BY <1>0, <1>4, <1>6, <1>7, CarryThread DEF ThreadAwaits
  <1>9. receipts' = receipts \cup ({u} \X r.unread)
    BY <1>1 DEF WriteReceipts
  <1>10. \A n \in 1..Len(thread) : Told(u, n)' \/ n \in late
    <2> SUFFICES ASSUME NEW n \in 1..Len(thread), n \notin late
                 PROVE  Told(u, n)'
      OBVIOUS
    <2>1. n \in 1..r.seen
      BY <1>0, <1>2, <1>3
    <2>2. Told(u, n) \/ n \in r.unread
      BY <1>0, <1>1, <2>1 DEF Readings
    <2>3. QED
      BY <1>0, <1>9, <2>2 DEF Told
  <1>11. QED
    BY <1>0, <1>5, <1>8, <1>9, <1>10, NewReading

LEMMA SocketReadStep ==
  ASSUME ThreadInv, NEW h \in Handlers, SocketRead(h)
  PROVE  ThreadInv'
  <1>0. /\ ThreadTypes /\ Len(thread) \in Nat /\ DOMAIN thread = 1..Len(thread)
        /\ UNCHANGED <<thread, preview, member, socket, room, behind, skipped, deaf>>
    BY ThreadLength DEF ThreadInv, ThreadTypes, SocketRead
  <1>1. PICK u \in Members, ids \in {{}} \cup {{n} : n \in DOMAIN thread} :
          /\ receipts' = receipts \cup ({u} \X ids)
          /\ Begin(h, "lastRead", [user |-> u, at |-> Len(thread), late |-> DOMAIN thread \ ids])
    BY DEF SocketRead
  <1>2. PICK r : r = [user |-> u, at |-> Len(thread), late |-> DOMAIN thread \ ids]
    OBVIOUS
  <1>3. r.user = u /\ r.at = Len(thread) /\ r.late = DOMAIN thread \ ids /\ "user" \in DOMAIN r
    BY <1>2
  <1>4. ThreadCarry("lastRead", r, Len(thread))
    BY <1>0, <1>3 DEF ThreadCarry, Joining
  <1>5. /\ ThreadRequests' /\ Elsewhere(h)
        /\ pc[h] = "idle" /\ pc'[h] = "lastRead" /\ local'[h] = r
    BY <1>0, <1>1, <1>2, <1>4, BeginThread DEF ThreadAwaits
  <1>6. \A n \in 1..Len(thread) : Told(u, n)' \/ n \in r.late
    BY <1>0, <1>1, <1>3 DEF Told
  <1>7. QED
    BY <1>0, <1>1, <1>3, <1>5, <1>6, NewReading

LEMMA WriteLastReadStep ==
  ASSUME ThreadInv, NEW h \in Handlers, WriteLastRead(h)
  PROVE  ThreadInv'
  <1> DEFINE r == local[h]
  <1>0. /\ ThreadTypes /\ ThreadRows /\ ThreadRequests /\ Previews /\ Readings /\ Rooms
        /\ UNCHANGED <<thread, preview, receipts, socket, room, behind, deaf>>
        /\ pc[h] = "lastRead" /\ Answer(h) /\ Len(thread) \in Nat
    BY ThreadLength DEF ThreadInv, ThreadTypes, WriteLastRead
  <1>1. PICK u0 \in Members : u0 = r.user
    BY <1>0 DEF ThreadRequests, ThreadCarry, ThreadAwaits
  <1>2. PICK at \in 0..Len(thread) : at = r.at
    BY <1>0 DEF ThreadRequests, ThreadCarry
  <1>3. ThreadRequests' /\ Elsewhere(h) /\ pc'[h] = "idle"
    BY <1>0, AnswerThread
  <1>4. \A n \in 1..at : Told(u0, n) \/ n \in r.late
    BY <1>0, <1>1, <1>2 DEF Readings
  <1>5. \/ /\ member' = [member EXCEPT ![u0].read = at]
           /\ skipped' = skipped \cup ({u0} \X r.late)
        \/ member' = member /\ skipped' = skipped
    BY <1>1, <1>2 DEF WriteLastRead
  <1>6. /\ member' \in [Members -> Membership]
        /\ \A u \in Members : member'[u].in = member[u].in /\ member'[u].read <= Len(thread)
        /\ \A u \in Members : member'[u].read = member[u].read
                              \/ (u = u0 /\ member'[u].read = at /\ skipped' = skipped \cup ({u0} \X r.late))
        /\ skipped \subseteq skipped'
    <2>1. member \in [Members -> Membership] /\ \A u \in Members : member[u].read <= Len(thread)
      BY <1>0 DEF ThreadRows
    <2>2. CASE member' = [member EXCEPT ![u0].read = at] /\ skipped' = skipped \cup ({u0} \X r.late)
      BY <2>1, <2>2 DEF Membership
    <2>3. CASE member' = member /\ skipped' = skipped
      BY <2>1, <2>3
    <2>4. QED
      BY <1>5, <2>2, <2>3
  <1>7. ThreadRows'
    BY <1>0, <1>6 DEF ThreadRows
  <1>8. Previews'
    BY <1>0, <1>3, FramePreviews
  <1>9. \A u \in Members, n \in 1..Len(thread) : Told(u, n) => Told(u, n)'
    BY <1>0, <1>6, ToldStays DEF ToldKept
  <1>10. Readings'
    <2> SUFFICES ASSUME NEW u \in Members
                 PROVE  /\ \A n \in 1..member'[u].read : Told(u, n)'
                        /\ \A g \in Handlers : pc'[g] = "receipts" /\ local'[g].user = u =>
                             \A n \in 1..local'[g].seen : Told(u, n)' \/ n \in local'[g].unread
                        /\ \A g \in Handlers : pc'[g] = "lastRead" /\ local'[g].user = u =>
                             \A n \in 1..local'[g].at : Told(u, n)' \/ n \in local'[g].late
      BY DEF Readings
    <2>0. /\ \A n \in 0..Len(thread) : 1..n \subseteq 1..Len(thread)
          /\ member[u].read \in 0..Len(thread)
      BY <1>0, ThreadLength
    <2>1. \A n \in 1..member'[u].read : Told(u, n)'
      <3>1. CASE member'[u].read = member[u].read
        BY <1>0, <1>9, <2>0, <3>1 DEF Readings
      <3>2. CASE u = u0 /\ member'[u].read = at /\ skipped' = skipped \cup ({u0} \X r.late)
        <4>1. ASSUME NEW n \in 1..at
              PROVE  Told(u, n)'
          <5>1. Told(u, n) \/ n \in r.late
            BY <1>4, <3>2
          <5>2. n \in r.late => <<u, n>> \in skipped'
            BY <3>2
          <5>3. QED
            BY <1>9, <2>0, <5>1, <5>2 DEF Told
        <4>2. QED
          BY <3>2, <4>1
      <3>3. QED
        BY <1>6, <3>1, <3>2
    <2>3. ASSUME NEW g \in Handlers, pc'[g] = "receipts", local'[g].user = u, NEW n \in 1..local'[g].seen
          PROVE  Told(u, n)' \/ n \in local'[g].unread
      <3>1. pc[g] = "receipts" /\ local'[g] = local[g]
        BY <1>3, <2>3 DEF Elsewhere
      <3>2. local[g].seen \in 0..Len(thread)
        BY <1>0, <3>1 DEF ThreadRequests, ThreadCarry
      <3>3. n \in 1..Len(thread) /\ (Told(u, n) \/ n \in local[g].unread)
        BY <1>0, <2>0, <2>3, <3>1, <3>2 DEF Readings
      <3>4. QED
        BY <1>9, <3>1, <3>3
    <2>4. ASSUME NEW g \in Handlers, pc'[g] = "lastRead", local'[g].user = u, NEW n \in 1..local'[g].at
          PROVE  Told(u, n)' \/ n \in local'[g].late
      <3>1. pc[g] = "lastRead" /\ local'[g] = local[g]
        BY <1>3, <2>4 DEF Elsewhere
      <3>2. local[g].at \in 0..Len(thread)
        BY <1>0, <3>1 DEF ThreadRequests, ThreadCarry
      <3>3. n \in 1..Len(thread) /\ (Told(u, n) \/ n \in local[g].late)
        BY <1>0, <2>0, <2>4, <3>1, <3>2 DEF Readings
      <3>4. QED
        BY <1>9, <3>1, <3>3
    <2>5. QED
      BY <2>1, <2>3, <2>4
  <1>11. \A u \in Members : ~Calls(h, u) /\ (In(u)' => In(u))
    BY <1>0, <1>6 DEF Calls, Joining, In
  <1>12. Rooms'
    BY <1>0, <1>3, <1>11, FrameRooms
  <1>13. QED
    BY <1>3, <1>7, <1>8, <1>10, <1>12 DEF ThreadInv, ThreadTypes

-----------------------------------------------------------------------------
(* Members and sockets.                                                    *)

\* A step that tells nobody anything and sends nothing.
LEMMA AsideStep ==
  ASSUME ThreadInv, NEW h \in Handlers, Elsewhere(h), thread' = thread, preview' = preview,
         ~behind' => ~behind, receipts \subseteq receipts', skipped \subseteq skipped',
         member' \in [Members -> Membership], \A u \in Members : member'[u].read = member[u].read,
         DOMAIN socket' = Members,
         pc[h] # "preview", pc'[h] \notin {"preview", "receipts", "lastRead"}
  PROVE  ThreadRows' /\ Previews' /\ Readings'
  <1>0. ThreadTypes /\ ThreadRows /\ Previews /\ Readings
    BY DEF ThreadInv, ThreadTypes
  <1>1. Previews'
    BY <1>0, FramePreviews
  <1>2. Readings'
    BY <1>0, ToldStays, FrameReadings
  <1>3. ThreadRows'
    BY <1>0 DEF ThreadRows
  <1>4. QED
    BY <1>1, <1>2, <1>3

\* Whoever needs the request of this step is in the room, or deaf, or called by it.
LEMMA RoomsStep ==
  ASSUME Rooms, NEW h \in Handlers, Elsewhere(h),
         \A u \in Members : In(u)' /\ socket'[u] # 0 =>
           \/ u \in room' \cup deaf' \/ Calls(h, u)'
           \/ In(u) /\ socket'[u] = socket[u] /\ u \notin room \cup deaf /\ ~Calls(h, u)
  PROVE  Rooms'
  <1> SUFFICES ASSUME NEW u \in Members, In(u)', socket'[u] # 0
               PROVE  u \in room' \cup deaf' \/ \E g \in Handlers : Calls(g, u)'
    BY DEF Rooms
  <1>1. CASE u \in room' \cup deaf' \/ Calls(h, u)'
    BY <1>1
  <1>2. CASE In(u) /\ socket'[u] = socket[u] /\ u \notin room \cup deaf /\ ~Calls(h, u)
    <2>1. PICK g \in Handlers \ {h} : Calls(g, u)
      BY <1>2 DEF Rooms
    <2>2. Calls(g, u)'
      BY <1>2, <2>1 DEF Calls, Elsewhere
    <2>3. QED
      BY <2>2
  <1>3. QED
    BY <1>1, <1>2

LEMMA AddParticipantsStep ==
  ASSUME ThreadInv, NEW h \in Handlers, AddParticipants(h)
  PROVE  ThreadInv'
  <1>0. /\ ThreadTypes /\ ThreadRows /\ ThreadRequests /\ Rooms /\ pc[h] = "add"
        /\ UNCHANGED <<thread, preview, receipts, socket, room, behind, skipped, deaf>>
    BY DEF ThreadInv, ThreadTypes, AddParticipants
  <1>1. PICK u0 \in Members : u0 = local[h].user
    BY <1>0 DEF ThreadRequests, ThreadCarry, ThreadAwaits
  <1>2. \/ Answer(h) /\ member' = member
        \/ /\ Goto(h, "call")
           /\ member' = member \/ member' = [member EXCEPT ![u0].in = "in", ![u0].admin = FALSE]
    BY <1>1 DEF AddParticipants
  <1>3. /\ member' \in [Members -> Membership]
        /\ \A u \in Members : member'[u].read = member[u].read
        /\ \A u \in Members \ {u0} : member'[u] = member[u]
    <2>1. member \in [Members -> Membership]
      BY <1>0 DEF ThreadRows
    <2>2. CASE member' = member
      BY <2>1, <2>2
    <2>3. CASE member' = [member EXCEPT ![u0].in = "in", ![u0].admin = FALSE]
      BY <2>1, <2>3 DEF Membership
    <2>4. QED
      BY <1>2, <2>2, <2>3
  <1>4. DOMAIN socket' = Members
    BY <1>0 DEF ThreadRows
  <1>5. CASE Answer(h) /\ member' = member
    <2>1. ThreadRequests' /\ Elsewhere(h) /\ pc'[h] = "idle"
      BY <1>0, <1>5, AnswerThread
    <2>2. ThreadRows' /\ Previews' /\ Readings'
      BY <1>0, <1>3, <1>4, <2>1, AsideStep
    <2>3. \A u \in Members : ~Calls(h, u) /\ (In(u)' => In(u))
      BY <1>0, <1>5 DEF Calls, Joining, In
    <2>4. Rooms'
      BY <1>0, <2>1, <2>3, FrameRooms
    <2>5. QED
      BY <2>1, <2>2, <2>4 DEF ThreadInv, ThreadTypes
  <1>6. CASE Goto(h, "call")
    <2>1. ThreadCarry("call", local[h], Len(thread))
      BY <1>0 DEF ThreadRequests, ThreadCarry, ThreadAwaits, Joining
    <2>2. ThreadRequests' /\ Elsewhere(h) /\ pc'[h] = "call" /\ local'[h] = local[h]
      BY <1>0, <1>6, <2>1, GotoThread DEF ThreadAwaits
    <2>3. ThreadRows' /\ Previews' /\ Readings'
      BY <1>0, <1>3, <1>4, <2>2, AsideStep
    <2>4. Calls(h, u0)'
      BY <1>1, <2>2 DEF Calls, Joining
    <2>5. \A u \in Members \ {u0} : ~Calls(h, u) /\ (In(u)' => In(u))
      BY <1>0, <1>3 DEF Calls, Joining, In
    <2>6. Rooms'
      BY <1>0, <2>2, <2>4, <2>5, RoomsStep
    <2>7. QED
      BY <2>2, <2>3, <2>6 DEF ThreadInv, ThreadTypes
  <1>7. QED
    BY <1>2, <1>5, <1>6

LEMMA CallInStep ==
  ASSUME ThreadInv, NEW h \in Handlers, CallIn(h)
  PROVE  ThreadInv'
  <1>0. /\ ThreadTypes /\ ThreadRows /\ ThreadRequests /\ Rooms /\ pc[h] = "call" /\ Answer(h)
        /\ UNCHANGED <<thread, preview, member, receipts, socket, behind, skipped>>
    BY DEF ThreadInv, ThreadTypes, CallIn
  <1>1. PICK u0 \in Members : u0 = local[h].user
    BY <1>0 DEF ThreadRequests, ThreadCarry, ThreadAwaits
  <1>2. ThreadRequests' /\ Elsewhere(h) /\ pc'[h] = "idle"
    BY <1>0, AnswerThread
  <1>3. ThreadRows' /\ Previews' /\ Readings'
    BY <1>0, <1>2, AsideStep DEF ThreadRows
  <1>4. socket[u0] # 0 => u0 \in room'
    BY <1>1 DEF CallIn
  <1>5. \A u \in Members \ {u0} : (u \in room \cup deaf => u \in room' \cup deaf') /\ ~Calls(h, u)
    BY <1>1 DEF CallIn, Calls
  <1>6. \A u \in Members : In(u)' => In(u)
    BY <1>0 DEF In
  <1>7. Rooms'
    BY <1>0, <1>2, <1>4, <1>5, <1>6, RoomsStep
  <1>8. QED
    BY <1>2, <1>3, <1>7 DEF ThreadInv, ThreadTypes

LEMMA RemoveParticipantStep ==
  ASSUME ThreadInv, NEW h \in Handlers, RemoveParticipant(h)
  PROVE  ThreadInv'
  <1>0. /\ ThreadTypes /\ ThreadRows /\ ThreadRequests /\ Rooms /\ pc[h] = "remove" /\ Answer(h)
        /\ UNCHANGED <<thread, preview, receipts, socket, room, behind, skipped, deaf>>
    BY DEF ThreadInv, ThreadTypes, RemoveParticipant
  <1>1. PICK u0 \in Members : u0 = local[h].user
    BY <1>0 DEF ThreadRequests, ThreadCarry, ThreadAwaits
  <1>2. member' = member \/ member' = [member EXCEPT ![u0].in = "left"]
    BY <1>1 DEF RemoveParticipant
  <1>3. /\ member' \in [Members -> Membership]
        /\ \A u \in Members : member'[u].read = member[u].read
        /\ \A u \in Members : In(u)' => In(u)
    <2>1. member \in [Members -> Membership]
      BY <1>0 DEF ThreadRows
    <2>2. CASE member' = member
      BY <2>1, <2>2 DEF In
    <2>3. CASE member' = [member EXCEPT ![u0].in = "left"]
      BY <2>1, <2>3 DEF Membership, In
    <2>4. QED
      BY <1>2, <2>2, <2>3
  <1>4. ThreadRequests' /\ Elsewhere(h) /\ pc'[h] = "idle"
    BY <1>0, AnswerThread
  <1>5. ThreadRows' /\ Previews' /\ Readings'
    BY <1>0, <1>3, <1>4, AsideStep DEF ThreadRows
  <1>6. \A u \in Members : ~Calls(h, u)
    BY <1>0 DEF Calls, Joining
  <1>7. Rooms'
    BY <1>0, <1>3, <1>4, <1>6, FrameRooms
  <1>8. QED
    BY <1>4, <1>5, <1>7 DEF ThreadInv, ThreadTypes

LEMMA OpenSocketStep ==
  ASSUME ThreadInv, NEW h \in Handlers, OpenSocket(h)
  PROVE  ThreadInv'
  <1>0. /\ ThreadTypes /\ ThreadRows /\ Rooms
        /\ UNCHANGED <<thread, preview, member, receipts, room, behind, skipped, deaf>>
    BY DEF ThreadInv, ThreadTypes, OpenSocket
  <1>1. PICK u0 \in Members :
          /\ Begin(h, "memberships", [user |-> u0, socket |-> begun + 1])
          /\ socket' = [socket EXCEPT ![u0] = begun + 1]
    BY DEF OpenSocket
  <1>2. PICK r : r = [user |-> u0, socket |-> begun + 1]
    OBVIOUS
  <1>3. r.user = u0 /\ r.socket = begun + 1 /\ {"user", "socket"} \subseteq DOMAIN r
    BY <1>2
  <1>4. ThreadCarry("memberships", r, Len(thread))
    BY <1>3 DEF ThreadCarry, Joining
  <1>5. /\ ThreadRequests' /\ Elsewhere(h)
        /\ pc[h] = "idle" /\ pc'[h] = "memberships" /\ local'[h] = r
    BY <1>0, <1>1, <1>2, <1>4, BeginThread DEF ThreadAwaits, Joining
  <1>6. DOMAIN socket' = Members /\ socket'[u0] = begun + 1
        /\ \A u \in Members \ {u0} : socket'[u] = socket[u]
    BY <1>0, <1>1 DEF ThreadRows
  <1>7. ThreadRows' /\ Previews' /\ Readings'
    BY <1>0, <1>5, <1>6, AsideStep DEF ThreadRows
  <1>8. Calls(h, u0)'
    BY <1>3, <1>5, <1>6 DEF Calls, Joining
  <1>9. \A u \in Members : ~Calls(h, u) /\ (In(u)' => In(u))
    BY <1>0, <1>5 DEF Calls, Joining, In
  <1>10. Rooms'
    BY <1>0, <1>5, <1>6, <1>8, <1>9, RoomsStep
  <1>11. QED
    BY <1>5, <1>7, <1>10 DEF ThreadInv, ThreadTypes

LEMMA FindMembershipsStep ==
  ASSUME ThreadInv, NEW h \in Handlers, FindMemberships(h)
  PROVE  ThreadInv'
  <1>0. /\ ThreadTypes /\ ThreadRows /\ ThreadRequests /\ Rooms /\ pc[h] = "memberships"
        /\ UNCHANGED <<thread, preview, member, receipts, socket, room, behind, skipped, deaf>>
    BY DEF ThreadInv, ThreadTypes, FindMemberships, threadsVars
  <1>1. PICK u0 \in Members : u0 = local[h].user
    BY <1>0 DEF ThreadRequests, ThreadCarry, ThreadAwaits, Joining
  <1>2. {"user", "socket"} \subseteq DOMAIN local[h]
    BY <1>0 DEF ThreadRequests, ThreadCarry, ThreadAwaits, Joining
  <1>3. PICK b \in BOOLEAN : b = In(u0)
    BY DEF In
  <1>4. PICK r : r = With([in |-> b], local[h])
    OBVIOUS
  <1>5. /\ r.user = u0 /\ r.socket = local[h].socket /\ {"user", "socket"} \subseteq DOMAIN r
    BY <1>1, <1>2, <1>4 DEF With
  <1>6. r.in = b
    BY <1>4 DEF With
  <1>7. ThreadCarry("enter", r, Len(thread))
    BY <1>5, <1>6 DEF ThreadCarry, Joining
  <1>8. Carry(h, "enter", [in |-> b])
    BY <1>1, <1>3 DEF FindMemberships
  <1>9. ThreadRequests' /\ Elsewhere(h) /\ pc'[h] = "enter" /\ local'[h] = r
    BY <1>0, <1>4, <1>7, <1>8, CarryThread DEF ThreadAwaits, Joining
  <1>10. ThreadRows' /\ Previews' /\ Readings'
    BY <1>0, <1>9, AsideStep DEF ThreadRows
  <1>11. ASSUME NEW u \in Members, In(u)', Calls(h, u)
         PROVE  Calls(h, u)'
    <2>1. u = u0 /\ local[h].socket = socket[u] /\ In(u)
      BY <1>0, <1>1, <1>11 DEF Calls, Joining, In
    <2>2. local'[h].in
      BY <1>3, <1>6, <1>9, <2>1
    <2>3. QED
      BY <1>0, <1>5, <1>9, <2>1, <2>2 DEF Calls, Joining
  <1>12. \A u \in Members : In(u)' => In(u)
    BY <1>0 DEF In
  <1>13. Rooms'
    BY <1>0, <1>9, <1>11, <1>12, RoomsStep
  <1>14. QED
    BY <1>9, <1>10, <1>13 DEF ThreadInv, ThreadTypes

LEMMA JoinRoomStep ==
  ASSUME ThreadInv, NEW h \in Handlers, JoinRoom(h)
  PROVE  ThreadInv'
  <1>0. /\ ThreadTypes /\ ThreadRows /\ ThreadRequests /\ Rooms /\ pc[h] = "enter" /\ Answer(h)
        /\ UNCHANGED <<thread, preview, member, receipts, socket, behind, skipped>>
    BY DEF ThreadInv, ThreadTypes, JoinRoom
  <1>1. PICK u0 \in Members : u0 = local[h].user
    BY <1>0 DEF ThreadRequests, ThreadCarry, ThreadAwaits, Joining
  <1>2. ThreadRequests' /\ Elsewhere(h) /\ pc'[h] = "idle"
    BY <1>0, AnswerThread
  <1>3. ThreadRows' /\ Previews' /\ Readings'
    BY <1>0, <1>2, AsideStep DEF ThreadRows
  <1>4. \A u \in Members : Calls(h, u) => u \in room'
    BY <1>0 DEF JoinRoom, Calls, Joining
  <1>5. \A u \in Members : u \in room \cup deaf => u \in room' \cup deaf'
    BY DEF JoinRoom
  <1>6. \A u \in Members : In(u)' => In(u)
    BY <1>0 DEF In
  <1>7. Rooms'
    BY <1>0, <1>2, <1>4, <1>5, <1>6, RoomsStep
  <1>8. QED
    BY <1>2, <1>3, <1>7 DEF ThreadInv, ThreadTypes

LEMMA ThreadsFailStep ==
  ASSUME ThreadInv, NEW h \in Handlers, ThreadsFail(h)
  PROVE  ThreadInv'
  <1>0. /\ ThreadTypes /\ ThreadRows /\ ThreadRequests /\ Previews /\ Readings /\ Rooms
        /\ pc[h] # "idle" /\ Answer(h)
        /\ UNCHANGED <<thread, preview, member, receipts, socket, room, skipped>>
    BY DEF ThreadInv, ThreadTypes, ThreadsFail
  <1>1. ThreadRequests' /\ Elsewhere(h) /\ pc'[h] = "idle"
    BY <1>0, AnswerThread
  <1>2. ThreadRows'
    BY <1>0 DEF ThreadRows
  <1>3. Readings'
    BY <1>0, <1>1, ToldStays, FrameReadings
  <1>4. behind' <=> (behind \/ pc[h] = "preview")
    BY DEF ThreadsFail
  <1>5. Previews'
    <2>1. CASE pc[h] = "preview"
      <3>1. \A g \in Handlers : pc'[g] = "preview" => g # h /\ pc[g] = "preview" /\ local'[g] = local[g]
        BY <1>1 DEF Elsewhere
      <3>2. \A g \in Handlers : g # h /\ pc[g] = "preview" => ~local[g].alone
        BY <1>0, <2>1 DEF Previews, Previewing
      <3>3. QED
        BY <1>4, <2>1, <3>1, <3>2 DEF Previews
    <2>2. CASE pc[h] # "preview"
      BY <1>0, <1>1, <1>4, <2>2, FramePreviews
    <2>3. QED
      BY <2>1, <2>2
  <1>6. /\ deaf \subseteq deaf'
        /\ \A u \in Members : Calls(h, u) => u \in deaf'
    BY DEF ThreadsFail, Calls, Joining
  <1>7. Rooms'
    BY <1>0, <1>1, <1>6, FrameRooms DEF In
  <1>8. QED
    BY <1>1, <1>2, <1>3, <1>5, <1>7 DEF ThreadInv, ThreadTypes

\* A receipt, or a socket that closes: no request waits for anything.
LEMMA NoWaitStep ==
  ASSUME ThreadInv, MarkMessageRead \/ Disconnect
  PROVE  ThreadInv'
  <1>0. /\ ThreadTypes /\ ThreadRows /\ ThreadRequests /\ Previews /\ Readings /\ Rooms
        /\ UNCHANGED <<thread, preview, member, behind, skipped, pc, local>> /\ begun' = begun + 1
    BY DEF ThreadInv, ThreadTypes, MarkMessageRead, Disconnect
  <1>1. ThreadRequests'
    BY <1>0 DEF ThreadRequests
  <1>2. Previews'
    BY <1>0 DEF Previews, Busy, Previewing
  <1>3. receipts \subseteq receipts'
    BY DEF MarkMessageRead, Disconnect
  <1>4. \A u, n : Told(u, n) => Told(u, n)'
    BY <1>0, <1>3 DEF Told
  <1>5. Readings'
    BY <1>0, <1>4 DEF Readings
  <1>6. \A u \in Members : In(u)' <=> In(u)
    BY <1>0 DEF In
  <1>7. CASE MarkMessageRead
    <2>1. UNCHANGED <<socket, room, deaf>>
      BY <1>7 DEF MarkMessageRead
    <2>2. \A u \in Members, h \in Handlers : Calls(h, u) => Calls(h, u)'
      BY <1>0, <2>1 DEF Calls
    <2>3. Rooms' /\ ThreadRows'
      BY <1>0, <1>6, <2>1, <2>2 DEF Rooms, ThreadRows
    <2>4. QED
      BY <1>1, <1>2, <1>5, <2>3 DEF ThreadInv, ThreadTypes
  <1>8. CASE Disconnect
    <2>1. PICK u0 \in Members : /\ socket' = [socket EXCEPT ![u0] = 0]
                                /\ room' = room \ {u0} /\ deaf' = deaf \ {u0}
      BY <1>8 DEF Disconnect
    <2>2. /\ DOMAIN socket' = Members /\ socket'[u0] = 0
          /\ \A u \in Members \ {u0} : socket'[u] = socket[u]
      BY <1>0, <2>1 DEF ThreadRows
    <2>3. \A u \in Members \ {u0}, h \in Handlers : Calls(h, u) => Calls(h, u)'
      BY <1>0, <2>2 DEF Calls
    <2>4. Rooms' /\ ThreadRows'
      BY <1>0, <1>6, <2>1, <2>2, <2>3 DEF Rooms, ThreadRows
    <2>5. QED
      BY <1>1, <1>2, <1>5, <2>4 DEF ThreadInv, ThreadTypes
  <1>9. QED
    BY <1>7, <1>8

-----------------------------------------------------------------------------
(* The theorems about a group.                                             *)

LEMMA ThreadStep ==
  ASSUME ThreadInv, ThreadsNext
  PROVE  ThreadInv'
  <1>1. CASE MarkMessageRead \/ Disconnect
    BY <1>1, NoWaitStep
  <1>2. ASSUME NEW h \in Handlers,
               \/ SendCheck(h) \/ SendCreate(h) \/ SendPreview(h)
               \/ DeleteCheck(h) \/ DeleteMessage(h)
               \/ MarkRead(h) \/ WriteReceipts(h) \/ SocketRead(h) \/ WriteLastRead(h)
               \/ AddFind(h) \/ AddParticipants(h) \/ CallIn(h)
               \/ RemoveCheck(h) \/ RemoveParticipant(h)
               \/ OpenSocket(h) \/ ConversationJoin(h) \/ FindMemberships(h) \/ JoinRoom(h)
               \/ ThreadsFail(h)
        PROVE  ThreadInv'
    BY <1>2, BeginsStep, SendCreateStep, SendPreviewStep, DeleteMessageStep, MarkReadStep,
       WriteReceiptsStep, SocketReadStep, WriteLastReadStep, AddParticipantsStep, CallInStep,
       RemoveParticipantStep, OpenSocketStep, FindMembershipsStep, JoinRoomStep, ThreadsFailStep
  <1>3. QED
    BY <1>1, <1>2 DEF ThreadsNext

LEMMA ThreadStart ==
  ASSUME ThreadsInit, RequestsInit
  PROVE  ThreadInv
  <1>0. /\ thread = <<>> /\ Len(thread) = 0 /\ preview = 0
        /\ \A h \in Handlers : pc[h] = "idle"
    BY DEF ThreadsInit, RequestsInit
  <1>1. member \in [Members -> Membership] /\ \A u \in Members : member[u].read = 0
    <2>1. PICK invited \in SUBSET Members :
            member = [u \in Members |-> [Outside EXCEPT
                        !.in = IF u \in invited \cup {Creator} THEN "in" ELSE "never",
                        !.admin = (u = Creator)]]
      BY DEF ThreadsInit
    <2>2. ASSUME NEW u \in Members
          PROVE  member[u] \in Membership /\ member[u].read = 0
      <3>1. PICK b \in BOOLEAN : b = (u = Creator)
        OBVIOUS
      <3>2. PICK i \in {"in", "never"} : i = IF u \in invited \cup {Creator} THEN "in" ELSE "never"
        OBVIOUS
      <3>3. PICK m : m = [Outside EXCEPT !.in = i, !.admin = b]
        OBVIOUS
      <3>4. m \in Membership /\ m.read = 0
        BY <3>3 DEF Outside, Membership
      <3>5. member[u] = m
        BY <2>1, <3>1, <3>2, <3>3
      <3>6. QED
        BY <3>4, <3>5
    <2>3. QED
      BY <2>1, <2>2
  <1>2. DOMAIN socket = Members /\ \A u \in Members : socket[u] = 0
    BY DEF ThreadsInit
  <1>3. ThreadRows
    <2>1. <<>> \in Seq(Message)
      BY EmptySeq
    <2>2. Len(thread) = 0 /\ thread \in Seq(Message)
      BY <1>0, <2>1
    <2>3. QED
      BY <1>1, <1>2, <2>2 DEF ThreadRows
  <1>4. ThreadRequests
    <2>1. ThreadCarry("idle", Nothing, Len(thread))
      BY DEF ThreadCarry, ThreadAwaits, Joining
    <2>2. QED
      BY <2>1 DEF RequestsInit, ThreadRequests
  <1>5. Previews
    BY <1>0 DEF Previews
  <1>6. Readings
    <2>1. \A u \in Members : 1..member[u].read = {}
      BY <1>1
    <2>2. QED
      BY <1>0, <2>1 DEF Readings
  <1>7. Rooms
    BY <1>2 DEF Rooms
  <1>8. QED
    BY <1>3, <1>4, <1>5, <1>6, <1>7 DEF ThreadInv, ThreadTypes

\* The rows of a group and what its requests carry are what the code means them to
\* be, and the preview, the readings and the sockets' room are accounted for
\* (messages.service.js, lib/socket.js).
THEOREM ThreadInvariant == ThreadsSpec => []ThreadInv
  <1>1. ThreadsInit /\ RequestsInit => ThreadInv
    BY ThreadStart
  <1>2. ThreadInv /\ [ThreadsNext]_<<threadsVars, handlerVars>> => ThreadInv'
    <2> SUFFICES ASSUME ThreadInv, UNCHANGED <<threadsVars, handlerVars>>
                 PROVE  ThreadInv'
      BY ThreadStep
    <2>1. UNCHANGED <<thread, preview, member, receipts, socket, room, behind, skipped, deaf,
                      begun, pc, local>>
      BY DEF threadsVars, handlerVars
    <2>2. ThreadRows' /\ ThreadRequests'
      BY <2>1 DEF ThreadInv, ThreadTypes, ThreadRows, ThreadRequests
    <2>3. Previews' /\ Readings' /\ Rooms'
      BY <2>1 DEF ThreadInv, Previews, Readings, Rooms, Busy, Previewing, Told, In, Calls
    <2>4. QED
      BY <2>2, <2>3 DEF ThreadInv, ThreadTypes
  <1>3. QED
    BY <1>1, <1>2, PTL DEF ThreadsSpec

LEMMA WhatMembersSee ==
  ASSUME ThreadInv
  PROVE  MembersSeeTheThread
  <1>0. Previews /\ Readings /\ Rooms /\ DOMAIN thread = 1..Len(thread)
    BY ThreadLength DEF ThreadInv, ThreadTypes
  <1>1. ASSUME NEW u \in Members, NEW n \in DOMAIN thread,
               thread[n].by # u, ~thread[n].gone, n \notin Unread(u)
        PROVE  <<u, n>> \in receipts \cup skipped
    <2>1. \A k \in 1..Len(thread) : Told(u, k) \/ k \in Unread(u)
      BY UnreadTold
    <2>2. Told(u, n)
      BY <1>0, <1>1, <2>1
    <2>3. QED
      BY <1>1, <2>2 DEF Told
  <1>2. ASSUME NEW u \in Members, In(u), socket[u] # 0
        PROVE  u \in room \cup deaf \cup {local[h].user : h \in Busy({"memberships", "enter", "call"})}
    <2>1. \A h \in Handlers : Calls(h, u) =>
            h \in Busy({"memberships", "enter", "call"}) /\ local[h].user = u
      BY DEF Calls, Busy, Joining
    <2>2. QED
      BY <1>0, <1>2, <2>1 DEF Rooms
  <1>3. QED
    BY <1>0, <1>1, <1>2 DEF MembersSeeTheThread, Previews

\* The list shows the newest message unless sends overlapped or died, a message
\* not counted as unread has its receipt unless a reading passed over it, and a
\* member's open socket is in the room unless a join is under way or failed
\* (sendMessage, markRead, addParticipants, socket.js).
THEOREM MembersSee == ThreadsSpec => []MembersSeeTheThread
  BY ThreadInvariant, WhatMembersSee, PTL

-----------------------------------------------------------------------------
(* The chats: their inductive invariant.                                   *)

GroupChat == [id : Nat, in : SUBSET Reps, left : SUBSET Reps]
DirectChat == [id : Nat, archived : BOOLEAN, left : BOOLEAN]
\* Awaits of a sync that has no chat yet, and of one that has.
Naming == {"findChat", "createChat"}
Having == {"members", "join", "leave"}
Syncs == Naming \cup Having
ChatAwaits == Syncs \cup {"direct"}

\* What a request at await p carries, when so many were made.
ChatCarry(p, r, many) ==
  /\ p \in Syncs => {"id", "reps"} \subseteq DOMAIN r /\ r.reps \subseteq Reps /\ r.id \in 0..many
  /\ p = "direct" => r.id \in 0..many
  /\ p = "join" => {"join", "leave"} \subseteq DOMAIN r /\ r.join \subseteq Reps
  /\ p \in {"join", "leave"} => "leave" \in DOMAIN r /\ r.leave \subseteq Reps

ChatRows ==
  /\ reps \subseteq Reps /\ chats \subseteq GroupChat /\ directs \subseteq DirectChat
  /\ sole \subseteq Handlers

ChatRequests ==
  /\ pc \in [Handlers -> ChatAwaits \cup {"idle"}]
  /\ DOMAIN local = Handlers
  /\ begun \in Nat
  /\ \A h \in Handlers : ChatCarry(pc[h], local[h], begun)

\* The id a sync has drawn for a chat is its own, until it makes the chat.
Named ==
  /\ \A c \in chats : c.id <= begun
  /\ \A c, d \in chats : c.id = d.id => c = d
  /\ \A h \in Handlers : pc[h] \in Naming =>
       /\ \A c \in chats : c.id # local[h].id
       /\ \A g \in Handlers : pc[g] \in Naming /\ local[g].id = local[h].id => g = h
  /\ \A h \in Handlers : pc[h] \in Having => \E c \in chats : c.id = local[h].id

\* The chat that h syncs will have h's reps as its members, once h is through.
OnCourse(h) == \A c \in chats : c.id = local[h].id =>
  /\ pc[h] = "join" => (c.in \cup local[h].join) \ local[h].leave = local[h].reps
  /\ pc[h] = "leave" => c.in \ local[h].leave = local[h].reps

\* A sync that began alone, and was joined by no other, is on its course.
Alone == \A h \in sole : pc[h] \in Syncs =>
  /\ \A g \in Handlers : pc[g] \in Syncs => g = h
  /\ pc[h] = "createChat" => chats = {}
  /\ OnCourse(h)

Single ==
  /\ "group" \notin twins => \A c, d \in chats : c = d
  /\ "direct" \notin twins =>
       /\ \A d, e \in Open : d = e
       /\ \A g, h \in Handlers : pc[g] = "direct" /\ pc[h] = "direct" => g = h
       /\ \A h \in Handlers : pc[h] = "direct" => Open = {}
  /\ synced => \E c \in chats : c.in = reps

ChatInv == ChatRows /\ ChatRequests /\ Named /\ Alone /\ Single

-----------------------------------------------------------------------------
(* The steps the syncs are built from.                                     *)

LEMMA CarryAsMany ==
  ASSUME NEW p, NEW r, NEW m \in Nat, NEW n \in Nat, m <= n, ChatCarry(p, r, m)
  PROVE  ChatCarry(p, r, n)
  BY DEF ChatCarry

LEMMA ChatBegin ==
  ASSUME ChatRequests, NEW h \in Handlers, NEW await \in ChatAwaits, NEW c, Begin(h, await, c),
         ChatCarry(await, c, begun + 1)
  PROVE  /\ ChatRequests' /\ Elsewhere(h)
         /\ pc[h] = "idle" /\ pc'[h] = await /\ local'[h] = c /\ begun' = begun + 1
  <1>1. \A g \in Handlers : ChatCarry(pc[g], local[g], begun + 1)
    BY CarryAsMany DEF ChatRequests
  <1>2. QED
    BY <1>1 DEF ChatRequests, Begin, Elsewhere

LEMMA ChatAnswer ==
  ASSUME ChatRequests, NEW h \in Handlers, Answer(h)
  PROVE  ChatRequests' /\ Elsewhere(h) /\ pc'[h] = "idle" /\ begun' = begun
  <1>1. ChatCarry("idle", Nothing, begun)
    BY DEF ChatCarry, Syncs, Naming, Having
  <1>2. QED
    BY <1>1 DEF ChatRequests, Answer, Elsewhere

LEMMA ChatGoto ==
  ASSUME ChatRequests, NEW h \in Handlers, NEW await \in ChatAwaits, Goto(h, await),
         ChatCarry(await, local[h], begun)
  PROVE  /\ ChatRequests' /\ Elsewhere(h)
         /\ pc'[h] = await /\ local'[h] = local[h] /\ begun' = begun
  BY DEF ChatRequests, Goto, Elsewhere

LEMMA ChatGoesOn ==
  ASSUME ChatRequests, NEW h \in Handlers, NEW await \in ChatAwaits, NEW more, Carry(h, await, more),
         ChatCarry(await, With(more, local[h]), begun)
  PROVE  /\ ChatRequests' /\ Elsewhere(h)
         /\ pc'[h] = await /\ local'[h] = With(more, local[h]) /\ begun' = begun
  BY DEF ChatRequests, Carry, Elsewhere

\* A step that makes no chat: every chat keeps its id.
SameIds ==
  /\ \A c \in chats' : \E d \in chats : d.id = c.id
  /\ \A c \in chats : \E d \in chats' : d.id = c.id
  /\ \A c, d \in chats' : c.id = d.id => c = d
  /\ (\A c, d \in chats : c = d) => \A c, d \in chats' : c = d

LEMMA SameChats ==
  ASSUME Named, chats' = chats
  PROVE  SameIds
  BY DEF Named, SameIds

LEMMA ChatReplaced ==
  ASSUME Named, NEW c \in chats, NEW e, e.id = c.id, chats' = (chats \ {c}) \cup {e}
  PROVE  SameIds
  <1>1. \A d \in chats' : d = e \/ d \in chats \ {c}
    OBVIOUS
  <1>2. \A d \in chats \ {c} : d.id # c.id
    BY DEF Named
  <1>3. \A k, d \in chats' : k.id = d.id => k = d
    BY <1>1, <1>2 DEF Named
  <1>4. /\ \A k \in chats' : \E d \in chats : d.id = k.id
        /\ \A k \in chats : \E d \in chats' : d.id = k.id
    BY <1>1
  <1>5. (\A k, d \in chats : k = d) => \A k, d \in chats' : k = d
    BY <1>1
  <1>6. QED
    BY <1>3, <1>4, <1>5 DEF SameIds

LEMMA ChatFound ==
  ASSUME Named, NEW h \in Handlers, pc[h] \in Having
  PROVE  ById(local[h].id) \in chats /\ ById(local[h].id).id = local[h].id
  BY DEF Named, ById

LEMMA NamedKept ==
  ASSUME ChatRequests, Named, NEW h \in Handlers, Elsewhere(h), begun' \in Nat, begun <= begun', SameIds,
         ChatRows, ChatRows',
         pc'[h] \in Naming => pc[h] \in Naming /\ local'[h].id = local[h].id,
         pc'[h] \in Having => \E c \in chats : c.id = local'[h].id
  PROVE  Named'
  <1>1. \A c \in chats' : c.id <= begun'
    <2>1. \A d \in chats : d.id \in Nat /\ d.id <= begun
      BY DEF ChatRows, GroupChat, Named
    <2>2. begun \in Nat
      BY DEF ChatRequests
    <2>3. QED
      BY <2>1, <2>2 DEF SameIds
  <1>2. \A g \in Handlers : pc'[g] \in Naming => pc[g] \in Naming /\ local'[g].id = local[g].id
    BY DEF Elsewhere
  <1>3. ASSUME NEW g \in Handlers, pc'[g] \in Naming
        PROVE  /\ \A c \in chats' : c.id # local'[g].id
               /\ \A k \in Handlers : pc'[k] \in Naming /\ local'[k].id = local'[g].id => k = g
    BY <1>2, <1>3 DEF Named, SameIds
  <1>4. ASSUME NEW g \in Handlers, pc'[g] \in Having
        PROVE  \E c \in chats' : c.id = local'[g].id
    <2>1. \E c \in chats : c.id = local'[g].id
      BY <1>4 DEF Named, Elsewhere
    <2>2. QED
      BY <2>1 DEF SameIds
  <1>5. QED
    BY <1>1, <1>3, <1>4 DEF Named, SameIds

LEMMA AloneKept ==
  ASSUME Alone, NEW h \in Handlers, Elsewhere(h), sole' = sole,
         chats' = chats \/ pc[h] \in Syncs, pc'[h] \in Syncs => pc[h] \in Syncs, ChatRows,
         h \in sole /\ pc'[h] \in Syncs => (pc'[h] = "createChat" => chats' = {}) /\ OnCourse(h)'
  PROVE  Alone'
  <1> SUFFICES ASSUME NEW g \in sole, pc'[g] \in Syncs
               PROVE  /\ \A k \in Handlers : pc'[k] \in Syncs => k = g
                      /\ pc'[g] = "createChat" => chats' = {}
                      /\ OnCourse(g)'
    BY DEF Alone
  <1>0. g \in Handlers
    BY DEF ChatRows
  <1>1. pc[g] \in Syncs /\ \A k \in Handlers : pc'[k] \in Syncs => pc[k] \in Syncs
    BY <1>0 DEF Elsewhere
  <1>2. \A k \in Handlers : pc'[k] \in Syncs => k = g
    BY <1>1 DEF Alone
  <1>3. CASE g = h
    BY <1>2, <1>3
  <1>4. CASE g # h
    <2>1. pc[h] \notin Syncs
      BY <1>0, <1>1, <1>4 DEF Alone
    <2>2. chats' = chats /\ pc'[g] = pc[g] /\ local'[g] = local[g]
      BY <1>0, <1>4, <2>1 DEF Elsewhere
    <2>3. QED
      BY <1>1, <1>2, <2>2 DEF Alone, OnCourse
  <1>5. QED
    BY <1>3, <1>4

LEMMA SingleKept ==
  ASSUME Single, NEW h \in Handlers, Elsewhere(h), pc'[h] # "direct",
         directs' = directs, "direct" \in twins => "direct" \in twins',
         "group" \notin twins' => \A c, d \in chats' : c = d,
         synced' => \E c \in chats' : c.in = reps'
  PROVE  Single'
  <1>1. Open' = Open
    BY DEF Open
  <1>2. \A g \in Handlers : pc'[g] = "direct" => pc[g] = "direct"
    BY DEF Elsewhere
  <1>3. QED
    BY <1>1, <1>2 DEF Single

-----------------------------------------------------------------------------
(* The actions on the chats.                                               *)

LEMMA EnsureReadStep ==
  ASSUME ChatInv, NEW h \in Handlers, EnsureRead(h)
  PROVE  ChatInv'
  <1>0. /\ ChatRows /\ ChatRequests /\ Named /\ Alone /\ Single
        /\ UNCHANGED <<reps, chats, directs, sockets, presence, cache, twins, synced>>
    BY DEF ChatInv, EnsureRead
  <1>1. PICK r : r = [reps |-> reps, id |-> begun + 1]
    OBVIOUS
  <1>2. r.reps = reps /\ r.id = begun + 1 /\ {"id", "reps"} \subseteq DOMAIN r
    BY <1>1
  <1>3. begun \in Nat /\ ChatCarry("findChat", r, begun + 1)
    BY <1>0, <1>2 DEF ChatRows, ChatRequests, ChatCarry, Syncs, Naming
  <1>4. /\ ChatRequests' /\ Elsewhere(h)
        /\ pc[h] = "idle" /\ pc'[h] = "findChat" /\ local'[h] = r /\ begun' = begun + 1
    BY <1>0, <1>1, <1>3, ChatBegin DEF EnsureRead, ChatAwaits, Syncs, Naming
  <1>5. sole' = (IF Syncing(h) = {} THEN {h} ELSE {})
    BY DEF EnsureRead
  <1>6. ChatRows'
    BY <1>0, <1>5 DEF ChatRows
  <1>7. Named'
    <2>1. \A c \in chats : c.id <= begun /\ c.id \in Nat
      BY <1>0 DEF Named, ChatRows, GroupChat
    <2>2. \A g \in Handlers : pc[g] \in Naming => local[g].id \in 0..begun
      BY <1>0 DEF ChatRequests, ChatCarry, Syncs
    <2>3. \A c \in chats : c.id <= begun' /\ c.id # local'[h].id
      BY <1>2, <1>3, <1>4, <2>1
    <2>4. \A g \in Handlers \ {h} : pc'[g] \in Naming => local'[g].id # local'[h].id
      BY <1>2, <1>3, <1>4, <2>2 DEF Elsewhere
    <2>5. ASSUME NEW g \in Handlers, pc'[g] \in Naming
          PROVE  /\ \A c \in chats : c.id # local'[g].id
                 /\ \A k \in Handlers : pc'[k] \in Naming /\ local'[k].id = local'[g].id => k = g
      <3>1. CASE g = h
        BY <2>3, <2>4, <3>1
      <3>2. CASE g # h
        <4>1. pc[g] \in Naming /\ local'[g] = local[g]
          BY <1>4, <2>5, <3>2 DEF Elsewhere
        <4>2. \A k \in Handlers \ {h} : pc'[k] \in Naming => pc[k] \in Naming /\ local'[k] = local[k]
          BY <1>4 DEF Elsewhere
        <4>3. \A k \in Handlers \ {h} : pc'[k] \in Naming /\ local'[k].id = local'[g].id => k = g
          BY <1>0, <4>1, <4>2 DEF Named
        <4>4. local'[h].id # local'[g].id
          BY <2>4, <2>5, <3>2
        <4>5. \A c \in chats : c.id # local'[g].id
          BY <1>0, <4>1 DEF Named
        <4>6. QED
          BY <4>3, <4>4, <4>5
      <3>3. QED
        BY <3>1, <3>2
    <2>6. \A g \in Handlers : pc'[g] \in Having => g # h /\ pc[g] \in Having /\ local'[g] = local[g]
      BY <1>4 DEF Elsewhere, Having
    <2>7. QED
      BY <1>0, <2>3, <2>5, <2>6 DEF Named
  <1>8. Alone'
    <2>1. \A g \in Handlers \ {h} : pc[g] \in Syncs => g \in Syncing(h)
      BY DEF Syncing, Syncs, Naming, Having
    <2>2. \A g \in sole' : g = h /\ \A k \in Handlers : pc'[k] \in Syncs => k = h
      BY <1>4, <1>5, <2>1 DEF Elsewhere
    <2>3. OnCourse(h)'
      BY <1>4 DEF OnCourse
    <2>4. QED
      BY <1>4, <2>2, <2>3 DEF Alone
  <1>9. Single'
    BY <1>0, <1>4, SingleKept DEF Single
  <1>10. QED
    BY <1>4, <1>6, <1>7, <1>8, <1>9 DEF ChatInv

\* A step that only one request notices.
LEMMA QuietStep ==
  ASSUME ChatInv, NEW h \in Handlers, Elsewhere(h), ChatRequests', begun' = begun,
         UNCHANGED <<reps, chats, directs, twins, sole>>, synced' => synced, pc'[h] # "direct",
         pc'[h] \in Naming => pc[h] \in Naming /\ local'[h].id = local[h].id,
         pc'[h] \in Having => pc[h] \in Syncs /\ \E c \in chats : c.id = local'[h].id,
         h \in sole /\ pc'[h] \in Syncs => (pc'[h] = "createChat" => chats = {}) /\ OnCourse(h)'
  PROVE  ChatInv'
  <1>0. /\ ChatRows /\ ChatRequests /\ Named /\ Alone /\ Single /\ begun \in Nat
    BY DEF ChatInv, ChatRequests
  <1>1. ChatRows'
    BY <1>0 DEF ChatRows
  <1>2. Named'
    BY <1>0, <1>1, SameChats, NamedKept
  <1>3. pc'[h] \in Syncs => pc[h] \in Syncs
    BY DEF Syncs
  <1>4. Alone'
    BY <1>0, <1>3, AloneKept
  <1>5. Single'
    BY <1>0, SingleKept DEF Single
  <1>6. QED
    BY <1>1, <1>2, <1>4, <1>5 DEF ChatInv

LEMMA EnsureFindStep ==
  ASSUME ChatInv, NEW h \in Handlers, EnsureFind(h)
  PROVE  ChatInv'
  <1>0. /\ ChatRows /\ ChatRequests /\ pc[h] = "findChat"
        /\ UNCHANGED <<reps, chats, directs, twins, synced, sole>>
    BY DEF ChatInv, EnsureFind, messagingVars
  <1>1. /\ {"id", "reps"} \subseteq DOMAIN local[h] /\ local[h].reps \subseteq Reps
        /\ local[h].id \in 0..begun
    BY <1>0 DEF ChatRequests, ChatCarry, Syncs, Naming
  <1>2. CASE chats = {} /\ Goto(h, "createChat")
    <2>1. ChatCarry("createChat", local[h], begun)
      BY <1>1 DEF ChatCarry, Syncs, Naming
    <2>2. ChatRequests' /\ Elsewhere(h) /\ pc'[h] = "createChat" /\ local'[h] = local[h] /\ begun' = begun
      BY <1>0, <1>2, <2>1, ChatGoto DEF ChatAwaits, Syncs, Naming
    <2>3. OnCourse(h)'
      BY <2>2 DEF OnCourse
    <2>4. QED
      BY <1>0, <1>2, <2>2, <2>3, QuietStep DEF Naming, Having
  <1>3. ASSUME NEW c \in chats, Carry(h, "members", [id |-> c.id])
        PROVE  ChatInv'
    <2>1. PICK r : r = With([id |-> c.id], local[h])
      OBVIOUS
    <2>2. r.id = c.id /\ r.reps = local[h].reps /\ {"id", "reps"} \subseteq DOMAIN r
      BY <1>1, <2>1 DEF With
    <2>3. c.id \in 0..begun
      BY DEF ChatInv, ChatRows, ChatRequests, GroupChat, Named
    <2>4. ChatCarry("members", r, begun)
      BY <1>1, <2>2, <2>3 DEF ChatCarry, Syncs, Having
    <2>5. ChatRequests' /\ Elsewhere(h) /\ pc'[h] = "members" /\ local'[h] = r /\ begun' = begun
      BY <1>0, <1>3, <2>1, <2>4, ChatGoesOn DEF ChatAwaits, Syncs, Having
    <2>6. OnCourse(h)'
      BY <2>5 DEF OnCourse
    <2>7. QED
      BY <1>0, <2>2, <2>5, <2>6, QuietStep DEF Syncs, Naming, Having
  <1>4. QED
    BY <1>2, <1>3 DEF EnsureFind

LEMMA EnsureMembersStep ==
  ASSUME ChatInv, NEW h \in Handlers, EnsureMembers(h)
  PROVE  ChatInv'
  <1>0. /\ ChatRows /\ ChatRequests /\ Named /\ pc[h] = "members"
        /\ UNCHANGED <<reps, chats, directs, twins, synced, sole>>
    BY DEF ChatInv, EnsureMembers, messagingVars
  <1>1. /\ {"id", "reps"} \subseteq DOMAIN local[h] /\ local[h].reps \subseteq Reps
        /\ local[h].id \in 0..begun
    BY <1>0 DEF ChatRequests, ChatCarry, Syncs, Having
  <1>2. PICK c \in chats : c = ById(local[h].id) /\ c.id = local[h].id
    BY <1>0, ChatFound DEF Having
  <1>3. PICK join, leave, known : /\ join = local[h].reps \ c.in /\ leave = c.in \ local[h].reps
                                  /\ known = c.in \cup c.left
    OBVIOUS
  <1>4. Carry(h, "join", [join |-> join, leave |-> leave, known |-> known])
    BY <1>2, <1>3 DEF EnsureMembers
  <1>5. PICK r : r = With([join |-> join, leave |-> leave, known |-> known], local[h])
    OBVIOUS
  <1>6. /\ r.id = local[h].id /\ r.reps = local[h].reps /\ r.join = join /\ r.leave = leave
        /\ {"id", "reps", "join", "leave"} \subseteq DOMAIN r
    BY <1>1, <1>5 DEF With
  <1>7. join \subseteq Reps /\ leave \subseteq Reps
    BY <1>0, <1>1, <1>3 DEF ChatRows, GroupChat
  <1>8. ChatCarry("join", r, begun)
    BY <1>1, <1>6, <1>7 DEF ChatCarry, Syncs, Having
  <1>9. ChatRequests' /\ Elsewhere(h) /\ pc'[h] = "join" /\ local'[h] = r /\ begun' = begun
    BY <1>0, <1>4, <1>5, <1>8, ChatGoesOn DEF ChatAwaits, Syncs, Having
  <1>10. OnCourse(h)'
    <2>1. \A d \in chats : d.id = local[h].id => d = c
      BY <1>0, <1>2 DEF Named
    <2>2. (c.in \cup join) \ leave = local[h].reps
      BY <1>3
    <2>3. QED
      BY <1>0, <1>6, <1>9, <2>1, <2>2 DEF OnCourse
  <1>11. QED
    BY <1>0, <1>2, <1>6, <1>9, <1>10, QuietStep DEF Syncs, Naming, Having

LEMMA MessagingFailStep ==
  ASSUME ChatInv, NEW h \in Handlers, MessagingFail(h)
  PROVE  ChatInv'
  <1>0. ChatRequests /\ Answer(h) /\ UNCHANGED <<reps, chats, directs, twins, synced, sole>>
    BY DEF ChatInv, MessagingFail, messagingVars
  <1>1. ChatRequests' /\ Elsewhere(h) /\ pc'[h] = "idle" /\ begun' = begun
    BY <1>0, ChatAnswer
  <1>2. QED
    BY <1>0, <1>1, QuietStep DEF Syncs, Naming, Having

LEMMA EnsureCreateStep ==
  ASSUME ChatInv, NEW h \in Handlers, EnsureCreate(h)
  PROVE  ChatInv'
  <1>0. /\ ChatRows /\ ChatRequests /\ Named /\ Alone /\ Single
        /\ pc[h] = "createChat" /\ Answer(h) /\ begun \in Nat
        /\ UNCHANGED <<reps, directs, sole>>
    BY DEF ChatInv, ChatRequests, EnsureCreate
  <1>1. local[h].reps \subseteq Reps /\ local[h].id \in 0..begun
    BY <1>0 DEF ChatRequests, ChatCarry, Syncs, Naming
  <1>2. PICK c : c = [id |-> local[h].id, in |-> local[h].reps, left |-> {}]
    OBVIOUS
  <1>3. c \in GroupChat /\ c.id = local[h].id /\ c.in = local[h].reps
    BY <1>1, <1>2 DEF GroupChat
  <1>4. /\ chats' = chats \cup {c} /\ synced' = Fresh(h)
        /\ twins' = IF h \in sole THEN twins ELSE twins \cup {"group"}
    BY <1>2 DEF EnsureCreate
  <1>5. ChatRequests' /\ Elsewhere(h) /\ pc'[h] = "idle" /\ begun' = begun
    BY <1>0, ChatAnswer
  <1>6. ChatRows'
    BY <1>0, <1>3, <1>4 DEF ChatRows
  <1>7. Named'
    <2>1. \A d \in chats : d.id # c.id
      BY <1>0, <1>3 DEF Named, Naming
    <2>2. \A d \in chats' : d.id <= begun
      BY <1>0, <1>1, <1>3, <1>4 DEF Named
    <2>3. \A d, e \in chats' : d.id = e.id => d = e
      BY <1>0, <1>4, <2>1 DEF Named
    <2>4. \A g \in Handlers : pc'[g] \in Naming => g # h /\ pc[g] \in Naming /\ local'[g] = local[g]
      BY <1>5 DEF Elsewhere, Naming
    <2>5. \A g \in Handlers : pc'[g] \in Naming => local'[g].id # c.id
      BY <1>0, <1>3, <2>4 DEF Named, Naming
    <2>6. \A g \in Handlers : pc'[g] \in Having => pc[g] \in Having /\ local'[g] = local[g]
      BY <1>5 DEF Elsewhere, Having
    <2>7. QED
      BY <1>0, <1>4, <1>5, <2>2, <2>3, <2>4, <2>5, <2>6 DEF Named
  <1>8. Alone'
    BY <1>0, <1>5, AloneKept DEF Syncs, Naming, Having
  <1>9. Single'
    <2>1. h \in sole => chats = {}
      BY <1>0 DEF Alone, Syncs, Naming
    <2>2. "group" \notin twins' => \A d, e \in chats' : d = e
      BY <1>4, <2>1
    <2>3. synced' => c.in = reps'
      BY <1>0, <1>3, <1>4 DEF Fresh
    <2>4. "direct" \in twins => "direct" \in twins'
      BY <1>4
    <2>5. synced' => \E d \in chats' : d.in = reps'
      BY <1>4, <2>3
    <2>6. QED
      BY <1>0, <1>5, <2>2, <2>4, <2>5, SingleKept
  <1>10. QED
    BY <1>5, <1>6, <1>7, <1>8, <1>9 DEF ChatInv

\* A sync lets one member of its chat in or out.
LEMMA MoveStep ==
  ASSUME ChatInv, NEW h \in Handlers, NEW c \in chats, c.id = local[h].id,
         NEW e \in GroupChat, e.id = c.id, chats' = (chats \ {c}) \cup {e},
         Elsewhere(h), ChatRequests', begun' = begun, pc[h] \in Having, pc'[h] \in Having,
         local'[h].id = local[h].id, ~synced', UNCHANGED <<reps, directs, twins, sole>>,
         h \in sole =>
           /\ pc'[h] = "join" => (e.in \cup local'[h].join) \ local'[h].leave = local'[h].reps
           /\ pc'[h] = "leave" => e.in \ local'[h].leave = local'[h].reps
  PROVE  ChatInv'
  <1>0. /\ ChatRows /\ ChatRequests /\ Named /\ Alone /\ Single /\ begun \in Nat
    BY DEF ChatInv, ChatRequests
  <1>1. ChatRows'
    BY <1>0 DEF ChatRows
  <1>2. SameIds
    BY <1>0, ChatReplaced
  <1>3. Named'
    BY <1>0, <1>1, <1>2, NamedKept DEF Naming, Having
  <1>4. Alone'
    <2>1. \A k \in chats' : k.id = local'[h].id => k = e
      BY <1>0 DEF Named
    <2>2. h \in sole => OnCourse(h)'
      BY <2>1 DEF OnCourse
    <2>3. QED
      BY <1>0, <2>2, AloneKept DEF Syncs, Having
  <1>5. Single'
    <2>1. "group" \notin twins' => \A k, d \in chats' : k = d
      BY <1>0, <1>2 DEF Single, SameIds
    <2>2. QED
      BY <1>0, <2>1, SingleKept DEF Having
  <1>6. QED
    BY <1>1, <1>3, <1>4, <1>5 DEF ChatInv

LEMMA EnsureJoinStep ==
  ASSUME ChatInv, NEW h \in Handlers, EnsureJoin(h)
  PROVE  ChatInv'
  <1>0. /\ ChatRows /\ ChatRequests /\ Named /\ Alone /\ pc[h] = "join" /\ pc[h] \in Having
        /\ UNCHANGED <<reps, directs, twins, sole>>
    BY DEF ChatInv, EnsureJoin, Having
  <1>1. PICK r : r = local[h]
    OBVIOUS
  <1>2. /\ {"id", "reps", "join", "leave"} \subseteq DOMAIN r /\ r.id \in 0..begun
        /\ r.reps \subseteq Reps /\ r.join \subseteq Reps /\ r.leave \subseteq Reps
    BY <1>0, <1>1 DEF ChatRequests, ChatCarry, Syncs
  <1>3. PICK c \in chats : c = ById(r.id) /\ c.id = r.id
    BY <1>0, <1>1, ChatFound
  <1>4. h \in sole => (c.in \cup r.join) \ r.leave = r.reps
    BY <1>0, <1>1, <1>3 DEF Alone, OnCourse, Syncs
  <1>5. CASE r.join = {} /\ Goto(h, "leave") /\ UNCHANGED <<chats, synced>>
    <2>1. ChatCarry("leave", r, begun)
      BY <1>2 DEF ChatCarry, Syncs, Having
    <2>2. ChatRequests' /\ Elsewhere(h) /\ pc'[h] = "leave" /\ local'[h] = r /\ begun' = begun
      BY <1>0, <1>1, <1>5, <2>1, ChatGoto DEF ChatAwaits, Syncs, Having
    <2>3. \A d \in chats : d.id = r.id => d = c
      BY <1>0, <1>3 DEF Named
    <2>4. h \in sole => c.in \ r.leave = r.reps
      BY <1>4, <1>5
    <2>5. h \in sole => OnCourse(h)'
      BY <1>5, <2>2, <2>3, <2>4 DEF OnCourse
    <2>6. QED
      BY <1>0, <1>1, <1>3, <1>5, <2>2, <2>5, QuietStep DEF Syncs, Naming, Having
  <1>6. CASE Answer(h) /\ UNCHANGED chats /\ synced' = FALSE
    <2>1. ChatRequests' /\ Elsewhere(h) /\ pc'[h] = "idle" /\ begun' = begun
      BY <1>0, <1>6, ChatAnswer
    <2>2. QED
      BY <1>0, <1>6, <2>1, QuietStep DEF Syncs, Naming, Having
  <1>7. ASSUME NEW u \in r.join, synced' = FALSE,
               chats' = (chats \ {c}) \cup {[c EXCEPT !.in = @ \cup {u}, !.left = @ \ {u}]},
               Carry(h, "join", [join |-> r.join \ {u}])
        PROVE  ChatInv'
    <2>1. PICK e : e = [c EXCEPT !.in = @ \cup {u}, !.left = @ \ {u}]
      OBVIOUS
    <2>2. c \in GroupChat /\ u \in Reps
      BY <1>0, <1>2 DEF ChatRows
    <2>3. e \in GroupChat /\ e.id = c.id /\ e.in = c.in \cup {u}
      BY <2>1, <2>2 DEF GroupChat
    <2>4. PICK rest : rest = r.join \ {u}
      OBVIOUS
    <2>5. PICK w : w = With([join |-> rest], r)
      OBVIOUS
    <2>6. /\ w.id = r.id /\ w.reps = r.reps /\ w.join = rest /\ w.leave = r.leave
          /\ {"id", "reps", "join", "leave"} \subseteq DOMAIN w
      BY <1>2, <2>5 DEF With
    <2>7. ChatCarry("join", w, begun)
      BY <1>2, <2>4, <2>6 DEF ChatCarry, Syncs, Having
    <2>8. ChatRequests' /\ Elsewhere(h) /\ pc'[h] = "join" /\ local'[h] = w /\ begun' = begun
      BY <1>0, <1>1, <1>7, <2>4, <2>5, <2>7, ChatGoesOn DEF ChatAwaits, Syncs, Having
    <2>9. (e.in \cup w.join) = c.in \cup r.join
      BY <2>3, <2>4, <2>6
    <2>10. QED
      <3>1. h \in sole => (e.in \cup local'[h].join) \ local'[h].leave = local'[h].reps
        BY <1>4, <2>6, <2>8, <2>9
      <3>2. chats' = (chats \ {c}) \cup {e} /\ local'[h].id = local[h].id /\ c.id = local[h].id
        BY <1>1, <1>3, <1>7, <2>1, <2>6, <2>8
      <3>3. pc'[h] \in Having /\ pc'[h] # "leave" /\ ~synced'
        BY <1>7, <2>8 DEF Having
      <3>4. QED
        BY <1>0, <2>3, <2>8, <3>1, <3>2, <3>3, MoveStep
  <1>8. QED
    BY <1>1, <1>3, <1>5, <1>6, <1>7 DEF EnsureJoin

LEMMA EnsureLeaveStep ==
  ASSUME ChatInv, NEW h \in Handlers, EnsureLeave(h)
  PROVE  ChatInv'
  <1>0. /\ ChatRows /\ ChatRequests /\ Named /\ Alone /\ Single /\ begun \in Nat
        /\ pc[h] = "leave" /\ pc[h] \in Having
        /\ UNCHANGED <<reps, directs, twins, sole>>
    BY DEF ChatInv, EnsureLeave, Having, ChatRequests
  <1>1. PICK r : r = local[h]
    OBVIOUS
  <1>2. /\ {"id", "reps", "leave"} \subseteq DOMAIN r /\ r.id \in 0..begun
        /\ r.reps \subseteq Reps /\ r.leave \subseteq Reps
    BY <1>0, <1>1 DEF ChatRequests, ChatCarry, Syncs
  <1>3. PICK c \in chats : c = ById(r.id) /\ c.id = r.id
    BY <1>0, <1>1, ChatFound
  <1>4. h \in sole => c.in \ r.leave = r.reps
    BY <1>0, <1>1, <1>3 DEF Alone, OnCourse, Syncs
  <1>5. CASE r.leave = {} /\ synced' = Fresh(h) /\ Answer(h) /\ UNCHANGED chats
    <2>1. ChatRequests' /\ Elsewhere(h) /\ pc'[h] = "idle" /\ begun' = begun
      BY <1>0, <1>5, ChatAnswer
    <2>2. ChatRows'
      BY <1>0, <1>5 DEF ChatRows
    <2>3. Named'
      BY <1>0, <1>5, <2>1, <2>2, SameChats, NamedKept DEF Naming, Having
    <2>4. Alone'
      BY <1>0, <1>5, <2>1, AloneKept DEF Syncs, Naming, Having
    <2>5. synced' => c.in = reps
      BY <1>1, <1>4, <1>5 DEF Fresh
    <2>6. Single'
      BY <1>0, <1>5, <2>1, <2>5, SingleKept DEF Single
    <2>7. QED
      BY <2>1, <2>2, <2>3, <2>4, <2>6 DEF ChatInv
  <1>6. ASSUME NEW u \in r.leave, synced' = FALSE,
               chats' = (chats \ {c}) \cup {[c EXCEPT !.in = @ \ {u}, !.left = @ \cup {u}]},
               Carry(h, "leave", [leave |-> r.leave \ {u}])
        PROVE  ChatInv'
    <2>1. PICK e : e = [c EXCEPT !.in = @ \ {u}, !.left = @ \cup {u}]
      OBVIOUS
    <2>2. c \in GroupChat /\ u \in Reps
      BY <1>0, <1>2 DEF ChatRows
    <2>3. e \in GroupChat /\ e.id = c.id /\ e.in = c.in \ {u}
      BY <2>1, <2>2 DEF GroupChat
    <2>4. PICK rest : rest = r.leave \ {u}
      OBVIOUS
    <2>5. PICK w : w = With([leave |-> rest], r)
      OBVIOUS
    <2>6. /\ w.id = r.id /\ w.reps = r.reps /\ w.leave = rest
          /\ {"id", "reps", "leave"} \subseteq DOMAIN w
      BY <1>2, <2>5 DEF With
    <2>7. ChatCarry("leave", w, begun)
      BY <1>2, <2>4, <2>6 DEF ChatCarry, Syncs, Having
    <2>8. ChatRequests' /\ Elsewhere(h) /\ pc'[h] = "leave" /\ local'[h] = w /\ begun' = begun
      BY <1>0, <1>1, <1>6, <2>4, <2>5, <2>7, ChatGoesOn DEF ChatAwaits, Syncs, Having
    <2>9. e.in \ w.leave = c.in \ r.leave
      BY <2>3, <2>4, <2>6
    <2>10. QED
      BY <1>0, <1>1, <1>3, <1>4, <1>6, <2>1, <2>3, <2>6, <2>8, <2>9, MoveStep, ZenonT(60) DEF Having
  <1>7. QED
    BY <1>1, <1>3, <1>5, <1>6 DEF EnsureLeave

LEMMA DirectFindStep ==
  ASSUME ChatInv, NEW h \in Handlers, DirectFind(h)
  PROVE  ChatInv'
  <1>0. /\ ChatRows /\ ChatRequests /\ Named /\ Alone /\ Single /\ begun \in Nat /\ Open = {}
        /\ UNCHANGED <<reps, chats, directs, synced, sole>>
    BY DEF ChatInv, DirectFind, ChatRequests
  <1>1. PICK r : r = [id |-> begun + 1]
    OBVIOUS
  <1>2. ChatCarry("direct", r, begun + 1)
    BY <1>0, <1>1 DEF ChatCarry, Syncs, Naming, Having
  <1>3. /\ ChatRequests' /\ Elsewhere(h)
        /\ pc[h] = "idle" /\ pc'[h] = "direct" /\ begun' = begun + 1
    BY <1>0, <1>1, <1>2, ChatBegin DEF DirectFind, ChatAwaits
  <1>4. ChatRows'
    BY <1>0 DEF ChatRows
  <1>5. Named'
    BY <1>0, <1>3, <1>4, SameChats, NamedKept DEF Naming, Having
  <1>6. Alone'
    BY <1>0, <1>3, AloneKept DEF Syncs, Naming, Having
  <1>7. Single'
    <2>1. twins' = IF \E g \in Handlers : pc[g] = "direct" THEN twins \cup {"direct"} ELSE twins
      BY DEF DirectFind
    <2>2. "group" \notin twins' => "group" \notin twins
      BY <2>1
    <2>3. "direct" \notin twins' => \A g \in Handlers : pc'[g] = "direct" => g = h
      BY <1>3, <2>1 DEF Elsewhere
    <2>4. Open' = {}
      BY <1>0 DEF Open
    <2>5. QED
      BY <1>0, <2>2, <2>3, <2>4 DEF Single
  <1>8. QED
    BY <1>3, <1>4, <1>5, <1>6, <1>7 DEF ChatInv

LEMMA DirectCreateStep ==
  ASSUME ChatInv, NEW h \in Handlers, DirectCreate(h)
  PROVE  ChatInv'
  <1>0. /\ ChatRows /\ ChatRequests /\ Named /\ Alone /\ Single /\ begun \in Nat
        /\ pc[h] = "direct" /\ Answer(h)
        /\ UNCHANGED <<reps, chats, twins, synced, sole>>
    BY DEF ChatInv, DirectCreate, ChatRequests
  <1>1. PICK d : d = [id |-> local[h].id, archived |-> FALSE, left |-> FALSE]
    OBVIOUS
  <1>2. directs' = directs \cup {d}
    BY <1>1 DEF DirectCreate
  <1>3. d \in DirectChat
    BY <1>0, <1>1 DEF DirectChat, ChatRequests, ChatCarry
  <1>4. ChatRequests' /\ Elsewhere(h) /\ pc'[h] = "idle" /\ begun' = begun
    BY <1>0, ChatAnswer
  <1>5. ChatRows'
    BY <1>0, <1>2, <1>3 DEF ChatRows
  <1>6. Named'
    BY <1>0, <1>4, <1>5, SameChats, NamedKept DEF Naming, Having
  <1>7. Alone'
    BY <1>0, <1>4, AloneKept DEF Syncs, Naming, Having
  <1>8. Single'
    <2>1. Open' \subseteq Open \cup {d}
      BY <1>2 DEF Open
    <2>2. \A g \in Handlers : pc'[g] = "direct" => g # h /\ pc[g] = "direct"
      BY <1>4 DEF Elsewhere
    <2>3. QED
      BY <1>0, <2>1, <2>2 DEF Single
  <1>9. QED
    BY <1>4, <1>5, <1>6, <1>7, <1>8 DEF ChatInv

\* No sync and no creation goes on by such a step.
LEMMA NoSyncStep ==
  ASSUME ChatInv, UNCHANGED <<chats, sole, pc, local>>, begun' = begun \/ begun' = begun + 1,
         reps' \subseteq Reps, directs' \subseteq DirectChat, synced' => synced /\ reps' = reps,
         twins \subseteq twins', "group" \in twins' => "group" \in twins,
         "direct" \notin twins' => Open' \subseteq Open
  PROVE  ChatInv'
  <1>0. ChatRows /\ ChatRequests /\ Named /\ Alone /\ Single /\ begun \in Nat
    BY DEF ChatInv, ChatRequests
  <1>1. begun' \in Nat /\ begun <= begun'
    BY <1>0
  <1>2. ChatRows'
    BY <1>0 DEF ChatRows
  <1>3. ChatRequests'
    <2>1. \A h \in Handlers : ChatCarry(pc[h], local[h], begun')
      BY <1>0, <1>1, CarryAsMany DEF ChatRequests
    <2>2. QED
      BY <1>0, <1>1, <2>1 DEF ChatRequests
  <1>4. Named'
    <2>1. \A c \in chats : c.id \in Nat /\ c.id <= begun
      BY <1>0 DEF Named, ChatRows, GroupChat
    <2>2. \A c \in chats : c.id <= begun'
      BY <1>0, <1>1, <2>1
    <2>3. QED
      BY <1>0, <2>2 DEF Named
  <1>5. Alone'
    BY <1>0 DEF Alone, OnCourse
  <1>6. Single'
    BY <1>0 DEF Single
  <1>7. QED
    BY <1>2, <1>3, <1>4, <1>5, <1>6 DEF ChatInv

LEMMA EditsStep ==
  ASSUME ChatInv, NEW d \in directs,
         ArchiveConversation(d) \/ UnarchiveConversation(d) \/ LeaveConversation(d)
  PROVE  ChatInv'
  <1>0. directs \subseteq DirectChat /\ d \in DirectChat /\ reps \subseteq Reps
    BY DEF ChatInv, ChatRows
  <1>1. ASSUME NEW e, NEW kinds \in SUBSET {"direct"}, DirectEdit(d, e, kinds), e \in DirectChat,
               e.archived = TRUE \/ e.left = TRUE \/ "direct" \in kinds
        PROVE  ChatInv'
    <2>1. /\ directs' = (directs \ {d}) \cup {e} /\ twins' = twins \cup kinds /\ begun' = begun + 1
          /\ UNCHANGED <<reps, chats, synced, sole, pc, local>>
      BY <1>1 DEF DirectEdit
    <2>2. directs' \subseteq DirectChat /\ twins \subseteq twins'
      BY <1>0, <1>1, <2>1
    <2>3. "group" \in twins' => "group" \in twins
      BY <2>1
    <2>4. "direct" \notin twins' => Open' \subseteq Open
      BY <1>1, <2>1 DEF Open
    <2>5. QED
      BY <1>0, <2>1, <2>2, <2>3, <2>4, NoSyncStep
  <1>2. CASE ArchiveConversation(d)
    <2>1. PICK e : e = [d EXCEPT !.archived = TRUE]
      OBVIOUS
    <2>2. e \in DirectChat /\ e.archived = TRUE
      BY <1>0, <2>1 DEF DirectChat
    <2>3. DirectEdit(d, e, {}) /\ {} \in SUBSET {"direct"}
      BY <1>2, <2>1 DEF ArchiveConversation
    <2>4. QED
      BY <1>1, <2>2, <2>3
  <1>3. CASE UnarchiveConversation(d)
    <2>1. PICK e : e = [d EXCEPT !.archived = FALSE]
      OBVIOUS
    <2>2. e \in DirectChat
      BY <1>0, <2>1 DEF DirectChat
    <2>3. QED
      BY <1>1, <1>3, <2>1, <2>2 DEF UnarchiveConversation
  <1>4. CASE LeaveConversation(d)
    <2>1. PICK e : e = [d EXCEPT !.left = TRUE]
      OBVIOUS
    <2>2. e \in DirectChat /\ e.left = TRUE
      BY <1>0, <2>1 DEF DirectChat
    <2>3. DirectEdit(d, e, {}) /\ {} \in SUBSET {"direct"}
      BY <1>4, <2>1 DEF LeaveConversation
    <2>4. QED
      BY <1>1, <2>2, <2>3
  <1>5. QED
    BY <1>2, <1>3, <1>4

\* The reps, presence, or nothing changes.
LEMMA RestStep ==
  ASSUME ChatInv, RepsChange \/ PresenceNext \/ UNCHANGED messaging
  PROVE  ChatInv'
  <1>0. reps \subseteq Reps /\ directs \subseteq DirectChat
    BY DEF ChatInv, ChatRows
  <1>1. CASE RepsChange
    <2>1. /\ UNCHANGED <<chats, directs, twins, sole, pc, local>> /\ begun' = begun + 1 /\ ~synced'
          /\ reps' \subseteq Reps
      BY <1>0, <1>1 DEF RepsChange
    <2>2. Open' = Open
      BY <2>1 DEF Open
    <2>3. QED
      BY <1>0, <2>1, <2>2, NoSyncStep
  <1>2. CASE PresenceNext \/ UNCHANGED messaging
    <2>1. /\ UNCHANGED <<reps, chats, directs, twins, synced, sole, pc, local>>
          /\ begun' = begun \/ begun' = begun + 1
      <3>1. CASE SocketConnect \/ SocketDisconnect \/ PresenceUpdate
        BY <3>1 DEF SocketConnect, SocketDisconnect, PresenceUpdate, SocketEvent
      <3>2. CASE PresenceWrite \/ CacheAge \/ PresenceAge \/ CleanupPresence
        BY <3>2 DEF PresenceWrite, CacheAge, PresenceAge, CleanupPresence, handlerVars
      <3>3. CASE UNCHANGED messaging
        BY <3>3 DEF messaging, messagingVars, handlerVars
      <3>4. QED
        BY <1>2, <3>1, <3>2, <3>3 DEF PresenceNext
    <2>2. Open' = Open
      BY <2>1 DEF Open
    <2>3. QED
      BY <1>0, <2>1, <2>2, NoSyncStep
  <1>3. QED
    BY <1>1, <1>2

-----------------------------------------------------------------------------
(* The theorems about the chats.                                           *)

LEMMA ChatStep ==
  ASSUME ChatInv, MessagingNext
  PROVE  ChatInv'
  <1>1. CASE \E d \in directs : ArchiveConversation(d) \/ UnarchiveConversation(d) \/ LeaveConversation(d)
    BY <1>1, EditsStep
  <1>2. ASSUME NEW h \in Handlers,
               \/ EnsureRead(h) \/ EnsureFind(h) \/ EnsureCreate(h)
               \/ EnsureMembers(h) \/ EnsureJoin(h) \/ EnsureLeave(h)
               \/ DirectFind(h) \/ DirectCreate(h)
               \/ MessagingFail(h)
        PROVE  ChatInv'
    BY <1>2, EnsureReadStep, EnsureFindStep, EnsureCreateStep, EnsureMembersStep, EnsureJoinStep,
       EnsureLeaveStep, DirectFindStep, DirectCreateStep, MessagingFailStep
  <1>3. CASE RepsChange \/ PresenceNext
    BY <1>3, RestStep
  <1>4. QED
    BY <1>1, <1>2, <1>3 DEF MessagingNext, ChatsNext

LEMMA ChatStart ==
  ASSUME MessagingInit, RequestsInit
  PROVE  ChatInv
  <1>0. /\ reps \subseteq Reps /\ chats = {} /\ directs = {} /\ sole = {} /\ ~synced
        /\ begun = 0 /\ pc = [h \in Handlers |-> "idle"] /\ local = [h \in Handlers |-> Nothing]
    BY DEF MessagingInit, RequestsInit
  <1>1. ChatRows /\ Alone
    BY <1>0 DEF ChatRows, Alone
  <1>2. ChatRequests
    <2>1. ChatCarry("idle", Nothing, begun)
      BY DEF ChatCarry, Syncs, Naming, Having
    <2>2. QED
      BY <1>0, <2>1 DEF ChatRequests
  <1>3. Named
    BY <1>0 DEF Named, Naming, Having
  <1>4. Single
    BY <1>0 DEF Single, Open
  <1>5. QED
    BY <1>1, <1>2, <1>3, <1>4 DEF ChatInv

\* A sync that nobody overlaps makes the one group chat, or steers it to the reps it
\* has read, and two direct chats are open only when both were looked for at once or
\* one was unarchived (ensureSalesRepGroupChat, createConversation).
THEOREM ChatInvariant == MessagingSpec => []ChatInv
  <1>1. MessagingInit /\ RequestsInit => ChatInv
    BY ChatStart
  <1>2. ChatInv /\ [MessagingNext]_messaging => ChatInv'
    BY ChatStep, RestStep
  <1>3. QED
    BY <1>1, <1>2, PTL DEF MessagingSpec

LEMMA AtMostOne ==
  ASSUME NEW S, \A c, d \in S : c = d
  PROVE  Cardinality(S) <= 1
  <1>1. CASE S = {}
    BY <1>1, FS_EmptySet
  <1>2. CASE S # {}
    <2>1. PICK c : S = {c}
      BY <1>2
    <2>2. Cardinality({c}) = 1
      BY FS_Singleton
    <2>3. QED
      BY <2>1, <2>2
  <1>3. QED
    BY <1>1, <1>2

\* The reps have one group chat and the pair one open direct chat, overlapping
\* creations and unarchived chats apart, and after a sync that nothing disturbed
\* the reps are the group's members (ensureSalesRepGroupChat, createConversation).
THEOREM OneChat == MessagingSpec => []OneChatEach
  <1>1. ChatInv => OneChatEach
    <2> SUFFICES ASSUME ChatInv
                 PROVE  OneChatEach
      OBVIOUS
    <2>1. "group" \notin twins => Cardinality(chats) <= 1
      BY AtMostOne DEF ChatInv, Single
    <2>2. "direct" \notin twins => Cardinality(Open) <= 1
      BY AtMostOne DEF ChatInv, Single
    <2>3. QED
      BY <2>1, <2>2 DEF ChatInv, Single, OneChatEach
  <1>2. QED
    BY <1>1, ChatInvariant, PTL
=============================================================================

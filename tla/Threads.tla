------------------------------ MODULE Threads -------------------------------
(***************************************************************************)
(* Threads: one named group of a dealership, its members, its messages and *)
(* what the members see of them (messages.service.js, lib/socket.js).      *)
(*                                                                         *)
(* The conversation row keeps a preview of the newest message, a member    *)
(* the time of the last reading, from which the unread messages are        *)
(* counted, and a message the receipts of its readers.  Live messages go   *)
(* to the sockets in the conversation's room.  These are written one after *)
(* another, so requests that overlap can leave them apart.  A message's    *)
(* time is its number; texts, edits of texts, reactions and drafts are     *)
(* left out, and a user has one socket at a time.                          *)
(***************************************************************************)
EXTENDS Requests, Sequences

CONSTANTS Members, Creator

ASSUME ThreadsAssumption == Creator \in Members

VARIABLES
  thread,    \* the messages
  preview,   \* the message the conversation row shows, 0 at first
  member,    \* memberships
  receipts,  \* MessageRead rows: who has read which message
  socket,    \* the socket a user has open, by the request that opened it, or 0
  room,      \* the users whose socket is in the conversation's room
  behind,    \* history: a send that overlapped another, or died, may have left the preview behind
  skipped,   \* history: messages a reading passed over while they came in, or as a whole
  deaf       \* history: users whose join of the room failed

threadsVars == <<thread, preview, member, receipts, socket, room, behind, skipped, deaf>>

Outside == [in |-> "never", admin |-> FALSE, read |-> 0]
In(u) == member[u].in = "in"
Admin(u) == In(u) /\ member[u].admin

\* What the conversation list counts for u.
Unread(u) == {n \in DOMAIN thread : thread[n].by # u /\ ~thread[n].gone /\ n > member[u].read}

-----------------------------------------------------------------------------
(* Messages, by REST or by socket: stored first, shown in the list and     *)
(* sent to the room afterwards.                                            *)

SendCheck(h) == \E u \in Members :
  /\ In(u)
  /\ Begin(h, "store", [user |-> u])
  /\ UNCHANGED threadsVars

Previewing(h) == {g \in Handlers \ {h} : pc[g] = "preview"}

SendCreate(h) ==
  /\ pc[h] = "store"
  /\ thread' = Append(thread, [by |-> local[h].user, gone |-> FALSE])
  /\ pc' = [pc EXCEPT ![h] = "preview"]
  /\ local' = [g \in Handlers |->
       IF g = h THEN [user |-> local[h].user, id |-> Len(thread) + 1, alone |-> Previewing(h) = {}]
       ELSE IF g \in Previewing(h) THEN [local[g] EXCEPT !.alone = FALSE] ELSE local[g]]
  /\ UNCHANGED <<begun, preview, member, receipts, socket, room, behind, skipped, deaf>>

SendPreview(h) ==
  /\ pc[h] = "preview"
  /\ preview' = local[h].id
  /\ behind' = ~local[h].alone
  /\ Answer(h)
  /\ UNCHANGED <<thread, member, receipts, socket, room, skipped, deaf>>

\* The author, whether a member or not, or an admin.  The preview stays.
DeleteCheck(h) == \E u \in Members, n \in DOMAIN thread :
  /\ thread[n].by = u \/ Admin(u)
  /\ Begin(h, "delete", [user |-> u, id |-> n])
  /\ UNCHANGED threadsVars

DeleteMessage(h) ==
  /\ pc[h] = "delete"
  /\ thread' = [thread EXCEPT ![local[h].id].gone = TRUE]
  /\ Answer(h)
  /\ UNCHANGED <<preview, member, receipts, socket, room, behind, skipped, deaf>>

-----------------------------------------------------------------------------
(* Reading.  The time of the reading is taken when the receipts are        *)
(* written: what came in since the messages were read is passed over.      *)

MarkRead(h) == \E u \in Members :
  /\ In(u)
  /\ Begin(h, IF Unread(u) = {} THEN "lastRead" ELSE "receipts",
           [user |-> u, unread |-> Unread(u), seen |-> Len(thread), at |-> Len(thread), late |-> {}])
  /\ UNCHANGED threadsVars

ReadNow(h) == Carry(h, "lastRead", [at |-> Len(thread), late |-> local[h].seen + 1..Len(thread)])

\* Mutant: the reading is noted without its receipts.
WriteNoReceipts(h) ==
  /\ pc[h] = "receipts"
  /\ ReadNow(h)
  /\ UNCHANGED threadsVars

WriteReceipts(h) ==
  /\ pc[h] = "receipts"
  /\ receipts' = receipts \cup ({local[h].user} \X local[h].unread)
  /\ ReadNow(h)
  /\ UNCHANGED <<thread, preview, member, socket, room, behind, skipped, deaf>>

\* The socket event writes one receipt at most, and the time for all of them.
SocketRead(h) == \E u \in Members, ids \in {{}} \cup {{n} : n \in DOMAIN thread} :
  /\ socket[u] # 0
  /\ receipts' = receipts \cup ({u} \X ids)
  /\ Begin(h, "lastRead", [user |-> u, at |-> Len(thread), late |-> DOMAIN thread \ ids])
  /\ UNCHANGED <<thread, preview, member, socket, room, behind, skipped, deaf>>

WriteLastRead(h) == LET r == local[h] IN
  /\ pc[h] = "lastRead"
  /\ IF In(r.user)
     THEN /\ member' = [member EXCEPT ![r.user].read = r.at]
          /\ skipped' = skipped \cup ({r.user} \X r.late)
     ELSE UNCHANGED <<member, skipped>>
  /\ Answer(h)
  /\ UNCHANGED <<thread, preview, receipts, socket, room, behind, deaf>>

\* A receipt by itself, from a member or not.
MarkMessageRead == \E u \in Members, n \in DOMAIN thread :
  /\ begun < MaxRequests /\ begun' = begun + 1
  /\ receipts' = receipts \cup {<<u, n>>}
  /\ UNCHANGED <<thread, preview, member, socket, room, behind, skipped, deaf, pc, local>>

-----------------------------------------------------------------------------
(* Membership.                                                             *)

AddFind(h) == \E a, u \in Members :
  /\ Admin(a)
  /\ Begin(h, "add", [user |-> u, was |-> member[u].in])
  /\ UNCHANGED threadsVars

\* Somebody who comes back is no admin any more; P2002 when a new member was
\* entered meanwhile.
AddParticipants(h) == LET u == local[h].user  was == local[h].was IN
  /\ pc[h] = "add"
  /\ IF was = "never" /\ member[u].in # "never" THEN Answer(h) /\ UNCHANGED member
     ELSE /\ member' = IF was = "in" THEN member
                       ELSE [member EXCEPT ![u].in = "in", ![u].admin = FALSE]
          /\ Goto(h, "call")
  /\ UNCHANGED <<thread, preview, receipts, socket, room, behind, skipped, deaf>>

\* joinUsersToConversation, when the transaction has answered.
CallIn(h) == LET u == local[h].user IN
  /\ pc[h] = "call"
  /\ room' = IF socket[u] = 0 THEN room ELSE room \cup {u}
  /\ deaf' = IF socket[u] = 0 THEN deaf ELSE deaf \ {u}
  /\ Answer(h)
  /\ UNCHANGED <<thread, preview, member, receipts, socket, behind, skipped>>

\* An admin removes a member, or a member leaves.
RemoveCheck(h) == \E a, u \in Members :
  /\ In(a) /\ (a = u \/ Admin(a))
  /\ Begin(h, "remove", [user |-> u])
  /\ UNCHANGED threadsVars

\* The socket stays in the room.
RemoveParticipant(h) == LET u == local[h].user IN
  /\ pc[h] = "remove"
  /\ member' = IF In(u) THEN [member EXCEPT ![u].in = "left"] ELSE member
  /\ Answer(h)
  /\ UNCHANGED <<thread, preview, receipts, socket, room, behind, skipped, deaf>>

-----------------------------------------------------------------------------
(* Sockets.                                                                *)

OpenSocket(h) == \E u \in Members :
  /\ socket[u] = 0
  /\ Begin(h, "memberships", [user |-> u, socket |-> begun + 1])
  /\ socket' = [socket EXCEPT ![u] = begun + 1]
  /\ UNCHANGED <<thread, preview, member, receipts, room, behind, skipped, deaf>>

\* The client asks for the room again.
ConversationJoin(h) == \E u \in Members :
  /\ socket[u] # 0
  /\ Begin(h, "memberships", [user |-> u, socket |-> socket[u]])
  /\ UNCHANGED threadsVars

FindMemberships(h) ==
  /\ pc[h] = "memberships"
  /\ Carry(h, "enter", [in |-> In(local[h].user)])
  /\ UNCHANGED threadsVars

JoinRoom(h) == LET r == local[h] IN
  /\ pc[h] = "enter"
  /\ IF r.in /\ socket[r.user] = r.socket
     THEN room' = room \cup {r.user} /\ deaf' = deaf \ {r.user}
     ELSE UNCHANGED <<room, deaf>>
  /\ Answer(h)
  /\ UNCHANGED <<thread, preview, member, receipts, socket, behind, skipped>>

Disconnect == \E u \in Members :
  /\ socket[u] # 0
  /\ begun < MaxRequests /\ begun' = begun + 1
  /\ socket' = [socket EXCEPT ![u] = 0]
  /\ room' = room \ {u} /\ deaf' = deaf \ {u}
  /\ UNCHANGED <<thread, preview, member, receipts, behind, skipped, pc, local>>

\* A statement fails, or the process dies.
ThreadsFail(h) ==
  /\ pc[h] # "idle"
  /\ behind' = (behind \/ pc[h] = "preview")
  /\ deaf' = deaf \cup IF pc[h] \in {"memberships", "enter", "call"} THEN {local[h].user} ELSE {}
  /\ Answer(h)
  /\ UNCHANGED <<thread, preview, member, receipts, socket, room, skipped>>

-----------------------------------------------------------------------------
\* The creator is the group's admin, the others were invited or not.
ThreadsInit ==
  /\ thread = <<>> /\ preview = 0
  /\ \E invited \in SUBSET Members :
       member = [u \in Members |-> [Outside EXCEPT
                   !.in = IF u \in invited \cup {Creator} THEN "in" ELSE "never",
                   !.admin = (u = Creator)]]
  /\ receipts = {} /\ skipped = {}
  /\ socket = [u \in Members |-> 0]
  /\ room = {} /\ deaf = {}
  /\ behind = FALSE

ThreadsNext ==
  \/ MarkMessageRead \/ Disconnect
  \/ \E h \in Handlers :
       \/ SendCheck(h) \/ SendCreate(h) \/ SendPreview(h)
       \/ DeleteCheck(h) \/ DeleteMessage(h)
       \/ MarkRead(h) \/ WriteReceipts(h) \/ SocketRead(h) \/ WriteLastRead(h)
       \/ AddFind(h) \/ AddParticipants(h) \/ CallIn(h)
       \/ RemoveCheck(h) \/ RemoveParticipant(h)
       \/ OpenSocket(h) \/ ConversationJoin(h) \/ FindMemberships(h) \/ JoinRoom(h)
       \/ ThreadsFail(h)

ThreadsSpec == ThreadsInit /\ RequestsInit /\ [][ThreadsNext]_<<threadsVars, handlerVars>>

-----------------------------------------------------------------------------
Busy(awaits) == {h \in Handlers : pc[h] \in awaits}

\* What the members see of a group agrees with what is stored.  The list shows
\* the newest message, unless sends overlapped or one died; a message that is no
\* longer counted as unread has its reader's receipt, unless a reading passed
\* over it; and a member's open socket is in the room, unless a join is under
\* way or failed (sendMessage, markRead, addParticipants, socket.js).
MembersSeeTheThread ==
  /\ Busy({"preview"}) = {} /\ ~behind => preview = Len(thread)
  /\ \A u \in Members : \A n \in DOMAIN thread :
       thread[n].by # u /\ ~thread[n].gone /\ n \notin Unread(u)
         => <<u, n>> \in receipts \cup skipped
  /\ \A u \in Members : In(u) /\ socket[u] # 0 =>
       u \in room \cup deaf \cup {local[h].user : h \in Busy({"memberships", "enter", "call"})}

=============================================================================

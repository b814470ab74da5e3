----------------------------- MODULE Messaging ------------------------------
(***************************************************************************)
(* Messaging: the chats of one dealership and who is shown online          *)
(* (messages.service.js, lib/socket.js, jobs/messages.js).                 *)
(*                                                                         *)
(* The sales reps have one locked group chat, made and kept in step with   *)
(* them whenever somebody lists the conversations; two users have one      *)
(* direct chat.  No index backs either.  Presence is a row per user,       *)
(* written by socket events through a cache in the one process that is     *)
(* modelled, and by a job that looks for rows nobody has written lately.   *)
(* One pair of users stands for all; other groups, message texts, reads    *)
(* and reactions are left out.  Sends are in Jobs.                         *)
(***************************************************************************)
EXTENDS Requests

CONSTANTS Reps, MaxSockets

ASSUME MessagingAssumption == MaxSockets \in Nat

VARIABLES
  reps,       \* the active sales reps
  chats,      \* the system group chats, by id, with their members
  directs,    \* the direct chats of the pair
  sockets,    \* the sockets the user has open
  presence,   \* the user's row: online, and written within two minutes
  cache,      \* the user's entry in presenceCache
  twins,      \* history: the kinds of chat a race or an unarchiving may have doubled
  synced,     \* history: a sync that ran alone has seen the reps as they are
  sole        \* history: the sync that began alone, until another one begins

messagingVars == <<reps, chats, directs, sockets, presence, cache, twins, synced, sole>>
messaging == <<messagingVars, handlerVars>>

ById(id) == CHOOSE c \in chats : c.id = id
NoEntry == [seen |-> FALSE, online |-> FALSE, recent |-> FALSE, inflight |-> FALSE, writing |-> FALSE]

Syncing(h) == {g \in Handlers \ {h} : pc[g] \in {"findChat", "createChat", "members", "join", "leave"}}

-----------------------------------------------------------------------------
(* ensureSalesRepGroupChat.                                                *)

EnsureRead(h) ==
  /\ Begin(h, "findChat", [reps |-> reps, id |-> begun + 1])
  /\ sole' = IF Syncing(h) = {} THEN {h} ELSE {}
  /\ UNCHANGED <<reps, chats, directs, sockets, presence, cache, twins, synced>>

EnsureFind(h) ==
  /\ pc[h] = "findChat"
  /\ IF chats = {} THEN Goto(h, "createChat")
     ELSE \E c \in chats : Carry(h, "members", [id |-> c.id])
  /\ UNCHANGED messagingVars

\* Whether the sync of h was alone and its picture of the reps is still right.
Fresh(h) == h \in sole /\ local[h].reps = reps

\* Mutant: the chat starts without its members.
EnsureCreateEmpty(h) == LET r == local[h] IN
  /\ pc[h] = "createChat"
  /\ chats' = chats \cup {[id |-> r.id, in |-> {}, left |-> {}]}
  /\ twins' = IF h \in sole THEN twins ELSE twins \cup {"group"}
  /\ synced' = Fresh(h)
  /\ Answer(h)
  /\ UNCHANGED <<reps, directs, sockets, presence, cache, sole>>

EnsureCreate(h) == LET r == local[h] IN
  /\ pc[h] = "createChat"
  /\ chats' = chats \cup {[id |-> r.id, in |-> r.reps, left |-> {}]}
  /\ twins' = IF h \in sole THEN twins ELSE twins \cup {"group"}
  /\ synced' = Fresh(h)
  /\ Answer(h)
  /\ UNCHANGED <<reps, directs, sockets, presence, cache, sole>>

EnsureMembers(h) == LET c == ById(local[h].id) IN
  /\ pc[h] = "members"
  /\ Carry(h, "join", [join |-> local[h].reps \ c.in, leave |-> c.in \ local[h].reps, known |-> c.in \cup c.left])
  /\ UNCHANGED messagingVars

\* Those who are new or were out, one after another; P2002 ends the sync when a
\* new member was entered meanwhile.
EnsureJoin(h) == LET r == local[h]  c == ById(r.id) IN
  /\ pc[h] = "join"
  /\ \/ r.join = {} /\ Goto(h, "leave") /\ UNCHANGED <<chats, synced>>
     \/ \E u \in r.join :
          IF u \notin r.known /\ u \in c.in \cup c.left
          THEN Answer(h) /\ UNCHANGED chats /\ synced' = FALSE
          ELSE /\ chats' = (chats \ {c}) \cup {[c EXCEPT !.in = @ \cup {u}, !.left = @ \ {u}]}
               /\ synced' = FALSE
               /\ Carry(h, "join", [join |-> r.join \ {u}])
  /\ UNCHANGED <<reps, directs, sockets, presence, cache, twins, sole>>

EnsureLeave(h) == LET r == local[h]  c == ById(r.id) IN
  /\ pc[h] = "leave"
  /\ \/ r.leave = {} /\ synced' = Fresh(h) /\ Answer(h) /\ UNCHANGED chats
     \/ \E u \in r.leave :
          /\ chats' = (chats \ {c}) \cup {[c EXCEPT !.in = @ \ {u}, !.left = @ \cup {u}]}
          /\ synced' = FALSE
          /\ Carry(h, "leave", [leave |-> r.leave \ {u}])
  /\ UNCHANGED <<reps, directs, sockets, presence, cache, twins, sole>>

\* A rep is hired, archived, or switched on or off.
RepsChange == \E r \in Reps :
  /\ begun < MaxRequests /\ begun' = begun + 1
  /\ reps' = IF r \in reps THEN reps \ {r} ELSE reps \cup {r}
  /\ synced' = FALSE
  /\ UNCHANGED <<chats, directs, sockets, presence, cache, twins, sole, pc, local>>

-----------------------------------------------------------------------------
(* Direct chats.                                                           *)

Open == {d \in directs : ~d.archived /\ ~d.left}

DirectFind(h) ==
  /\ Open = {}
  /\ Begin(h, "direct", [id |-> begun + 1])
  /\ twins' = IF \E g \in Handlers : pc[g] = "direct" THEN twins \cup {"direct"} ELSE twins
  /\ UNCHANGED <<reps, chats, directs, sockets, presence, cache, synced, sole>>

DirectCreate(h) ==
  /\ pc[h] = "direct"
  /\ directs' = directs \cup {[id |-> local[h].id, archived |-> FALSE, left |-> FALSE]}
  /\ Answer(h)
  /\ UNCHANGED <<reps, chats, sockets, presence, cache, twins, synced, sole>>

DirectEdit(d, e, kinds) ==
  /\ begun < MaxRequests /\ begun' = begun + 1
  /\ directs' = (directs \ {d}) \cup {e}
  /\ twins' = twins \cup kinds
  /\ UNCHANGED <<reps, chats, sockets, presence, cache, synced, sole, pc, local>>

ArchiveConversation(d) == ~d.archived /\ DirectEdit(d, [d EXCEPT !.archived = TRUE], {})
\* updateConversation does not ask whether another was opened meanwhile.
UnarchiveConversation(d) == d.archived /\ DirectEdit(d, [d EXCEPT !.archived = FALSE], {"direct"})
LeaveConversation(d) == ~d.left /\ DirectEdit(d, [d EXCEPT !.left = TRUE], {})

-----------------------------------------------------------------------------
(* Presence.  An event is handled up to its write at once.                 *)

\* upsertPresence: nothing when the cache has it; remembered, and never written,
\* while a write is in flight.
Upsert(online, force) ==
  IF ~force /\ cache.seen /\ cache.online = online /\ cache.recent THEN UNCHANGED cache
  ELSE IF cache.inflight THEN cache' = [cache EXCEPT !.online = online]
  ELSE cache' = [cache EXCEPT !.seen = TRUE, !.online = online, !.inflight = TRUE, !.writing = online]

SocketEvent(n, online, force) ==
  /\ begun < MaxRequests /\ begun' = begun + 1
  /\ sockets' = n
  /\ Upsert(online, force)
  /\ UNCHANGED <<reps, chats, directs, presence, twins, synced, sole, pc, local>>

SocketConnect == sockets < MaxSockets /\ SocketEvent(sockets + 1, TRUE, FALSE)
\* Whatever other sockets the user has open.
SocketDisconnect == sockets > 0 /\ SocketEvent(sockets - 1, FALSE, TRUE)
PresenceUpdate == \E online \in BOOLEAN : sockets > 0 /\ SocketEvent(sockets, online, FALSE)

PresenceWrite == \E ok \in BOOLEAN :
  /\ cache.inflight
  /\ presence' = IF ok THEN [online |-> cache.writing, recent |-> TRUE] ELSE presence
  /\ cache' = [cache EXCEPT !.inflight = FALSE, !.recent = IF ok THEN TRUE ELSE @]
  /\ UNCHANGED <<reps, chats, directs, sockets, twins, synced, sole, handlerVars>>

\* 45 seconds since the last write.
CacheAge ==
  /\ cache.recent
  /\ cache' = [cache EXCEPT !.recent = FALSE]
  /\ UNCHANGED <<reps, chats, directs, sockets, presence, twins, synced, sole, handlerVars>>

\* Two minutes since the last write of the row.
PresenceAge ==
  /\ presence.recent
  /\ presence' = [presence EXCEPT !.recent = FALSE]
  /\ UNCHANGED <<reps, chats, directs, sockets, cache, twins, synced, sole, handlerVars>>

\* Mutant: the job looks at the rows that are up to date.
CleanupPresenceRecent ==
  /\ presence.online /\ presence.recent
  /\ presence' = [online |-> FALSE, recent |-> TRUE]
  /\ UNCHANGED <<reps, chats, directs, sockets, cache, twins, synced, sole, handlerVars>>

CleanupPresence ==
  /\ presence.online /\ ~presence.recent
  /\ presence' = [online |-> FALSE, recent |-> TRUE]
  /\ UNCHANGED <<reps, chats, directs, sockets, cache, twins, synced, sole, handlerVars>>

MessagingFail(h) ==
  /\ pc[h] # "idle"
  /\ Answer(h)
  /\ UNCHANGED messagingVars

-----------------------------------------------------------------------------
MessagingInit ==
  /\ reps \in SUBSET Reps
  /\ chats = {}
  /\ directs = {}
  /\ sockets = 0
  /\ presence = [online |-> FALSE, recent |-> FALSE]
  /\ cache = NoEntry
  /\ twins = {}
  /\ synced = FALSE
  /\ sole = {}

ChatsNext ==
  \/ RepsChange
  \/ \E d \in directs : ArchiveConversation(d) \/ UnarchiveConversation(d) \/ LeaveConversation(d)
  \/ \E h \in Handlers :
       \/ EnsureRead(h) \/ EnsureFind(h) \/ EnsureCreate(h)
       \/ EnsureMembers(h) \/ EnsureJoin(h) \/ EnsureLeave(h)
       \/ DirectFind(h) \/ DirectCreate(h)
       \/ MessagingFail(h)

PresenceNext ==
  \/ SocketConnect \/ SocketDisconnect \/ PresenceUpdate
  \/ PresenceWrite \/ CacheAge \/ PresenceAge \/ CleanupPresence

MessagingNext == ChatsNext \/ PresenceNext

\* A write ends, time passes, and the scheduler calls the job again and again.
PresenceFairness ==
  /\ WF_messaging(PresenceWrite)
  /\ WF_messaging(PresenceAge)
  /\ WF_messaging(CleanupPresence)

MessagingSpec == MessagingInit /\ RequestsInit /\ [][MessagingNext]_messaging /\ PresenceFairness

-----------------------------------------------------------------------------
\* The reps have one group chat and the pair one open direct chat, and after a
\* sync that nothing disturbed the reps are the group's members.  Overlapping
\* creations apart, and a direct chat that was unarchived: both are found first
\* and created later (ensureSalesRepGroupChat, createConversation).
OneChatEach ==
  /\ Cardinality(chats) <= 1 \/ "group" \in twins
  /\ Cardinality(Open) <= 1 \/ "direct" \in twins
  /\ synced => \E c \in chats : c.in = reps

\* A user who is gone for good is in the end shown offline, although the write
\* that says so may be swallowed by one in flight or fail (upsertPresence,
\* cleanupPresence).
PresenceSettles == <>[](sockets = 0) => <>[](~presence.online)

=============================================================================

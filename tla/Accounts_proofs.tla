-------------------------- MODULE Accounts_proofs ---------------------------
(***************************************************************************)
(* Proofs about Team, for any number of users, requests and invitations,   *)
(* and about Socials, for any number of posts and requests.                *)
(***************************************************************************)
EXTENDS Socials, Team, FiniteSetTheorems, TLAPS

\* What the other requests are at, and carry, is as it was.
Elsewhere(h) == \A g \in Handlers \ {h} : pc'[g] = pc[g] /\ local'[g] = local[g]

-----------------------------------------------------------------------------
(* Team: its inductive invariant.                                          *)

TeamAwaits ==
  {"issue", "rotate", "mailReset", "reset", "change", "repInvite", "createUser", "update",
   "deactivate", "revoke", "archive", "invite", "mailInvite", "accept", "markExpired"}
UserRow == [row : {"none", "live", "deleted"}, active : BOOLEAN, era : Nat]
InviteRow ==
  [on : Emails \cup {None}, status : {"none", "pending", "accepted", "expired"},
   fresh : BOOLEAN, sends : Nat, rested : BOOLEAN]

\* Rows are rows, and what a request carries is about an email.
UserTypes ==
  /\ user \in [Emails -> UserRow]
  /\ \A s \in sessions : s.on \in Emails
  /\ \A link \in resets : link.on \in Emails

InviteTypes ==
  /\ invite \in [InviteIds -> InviteRow]
  /\ mailed \in [InviteIds -> Nat]
  /\ \A i \in InviteIds : invite[i].status = "pending" => invite[i].on \in Emails

HandlerTypes ==
  /\ pc \in [Handlers -> TeamAwaits \cup {"idle"}]
  /\ DOMAIN local = Handlers
  /\ begun \in 0..MaxRequests
  /\ \A h \in Handlers : "on" \in DOMAIN local[h]
  /\ \A h \in Handlers : pc[h] # "idle" => local[h].on \in Emails
  /\ \A h \in Handlers : pc[h] \in {"invite", "mailInvite", "accept", "markExpired"} =>
       local[h].id \in InviteIds
  /\ \A h \in Handlers : pc[h] = "invite" => local[h].sends \in Nat
  /\ \A h \in Handlers : pc[h] = "update" => local[h].active \in BOOLEAN

TeamTypes == UserTypes /\ InviteTypes /\ HandlerTypes

\* Somebody will end m's sessions, or an older one may survive.
Excused(m) == m \in stale \/ \E h \in Handlers : pc[h] = "revoke" /\ local[h].on = m

\* What a login or refresh is about to store is as good as the sessions there are,
\* and who is changing a password was a user when it began.
StoredCurrent == \A h \in Handlers :
  /\ pc[h] \in {"issue", "rotate"} =>
       \/ user[local[h].on].row = "live" /\ user[local[h].on].era = local[h].era
       \/ Excused(local[h].on)
  /\ pc[h] = "change" => user[local[h].on].row = "live" \/ Excused(local[h].on)

SessionInv == TeamTypes /\ SessionsCurrent /\ StoredCurrent

\* An invitation's row is for one email ever; who will mail it knows which.
InviteRows ==
  /\ \A i \in InviteIds : i > begun => invite[i].on = None
  /\ \A i \in InviteIds : invite[i].on # None => invite[i].sends > 0
  /\ \A h \in Handlers : pc[h] = "mailInvite" => invite[local[h].id].on = local[h].on
  /\ \A h \in Handlers : pc[h] = "invite" =>
       /\ local[h].id <= begun
       /\ invite[local[h].id].on = IF local[h].sends = 0 THEN None ELSE local[h].on
  /\ \A g, h \in Handlers :
       pc[g] = "invite" /\ pc[h] = "invite" /\ local[g].sends = 0 /\ local[g].id = local[h].id
         => g = h

\* Who invites an uncontested email is alone, and what it has read still holds.
Inviters == \A h \in Handlers : pc[h] = "invite" /\ local[h].on \notin contested =>
  /\ \A g \in Handlers : pc[g] = "invite" /\ local[g].on = local[h].on => g = h
  /\ OpenInvites(local[h].on) \subseteq {local[h].id}
  /\ local[h].sends # 0 =>
       local[h].sends = invite[local[h].id].sends /\ local[h].sends < MaxSends

Mailing(i) == {h \in Handlers : pc[h] = "mailInvite" /\ local[h].id = i}

\* The mails that went out and those about to are counted.
SendsCounted ==
  /\ \A i \in InviteIds : IsFiniteSet(Mailing(i))
  /\ \A i \in InviteIds : invite[i].on = None => mailed[i] = 0 /\ Mailing(i) = {}
  /\ \A m \in Emails \ contested :
       /\ \A i, j \in OpenInvites(m) : i = j
       /\ \A i \in InviteIds : invite[i].on = m =>
            mailed[i] + Cardinality(Mailing(i)) <= invite[i].sends /\ invite[i].sends <= MaxSends

InviteInv == TeamTypes /\ InviteRows /\ Inviters /\ SendsCounted

-----------------------------------------------------------------------------
(* The steps the actions are built from.                                   *)

\* A step of one request leaves the others alone.

Ids == {"invite", "mailInvite", "accept", "markExpired"}

LEMMA TeamBeginStep ==
  ASSUME HandlerTypes, NEW h \in Handlers, NEW await \in TeamAwaits, NEW c, Begin(h, await, c),
         "on" \in DOMAIN c, c.on \in Emails, await \in Ids => c.id \in InviteIds,
         await = "invite" => c.sends \in Nat, await = "update" => c.active \in BOOLEAN
  PROVE  /\ HandlerTypes' /\ Elsewhere(h)
         /\ pc[h] = "idle" /\ pc'[h] = await /\ local'[h] = c /\ begun' = begun + 1
  BY RequestsAssumption DEF HandlerTypes, Begin, Elsewhere, Ids

LEMMA TeamAnswerStep ==
  ASSUME HandlerTypes, NEW h \in Handlers, Answer(h)
  PROVE  HandlerTypes' /\ Elsewhere(h) /\ pc'[h] = "idle" /\ begun' = begun
  BY DEF HandlerTypes, Answer, Elsewhere, Nothing

LEMMA TeamGotoStep ==
  ASSUME HandlerTypes, NEW h \in Handlers, NEW await \in TeamAwaits \ {"invite", "update"}, Goto(h, await),
         pc[h] # "idle", await \in Ids => pc[h] \in Ids
  PROVE  /\ HandlerTypes' /\ Elsewhere(h)
         /\ pc'[h] = await /\ local'[h] = local[h] /\ begun' = begun
  BY DEF HandlerTypes, Goto, Elsewhere, Ids

\* changePassword goes on to store a session with the new password's era.
LEMMA TeamCarryStep ==
  ASSUME HandlerTypes, NEW h \in Handlers, NEW e, pc[h] # "idle", Carry(h, "issue", [era |-> e])
  PROVE  /\ HandlerTypes' /\ Elsewhere(h)
         /\ pc'[h] = "issue" /\ local'[h].on = local[h].on /\ local'[h].era = e
         /\ begun' = begun
  <1>1. /\ local' = [local EXCEPT ![h] = With([era |-> e], @)]
        /\ pc' = [pc EXCEPT ![h] = "issue"] /\ begun' = begun
        /\ DOMAIN local = Handlers /\ "on" \in DOMAIN local[h]
    BY DEF Carry, HandlerTypes
  <1>2. /\ "on" \in DOMAIN local'[h]
        /\ local'[h].on = local[h].on /\ local'[h].era = e
    BY <1>1 DEF With
  <1>3. \A g \in Handlers \ {h} : local'[g] = local[g]
    BY <1>1
  <1>4. DOMAIN local' = Handlers
    BY <1>1
  <1>5. QED
    BY <1>1, <1>2, <1>3, <1>4 DEF HandlerTypes, Elsewhere, TeamAwaits

\* The requests that begin; what they carry is about an email, and true.
Starts(h) ==
  \/ Login(h) \/ Refresh(h) \/ ForgotPassword(h) \/ ResetFind(h) \/ ChangeCheck(h)
  \/ RepInviteFind(h) \/ CreateUserCheck(h) \/ UpdateUserFind(h) \/ DeactivateFind(h)
  \/ ArchiveFind(h) \/ InviteRead(h) \/ AcceptFind(h)

StartAwaits == TeamAwaits \ {"revoke", "mailInvite"}

Started(h, await, c) ==
  /\ Begin(h, await, c)
  /\ "on" \in DOMAIN c /\ c.on \in Emails
  /\ await \in Ids => c.id \in InviteIds
  /\ await = "invite" => c.sends \in Nat
  /\ await = "update" => c.active \in BOOLEAN
  /\ await \in {"issue", "rotate"} =>
       user[c.on].row = "live" /\ (user[c.on].era = c.era \/ \E s \in sessions : s.on = c.on /\ s.era = c.era)
  /\ await = "change" => user[c.on].row = "live"

LEMMA StartStep ==
  ASSUME TeamTypes, NEW h \in Handlers, Starts(h)
  PROVE  /\ \E await \in StartAwaits : \E c : Started(h, await, c)
         /\ UNCHANGED <<user, sessions, invite, mailed, stale>>
         /\ \A link \in resets' : link.on \in Emails
  <1>0. \A m \in ActiveUsers : m \in Emails /\ user[m].row = "live"
    BY DEF ActiveUsers, LiveUsers
  <1>1. \A m \in LiveUsers : m \in Emails
    BY DEF LiveUsers
  <1> USE <1>0, <1>1 DEF Started, StartAwaits, TeamAwaits, Ids
  <1>2. CASE Login(h)
    <2>1. PICK m \in ActiveUsers : Begin(h, "issue", [on |-> m, era |-> user[m].era, id |-> begun + 1])
      BY <1>2 DEF Login
    <2>2. Started(h, "issue", [on |-> m, era |-> user[m].era, id |-> begun + 1])
      BY <2>1
    <2>3. QED
      BY <1>2, <2>2 DEF Login, teamVars, TeamTypes, UserTypes
  <1>3. CASE Refresh(h)
    <2>1. PICK s \in sessions :
            /\ s.on \in ActiveUsers
            /\ Begin(h, "rotate", [on |-> s.on, era |-> s.era, id |-> begun + 1, old |-> s])
      BY <1>3 DEF Refresh
    <2>2. Started(h, "rotate", [on |-> s.on, era |-> s.era, id |-> begun + 1, old |-> s])
      BY <2>1
    <2>3. QED
      BY <1>3, <2>2 DEF Refresh, teamVars, TeamTypes, UserTypes
  <1>4. CASE ForgotPassword(h)
    <2>1. PICK m \in ActiveUsers :
            /\ Begin(h, "mailReset", [on |-> m])
            /\ resets' = resets \cup {[on |-> m, id |-> begun + 1]}
      BY <1>4 DEF ForgotPassword
    <2>2. Started(h, "mailReset", [on |-> m])
      BY <2>1
    <2>3. QED
      BY <1>4, <2>1, <2>2 DEF ForgotPassword, TeamTypes, UserTypes
  <1>5. CASE ResetFind(h)
    <2>1. PICK link \in resets : Begin(h, "reset", [on |-> link.on, link |-> link])
      BY <1>5 DEF ResetFind
    <2>2. Started(h, "reset", [on |-> link.on, link |-> link])
      BY <2>1 DEF TeamTypes, UserTypes
    <2>3. QED
      BY <1>5, <2>2 DEF ResetFind, teamVars, TeamTypes, UserTypes
  <1>6. CASE ChangeCheck(h)
    <2>1. PICK m \in ActiveUsers : Begin(h, "change", [on |-> m, id |-> begun + 1])
      BY <1>6 DEF ChangeCheck
    <2>2. Started(h, "change", [on |-> m, id |-> begun + 1])
      BY <2>1
    <2>3. QED
      BY <1>6, <2>2 DEF ChangeCheck, teamVars, TeamTypes, UserTypes
  <1>7. CASE RepInviteFind(h)
    <2>1. PICK m \in LiveUsers : Begin(h, "repInvite", [on |-> m])
      BY <1>7 DEF RepInviteFind
    <2>2. Started(h, "repInvite", [on |-> m])
      BY <2>1
    <2>3. QED
      BY <1>7, <2>2 DEF RepInviteFind, teamVars, TeamTypes, UserTypes
  <1>8. CASE CreateUserCheck(h)
    <2>1. PICK m \in Emails \ LiveUsers : Begin(h, "createUser", [on |-> m])
      BY <1>8 DEF CreateUserCheck
    <2>2. Started(h, "createUser", [on |-> m])
      BY <2>1
    <2>3. QED
      BY <1>8, <2>2 DEF CreateUserCheck, teamVars, TeamTypes, UserTypes
  <1>9. CASE UpdateUserFind(h)
    <2>1. PICK m \in LiveUsers, password \in BOOLEAN, active \in BOOLEAN :
            Begin(h, "update", [on |-> m, password |-> password, active |-> active])
      BY <1>9 DEF UpdateUserFind
    <2>2. Started(h, "update", [on |-> m, password |-> password, active |-> active])
      BY <2>1
    <2>3. QED
      BY <1>9, <2>2 DEF UpdateUserFind, teamVars, TeamTypes, UserTypes
  <1>10. CASE DeactivateFind(h)
    <2>1. PICK m \in LiveUsers : Begin(h, "deactivate", [on |-> m])
      BY <1>10 DEF DeactivateFind
    <2>2. Started(h, "deactivate", [on |-> m])
      BY <2>1
    <2>3. QED
      BY <1>10, <2>2 DEF DeactivateFind, teamVars, TeamTypes, UserTypes
  <1>11. CASE InviteRead(h)
    <2>1. PICK m \in Emails, i \in InviteIds, n \in Nat :
            Begin(h, "invite", [on |-> m, id |-> i, sends |-> n])
      <3>1. begun < MaxRequests /\ begun \in Nat => begun + 1 \in InviteIds
        BY RequestsAssumption DEF InviteIds
      <3>2. begun \in Nat /\ \A i \in InviteIds : invite[i].sends \in Nat
        BY RequestsAssumption DEF TeamTypes, HandlerTypes, InviteTypes, InviteRow
      <3>3. QED
        BY <1>11, <3>1, <3>2 DEF InviteRead, Begin, OpenInvites
    <2>2. Started(h, "invite", [on |-> m, id |-> i, sends |-> n])
      BY <2>1
    <2>3. QED
      BY <1>11, <2>2 DEF InviteRead, TeamTypes, UserTypes
  <1>12. CASE AcceptFind(h)
    <2>1. PICK i \in InviteIds, await \in {"accept", "markExpired"} :
            /\ invite[i].status = "pending"
            /\ Begin(h, await, [on |-> invite[i].on, id |-> i])
      BY <1>12 DEF AcceptFind
    <2>2. Started(h, await, [on |-> invite[i].on, id |-> i])
      BY <2>1 DEF TeamTypes, InviteTypes
    <2>3. QED
      BY <1>12, <2>2 DEF AcceptFind, teamVars, TeamTypes, UserTypes
  <1>13. CASE ArchiveFind(h)
    <2>1. PICK m \in LiveUsers : Begin(h, "archive", [on |-> m])
      BY <1>13 DEF ArchiveFind
    <2>2. Started(h, "archive", [on |-> m])
      BY <2>1
    <2>3. QED
      BY <1>13, <2>2 DEF ArchiveFind, teamVars, TeamTypes, UserTypes
  <1>14. QED
    BY <1>2, <1>3, <1>4, <1>5, <1>6, <1>7, <1>8, <1>9, <1>10, <1>11, <1>12, <1>13 DEF Starts

-----------------------------------------------------------------------------
(* Types.                                                                  *)

\* Statements about users: rows, password reset links, sessions.
UserWrites(h) ==
  \/ Issue(h) \/ Rotate(h) \/ ResetMailed(h) \/ ResetPassword(h) \/ ChangePassword(h)
  \/ SendRepInvite(h) \/ CreateUser(h) \/ UpdateUser(h) \/ DeactivateUser(h) \/ Revoke(h)
  \/ ArchiveRep(h)

\* They leave invitations alone, and the handler is at none.
LEMMA UserWriteStep ==
  ASSUME TeamTypes, NEW h \in Handlers, UserWrites(h)
  PROVE  /\ TeamTypes' /\ Elsewhere(h)
         /\ UNCHANGED <<invite, mailed, contested, begun>>
         /\ pc[h] \notin Ids /\ pc'[h] \notin Ids
  <1>0. /\ UserTypes /\ InviteTypes /\ HandlerTypes /\ DOMAIN user = Emails
        /\ \A m \in Emails : user[m] \in UserRow
    BY DEF TeamTypes, UserTypes
  <1>1. ASSUME UNCHANGED <<invite, mailed>>
        PROVE  InviteTypes'
    BY <1>0, <1>1 DEF InviteTypes
  <1>2. ASSUME NEW row, NEW m, RevokeAll(m, h, row)
        PROVE  sessions' \subseteq sessions
    BY <1>2 DEF RevokeAll
  <1>3. ASSUME NEW m \in Emails
        PROVE  [user[m] EXCEPT !.era = @ + 1] \in UserRow /\ NewUser \in UserRow
    BY <1>0, <1>3 DEF UserRow, NewUser
  <1> USE <1>0 DEF Ids, TeamAwaits
  <1>4. CASE Issue(h)
    <2>1. HandlerTypes' /\ Elsewhere(h) /\ pc'[h] = "idle" /\ begun' = begun
      BY <1>4, TeamAnswerStep DEF Issue
    <2>2. UserTypes'
      BY <1>4 DEF Issue, UserTypes, HandlerTypes
    <2>3. QED
      BY <1>1, <1>4, <2>1, <2>2 DEF Issue, TeamTypes
  <1>5. CASE Rotate(h)
    <2>1. HandlerTypes' /\ Elsewhere(h) /\ pc'[h] = "issue" /\ begun' = begun
      BY <1>5, TeamGotoStep DEF Rotate
    <2>2. UserTypes'
      BY <1>5 DEF Rotate, UserTypes
    <2>3. QED
      BY <1>1, <1>5, <2>1, <2>2 DEF Rotate, TeamTypes
  <1>6. CASE ResetMailed(h)
    <2>1. HandlerTypes' /\ Elsewhere(h) /\ pc'[h] = "idle" /\ begun' = begun
      BY <1>6, TeamAnswerStep DEF ResetMailed
    <2>2. QED
      BY <1>1, <1>6, <2>1 DEF ResetMailed, teamVars, TeamTypes, UserTypes
  <1>7. CASE ResetPassword(h)
    <2>1. HandlerTypes' /\ Elsewhere(h) /\ pc'[h] = "idle" /\ begun' = begun
      BY <1>7, TeamAnswerStep DEF ResetPassword
    <2>2. UserTypes'
      BY <1>2, <1>3, <1>7 DEF ResetPassword, UserTypes, HandlerTypes
    <2>3. QED
      BY <1>1, <1>7, <2>1, <2>2 DEF ResetPassword, TeamTypes
  <1>8. CASE ChangePassword(h)
    <2>1. HandlerTypes' /\ Elsewhere(h) /\ pc'[h] = "issue" /\ begun' = begun
      BY <1>8, TeamCarryStep DEF ChangePassword
    <2>2. UserTypes'
      BY <1>2, <1>3, <1>8 DEF ChangePassword, UserTypes, HandlerTypes
    <2>3. QED
      BY <1>1, <1>8, <2>1, <2>2 DEF ChangePassword, TeamTypes
  <1>9. CASE SendRepInvite(h)
    <2>1. HandlerTypes' /\ Elsewhere(h) /\ pc'[h] = "idle" /\ begun' = begun
      BY <1>9, TeamAnswerStep DEF SendRepInvite
    <2>2. UserTypes'
      <3> DEFINE m == local[h].on
      <3>1. m \in Emails /\ user' = [user EXCEPT ![m] = [user[m] EXCEPT !.era = @ + 1]]
        BY <1>9 DEF SendRepInvite, HandlerTypes
      <3>2. QED
        BY <1>3, <1>9, <3>1 DEF SendRepInvite, UserTypes
    <2>3. QED
      BY <1>1, <1>9, <2>1, <2>2 DEF SendRepInvite, TeamTypes
  <1>10. CASE CreateUser(h)
    <2>1. HandlerTypes' /\ Elsewhere(h) /\ pc'[h] = "idle" /\ begun' = begun
      BY <1>10, TeamAnswerStep DEF CreateUser
    <2>2. UserTypes'
      BY <1>3, <1>10 DEF CreateUser, UserTypes, HandlerTypes
    <2>3. QED
      BY <1>1, <1>10, <2>1, <2>2 DEF CreateUser, TeamTypes
  <1>11. CASE UpdateUser(h)
    <2>1. HandlerTypes' /\ Elsewhere(h) /\ pc'[h] \in {"idle", "revoke"} /\ begun' = begun
      BY <1>11, TeamAnswerStep, TeamGotoStep DEF UpdateUser
    <2> DEFINE r == local[h]  written == [user EXCEPT ![r.on].active = r.active]
    <2>2. UserTypes'
      <3>1. written \in [Emails -> UserRow]
        BY <1>11 DEF UpdateUser, UserTypes, UserRow, HandlerTypes
      <3>2. user' = [written EXCEPT ![r.on].era = IF r.password THEN @ + 1 ELSE @]
        BY <1>11 DEF UpdateUser
      <3>3. ASSUME NEW row \in UserRow
            PROVE  [row EXCEPT !.era = IF r.password THEN @ + 1 ELSE @] \in UserRow
        BY DEF UserRow
      <3>4. user' = [written EXCEPT ![r.on] =
              [written[r.on] EXCEPT !.era = IF r.password THEN @ + 1 ELSE @]]
        BY <3>2
      <3>5. r.on \in Emails
        BY <1>11 DEF UpdateUser, HandlerTypes
      <3> HIDE DEF written
      <3>6. user' \in [Emails -> UserRow]
        BY <3>1, <3>3, <3>4, <3>5
      <3>7. QED
        BY <1>11, <3>6 DEF UpdateUser, UserTypes
    <2>3. QED
      BY <1>1, <1>11, <2>1, <2>2 DEF UpdateUser, TeamTypes
  <1>12. CASE DeactivateUser(h)
    <2>1. HandlerTypes' /\ Elsewhere(h) /\ pc'[h] = "revoke" /\ begun' = begun
      BY <1>12, TeamGotoStep DEF DeactivateUser
    <2> DEFINE m == local[h].on  written == [user EXCEPT ![m].active = FALSE]
    <2>2. UserTypes'
      <3>1. written \in [Emails -> UserRow]
        BY DEF UserTypes, UserRow
      <3>2. user' = [written EXCEPT ![m].row = "deleted"]
        BY <1>12 DEF DeactivateUser
      <3> HIDE DEF written
      <3>3. user' \in [Emails -> UserRow]
        BY <3>1, <3>2, ZenonT(60) DEF UserRow
      <3>4. QED
        BY <1>12, <3>3 DEF DeactivateUser, UserTypes
    <2>3. QED
      BY <1>1, <1>12, <2>1, <2>2 DEF DeactivateUser, TeamTypes
  <1>13. CASE Revoke(h)
    <2>1. HandlerTypes' /\ Elsewhere(h) /\ pc'[h] = "idle" /\ begun' = begun
      BY <1>13, TeamAnswerStep DEF Revoke
    <2>2. UserTypes'
      BY <1>2, <1>13 DEF Revoke, UserTypes
    <2>3. QED
      BY <1>1, <1>13, <2>1, <2>2 DEF Revoke, TeamTypes
  <1>14. CASE ArchiveRep(h)
    <2>1. HandlerTypes' /\ Elsewhere(h) /\ pc'[h] = "idle" /\ begun' = begun
      BY <1>14, TeamAnswerStep DEF ArchiveRep
    <2> DEFINE m == local[h].on  written == [user EXCEPT ![m].active = FALSE]
    <2>2. UserTypes'
      <3>1. written \in [Emails -> UserRow]
        BY DEF UserTypes, UserRow
      <3>2. user' = [written EXCEPT ![m].row = "deleted"]
        BY <1>14 DEF ArchiveRep
      <3> HIDE DEF written
      <3>3. user' \in [Emails -> UserRow]
        BY <3>1, <3>2, ZenonT(60) DEF UserRow
      <3>4. QED
        BY <1>14, <3>3 DEF ArchiveRep, UserTypes
    <2>3. QED
      BY <1>1, <1>14, <2>1, <2>2 DEF ArchiveRep, TeamTypes
  <1>15. QED
    BY <1>4, <1>5, <1>6, <1>7, <1>8, <1>9, <1>10, <1>11, <1>12, <1>13, <1>14 DEF UserWrites

\* Statements about invitations; one of them brings a user in.
InviteWrites(h) == InviteWrite(h) \/ InviteMail(h) \/ MarkExpired(h) \/ Accept(h)

LEMMA InviteWriteStep ==
  ASSUME TeamTypes, NEW h \in Handlers, InviteWrites(h)
  PROVE  /\ TeamTypes' /\ Elsewhere(h)
         /\ UNCHANGED <<sessions, stale, contested, begun>>
         /\ pc[h] \in Ids /\ pc'[h] = (IF InviteWrite(h) THEN "mailInvite" ELSE "idle")
         /\ local[h].id \in InviteIds
  <1>0. /\ UserTypes /\ InviteTypes /\ HandlerTypes
        /\ \A i \in InviteIds : invite[i] \in InviteRow
    BY DEF TeamTypes, InviteTypes
  <1>1. ASSUME UNCHANGED <<user, sessions, resets>>
        PROVE  UserTypes'
    BY <1>0, <1>1 DEF UserTypes
  <1> USE <1>0 DEF Ids, TeamAwaits
  <1>2. CASE InviteWrite(h)
    <2> DEFINE r == local[h]
               row == [on |-> r.on, status |-> IF r.sends = 0 THEN "pending" ELSE invite[r.id].status,
                       fresh |-> TRUE, sends |-> r.sends + 1, rested |-> FALSE]
    <2>1. HandlerTypes' /\ Elsewhere(h) /\ pc'[h] = "mailInvite" /\ begun' = begun
      BY <1>2, TeamGotoStep DEF InviteWrite
    <2>2. r.id \in InviteIds /\ r.on \in Emails /\ r.sends \in Nat
      BY <1>2 DEF InviteWrite, HandlerTypes
    <2>3. row \in InviteRow
      BY <2>2 DEF InviteRow
    <2>4. row.on = r.on
      OBVIOUS
    <2>5. invite' = [invite EXCEPT ![r.id] = row]
      BY <1>2 DEF InviteWrite
    <2> HIDE DEF row
    <2>6. InviteTypes'
      BY <1>2, <2>2, <2>3, <2>4, <2>5 DEF InviteTypes, InviteWrite
    <2>7. QED
      BY <1>1, <1>2, <2>1, <2>2, <2>6 DEF InviteWrite, TeamTypes
  <1>3. CASE InviteMail(h)
    <2>1. HandlerTypes' /\ Elsewhere(h) /\ pc'[h] = "idle" /\ begun' = begun
      BY <1>3, TeamAnswerStep DEF InviteMail
    <2>2. local[h].id \in InviteIds
      BY <1>3 DEF InviteMail, HandlerTypes
    <2>3. mailed' \in [InviteIds -> Nat]
      BY <1>3, <2>2 DEF InviteMail, InviteTypes
    <2>4. InviteTypes'
      BY <1>3, <2>3 DEF InviteMail, InviteTypes
    <2>5. ~InviteWrite(h)
      BY <1>3 DEF InviteMail, InviteWrite
    <2>6. QED
      BY <1>1, <1>3, <2>1, <2>2, <2>4, <2>5 DEF InviteMail, TeamTypes
  <1>4. CASE MarkExpired(h)
    <2>1. HandlerTypes' /\ Elsewhere(h) /\ pc'[h] = "idle" /\ begun' = begun
      BY <1>4, TeamAnswerStep DEF MarkExpired
    <2>2. local[h].id \in InviteIds
      BY <1>4 DEF MarkExpired, HandlerTypes
    <2>3. InviteTypes'
      BY <1>4 DEF MarkExpired, InviteTypes, InviteRow
    <2>4. ~InviteWrite(h)
      BY <1>4 DEF MarkExpired, InviteWrite
    <2>5. QED
      BY <1>1, <1>4, <2>1, <2>2, <2>3, <2>4 DEF MarkExpired, TeamTypes
  <1>5. CASE Accept(h)
    <2>1. HandlerTypes' /\ Elsewhere(h) /\ pc'[h] = "idle" /\ begun' = begun
      BY <1>5, TeamAnswerStep DEF Accept
    <2>2. local[h].id \in InviteIds
      BY <1>5 DEF Accept, HandlerTypes
    <2>3. InviteTypes'
      BY <1>5 DEF Accept, InviteTypes, InviteRow
    <2>4. NewUser \in UserRow
      BY DEF NewUser, UserRow
    <2>5. UserTypes'
      BY <1>5, <2>4 DEF Accept, UserTypes
    <2>6. ~InviteWrite(h)
      BY <1>5 DEF Accept, InviteWrite
    <2>7. QED
      BY <1>5, <2>1, <2>2, <2>3, <2>5, <2>6 DEF Accept, TeamTypes
  <1>6. QED
    BY <1>2, <1>3, <1>4, <1>5 DEF InviteWrites

\* What time does to tokens, links and invitations, and a logout.
Passes ==
  \/ \E s \in sessions : Logout(s)
  \/ \E link \in resets : ResetExpire(link)
  \/ \E i \in InviteIds : InviteRest(i) \/ InviteExpire(i)

LEMMA PassStep ==
  ASSUME TeamTypes, Passes
  PROVE  /\ TeamTypes'
         /\ UNCHANGED <<user, mailed, stale, contested, handlerVars>>
         /\ sessions' \subseteq sessions
  <1>1. /\ UNCHANGED <<user, mailed, stale, contested, handlerVars>>
        /\ sessions' \subseteq sessions /\ resets' \subseteq resets
    BY DEF Passes, Logout, ResetExpire, InviteRest, InviteExpire
  <1>2. HandlerTypes'
    BY <1>1 DEF TeamTypes, HandlerTypes, handlerVars
  <1>3. InviteTypes'
    <2>1. CASE UNCHANGED invite
      BY <1>1, <2>1 DEF TeamTypes, InviteTypes
    <2>2. ASSUME NEW i \in InviteIds, InviteRest(i) \/ InviteExpire(i)
          PROVE  InviteTypes'
      <3>1. /\ invite' \in [InviteIds -> InviteRow]
            /\ \A j \in InviteIds : invite'[j].on = invite[j].on /\ invite'[j].status = invite[j].status
        <4>1. invite \in [InviteIds -> InviteRow]
          BY DEF TeamTypes, InviteTypes
        <4>2. CASE InviteRest(i)
          BY <4>1, <4>2 DEF InviteRow, InviteRest
        <4>3. CASE InviteExpire(i)
          BY <4>1, <4>3 DEF InviteRow, InviteExpire
        <4>4. QED
          BY <2>2, <4>2, <4>3
      <3>2. QED
        BY <1>1, <3>1 DEF TeamTypes, InviteTypes
    <2>3. QED
      BY <2>1, <2>2 DEF Passes, Logout, ResetExpire
  <1>4. QED
    BY <1>1, <1>2, <1>3 DEF TeamTypes, UserTypes

LEMMA FailStep ==
  ASSUME TeamTypes, NEW h \in Handlers, TeamFail(h)
  PROVE  /\ TeamTypes' /\ Elsewhere(h) /\ pc'[h] = "idle"
         /\ UNCHANGED <<user, sessions, resets, invite, mailed, contested, begun>>
         /\ stale' = IF pc[h] = "revoke" THEN stale \cup {local[h].on} ELSE stale
  BY TeamAnswerStep DEF TeamFail, TeamTypes, UserTypes, InviteTypes

LEMMA StartTypes ==
  ASSUME TeamTypes, NEW h \in Handlers, Starts(h)
  PROVE  /\ TeamTypes' /\ Elsewhere(h) /\ pc[h] = "idle" /\ begun' = begun + 1
         /\ \E await \in StartAwaits :
              \E c : pc'[h] = await /\ local'[h] = c /\ Started(h, await, c)
  <1>1. PICK await \in StartAwaits : \E c : Started(h, await, c)
    BY StartStep
  <1>2. PICK c : Started(h, await, c)
    BY <1>1
  <1>3. /\ HandlerTypes' /\ Elsewhere(h)
        /\ pc[h] = "idle" /\ pc'[h] = await /\ local'[h] = c /\ begun' = begun + 1
    BY <1>2, TeamBeginStep DEF Started, StartAwaits, TeamTypes
  <1>4. QED
    BY <1>2, <1>3, StartStep DEF TeamTypes, UserTypes, InviteTypes

\* The actions are these.
LEMMA TeamSteps ==
  ASSUME [TeamNext]_team
  PROVE  \/ Passes \/ UNCHANGED team
         \/ \E h \in Handlers : Starts(h) \/ UserWrites(h) \/ InviteWrites(h) \/ TeamFail(h)
  BY DEF TeamNext, Passes, Starts, UserWrites, InviteWrites

-----------------------------------------------------------------------------
(* Sessions.                                                               *)

LEMMA ExcusedStays ==
  ASSUME NEW h \in Handlers, NEW m, Elsewhere(h), Excused(m),
         pc[h] = "revoke" => local[h].on # m \/ m \in stale' \/ (pc'[h] = pc[h] /\ local'[h] = local[h]),
         m \in stale => m \in stale'
  PROVE  Excused(m)'
  BY DEF Excused, Elsewhere

\* Every session of m is revoked, and row is the user's row by then: what is
\* stored later for m is current, or m is noted down.
LEMMA RevokeAllStep ==
  ASSUME SessionInv, NEW h \in Handlers, NEW m, m = local[h].on, NEW row,
         Elsewhere(h), RevokeAll(m, h, row), pc[h] \in {"reset", "change", "revoke"},
         m \in Emails, user' = [user EXCEPT ![m] = row],
         \/ pc'[h] = "idle"
         \/ pc[h] = "change" /\ pc'[h] = "issue" /\ local'[h].on = m /\ local'[h].era = row.era
  PROVE  SessionsCurrent' /\ StoredCurrent'
  <1>0. /\ user \in [Emails -> UserRow] /\ \A s \in sessions : s.on \in Emails
        /\ \A g \in Handlers : pc[g] # "idle" => local[g].on \in Emails
        /\ SessionsCurrent /\ StoredCurrent
    BY DEF SessionInv, TeamTypes, UserTypes, HandlerTypes
  <1>1. /\ user'[m] = row
        /\ \A n \in Emails : n # m => user'[n] = user[n] /\ (n \in stale' <=> n \in stale)
    BY <1>0 DEF RevokeAll
  <1>2. ASSUME NEW n \in Emails, n # m, Excused(n)
        PROVE  Excused(n)'
    BY <1>1, <1>2, ExcusedStays
  <1>3. Outdated(m, h, row) # {} \/ (pc[h] = "change" /\ row.row # "live") => m \in stale'
    BY DEF RevokeAll
  <1>4. SessionsCurrent'
    <2> SUFFICES ASSUME NEW s \in sessions'
                 PROVE  (user'[s.on].row = "live" /\ user'[s.on].era = s.era) \/ Excused(s.on)'
      BY DEF SessionsCurrent, Excused
    <2>1. s \in sessions /\ s.on # m
      BY DEF RevokeAll
    <2>2. (user[s.on].row = "live" /\ user[s.on].era = s.era) \/ Excused(s.on)
      BY <1>0, <2>1 DEF SessionsCurrent, Excused
    <2>3. QED
      BY <1>0, <1>1, <1>2, <2>1, <2>2
  <1>5. ASSUME NEW g \in Handlers, pc'[g] \in {"issue", "rotate"}
        PROVE  \/ user'[local'[g].on].row = "live" /\ user'[local'[g].on].era = local'[g].era
               \/ Excused(local[g].on)'
    <2>1. CASE g = h
      <3>1. pc[h] = "change" /\ local'[h].on = m /\ local'[h].era = row.era
        BY <1>5, <2>1
      <3>2. CASE row.row = "live"
        BY <1>1, <2>1, <3>1, <3>2
      <3>3. CASE row.row # "live"
        BY <1>3, <2>1, <3>1, <3>3 DEF Excused
      <3>4. QED
        BY <3>2, <3>3
    <2>2. CASE g # h
      <3>1. pc'[g] = pc[g] /\ local'[g] = local[g]
        BY <2>2 DEF Elsewhere
      <3>2. CASE local[g].on = m
        BY <1>1, <1>3, <1>5, <2>2, <3>1, <3>2 DEF Outdated, Excused
      <3>3. CASE local[g].on # m
        BY <1>0, <1>1, <1>2, <1>5, <3>1, <3>3 DEF StoredCurrent
      <3>4. QED
        BY <3>2, <3>3
    <2>3. QED
      BY <2>1, <2>2
  <1>6. ASSUME NEW g \in Handlers, pc'[g] = "change"
        PROVE  user'[local'[g].on].row = "live" \/ Excused(local[g].on)'
    <2>1. g # h /\ pc'[g] = pc[g] /\ local'[g] = local[g]
      BY <1>6 DEF Elsewhere
    <2>2. CASE local[g].on = m
      BY <1>1, <1>3, <1>6, <2>1, <2>2 DEF Outdated, Excused
    <2>3. CASE local[g].on # m
      BY <1>0, <1>1, <1>2, <1>6, <2>1, <2>3 DEF StoredCurrent
    <2>4. QED
      BY <2>2, <2>3
  <1>7. QED
    BY <1>4, <1>5, <1>6 DEF StoredCurrent, Excused

LEMMA SessionStep ==
  ASSUME SessionInv, [TeamNext]_team
  PROVE  SessionsCurrent' /\ StoredCurrent'
  <1>0. /\ user \in [Emails -> UserRow] /\ \A s \in sessions : s.on \in Emails
        /\ \A g \in Handlers : pc[g] # "idle" => local[g].on \in Emails
        /\ SessionsCurrent /\ StoredCurrent /\ TeamTypes
    BY DEF SessionInv, TeamTypes, UserTypes, HandlerTypes
  <1>1. \A s \in sessions : (user[s.on].row = "live" /\ user[s.on].era = s.era) \/ Excused(s.on)
    BY <1>0 DEF SessionsCurrent, Excused
  <1>2. CASE UNCHANGED team
    BY <1>0, <1>2 DEF team, teamVars, handlerVars, SessionsCurrent, StoredCurrent, Excused
  <1>3. CASE Passes
    BY <1>0, <1>3, PassStep DEF handlerVars, SessionsCurrent, StoredCurrent, Excused
  \* A step that revokes nothing and keeps the users' passwords.
  <1>4. ASSUME NEW h \in Handlers, Elsewhere(h), sessions' \subseteq sessions,
               \A m \in stale : m \in stale',
               pc[h] = "revoke" => local[h].on \in stale',
               \A m \in Emails : \/ user'[m].row = user[m].row /\ user'[m].era = user[m].era
                                 \/ user[m].row # "live" \/ Excused(m)',
               pc'[h] \notin {"issue", "rotate", "change"}
        PROVE  SessionsCurrent' /\ StoredCurrent'
    <2>1. \A m \in Emails : Excused(m) => Excused(m)'
      BY <1>4, ExcusedStays
    <2>2. SessionsCurrent'
      BY <1>0, <1>1, <1>4, <2>1 DEF SessionsCurrent, Excused
    <2>3. ASSUME NEW g \in Handlers, g # h
          PROVE  /\ pc'[g] = pc[g] /\ local'[g] = local[g]
      BY <1>4, <2>3 DEF Elsewhere
    <2>4. ASSUME NEW g \in Handlers, pc'[g] \in {"issue", "rotate"}
          PROVE  \/ user'[local'[g].on].row = "live" /\ user'[local'[g].on].era = local'[g].era
                 \/ Excused(local[g].on)' /\ local'[g] = local[g]
      <3>1. pc'[g] = pc[g] /\ local'[g] = local[g] /\ local[g].on \in Emails
        BY <1>0, <1>4, <2>3, <2>4
      <3>2. QED
        BY <1>0, <1>4, <2>1, <2>4, <3>1 DEF StoredCurrent
    <2>5. ASSUME NEW g \in Handlers, pc'[g] = "change"
          PROVE  user'[local'[g].on].row = "live" \/ (Excused(local[g].on)' /\ local'[g] = local[g])
      <3>1. pc'[g] = pc[g] /\ local'[g] = local[g] /\ local[g].on \in Emails
        BY <1>0, <1>4, <2>3, <2>5
      <3>2. QED
        BY <1>0, <1>4, <2>1, <2>5, <3>1 DEF StoredCurrent
    <2>6. QED
      BY <2>2, <2>4, <2>5 DEF StoredCurrent, Excused
  <1>5. ASSUME NEW h \in Handlers, Starts(h)
        PROVE  SessionsCurrent' /\ StoredCurrent'
    <2>1. /\ Elsewhere(h) /\ pc[h] = "idle"
          /\ UNCHANGED <<user, sessions, stale>>
      BY <1>0, <1>5, StartTypes, StartStep
    <2>2. PICK await \in StartAwaits : \E c :
            pc'[h] = await /\ local'[h] = c /\ Started(h, await, c)
      BY <1>0, <1>5, StartTypes
    <2>3. PICK c : pc'[h] = await /\ local'[h] = c /\ Started(h, await, c)
      BY <2>2
    <2>4. \A m : Excused(m) => Excused(m)'
      BY <2>1 DEF Excused, Elsewhere
    <2>5. SessionsCurrent'
      BY <1>1, <2>1, <2>4 DEF SessionsCurrent, Excused
    <2>6. pc'[h] \in {"issue", "rotate"} =>
            \/ user'[c.on].row = "live" /\ user'[c.on].era = c.era
            \/ Excused(c.on)
      BY <1>1, <2>1, <2>3 DEF Started
    <2>7. pc'[h] = "change" => user'[c.on].row = "live"
      BY <2>1, <2>3 DEF Started
    <2>8. StoredCurrent'
      BY <1>0, <2>1, <2>3, <2>4, <2>6, <2>7 DEF StoredCurrent, Elsewhere, Excused
    <2>9. QED
      BY <2>5, <2>8
  <1>6. ASSUME NEW h \in Handlers, UserWrites(h)
        PROVE  SessionsCurrent' /\ StoredCurrent'
    <2>0. Elsewhere(h) /\ HandlerTypes
      BY <1>0, <1>6, UserWriteStep DEF TeamTypes
    <2>1. CASE Issue(h)
      <3>1. /\ pc[h] = "issue" /\ UNCHANGED <<user, stale>>
            /\ sessions' = sessions \cup {[on |-> local[h].on, era |-> local[h].era, id |-> local[h].id]}
            /\ pc'[h] = "idle"
        BY <2>0, <2>1, TeamAnswerStep DEF Issue
      <3>2. \A m : Excused(m) => Excused(m)'
        BY <2>0, <3>1 DEF Excused, Elsewhere
      <3>3. SessionsCurrent'
        BY <1>0, <1>1, <3>1, <3>2 DEF SessionsCurrent, StoredCurrent, Excused
      <3>4. StoredCurrent'
        BY <1>0, <2>0, <3>1, <3>2 DEF StoredCurrent, Elsewhere, Excused
      <3>5. QED
        BY <3>3, <3>4
    <2>2. CASE Rotate(h)
      <3>1. /\ pc[h] = "rotate" /\ UNCHANGED <<user, stale>> /\ sessions' \subseteq sessions
            /\ pc'[h] = "issue" /\ local' = local
        BY <2>0, <2>2, TeamGotoStep DEF Rotate, Goto, TeamAwaits, Ids
      <3>2. \A m : Excused(m) => Excused(m)'
        BY <2>0, <3>1 DEF Excused, Elsewhere
      <3>3. SessionsCurrent'
        BY <1>1, <3>1, <3>2 DEF SessionsCurrent, Excused
      <3>4. StoredCurrent'
        BY <1>0, <2>0, <3>1, <3>2 DEF StoredCurrent, Elsewhere, Excused
      <3>5. QED
        BY <3>3, <3>4
    <2>3. CASE ResetMailed(h)
      BY <1>4, <2>0, <2>3, TeamAnswerStep DEF ResetMailed, teamVars
    <2>4. CASE ResetPassword(h)
      <3> DEFINE m == local[h].on  row == [user[m] EXCEPT !.era = @ + 1]
      <3>1. /\ pc[h] = "reset" /\ RevokeAll(m, h, row) /\ user' = [user EXCEPT ![m] = row]
            /\ pc'[h] = "idle" /\ m \in Emails
        BY <1>0, <2>0, <2>4, TeamAnswerStep DEF ResetPassword
      <3> HIDE DEF row
      <3>2. QED
        BY <2>0, <3>1, RevokeAllStep
    <2>5. CASE ChangePassword(h)
      <3> DEFINE m == local[h].on  row == [user[m] EXCEPT !.era = @ + 1]
      <3>1. /\ pc[h] = "change" /\ RevokeAll(m, h, row) /\ user' = [user EXCEPT ![m] = row]
            /\ Carry(h, "issue", [era |-> row.era]) /\ m \in Emails
        BY <1>0, <2>5 DEF ChangePassword
      <3> HIDE DEF row
      <3>2. pc'[h] = "issue" /\ local'[h].on = m /\ local'[h].era = row.era
        BY <2>0, <3>1, TeamCarryStep
      <3>3. QED
        BY <2>0, <3>1, <3>2, RevokeAllStep
    <2>6. CASE SendRepInvite(h)
      <3>1. /\ pc[h] = "repInvite" /\ pc'[h] = "idle" /\ sessions' = sessions
            /\ stale' = stale \cup {local[h].on}
        BY <2>0, <2>6, TeamAnswerStep DEF SendRepInvite
      <3>2. \A m \in Emails : m # local[h].on => user'[m] = user[m]
        BY <1>0, <2>6 DEF SendRepInvite
      <3>3. QED
        BY <1>4, <2>0, <3>1, <3>2 DEF Excused
    <2>7. CASE CreateUser(h)
      <3>1. /\ pc[h] = "createUser" /\ pc'[h] = "idle" /\ UNCHANGED <<sessions, stale>>
        BY <2>0, <2>7, TeamAnswerStep DEF CreateUser
      <3>2. \A m \in Emails : user'[m] = user[m] \/ user[m].row # "live"
        BY <1>0, <2>7 DEF CreateUser
      <3>3. QED
        BY <1>4, <2>0, <3>1, <3>2
    <2>8. CASE UpdateUser(h)
      <3>1. /\ pc[h] = "update" /\ pc'[h] \in {"idle", "revoke"} /\ UNCHANGED <<sessions, stale>>
            /\ pc'[h] = "revoke" => local'[h] = local[h]
            /\ local[h].password => pc'[h] = "revoke"
        BY <2>0, <2>8, TeamAnswerStep, TeamGotoStep DEF UpdateUser, TeamAwaits, Ids
      <3>2. \A m \in Emails : m # local[h].on => user'[m] = user[m]
        BY <1>0, <2>8 DEF UpdateUser
      <3>3. local[h].password => Excused(local[h].on)'
        BY <3>1 DEF Excused
      <3>4. /\ user'[local[h].on].row = user[local[h].on].row
            /\ ~local[h].password => user'[local[h].on].era = user[local[h].on].era
        BY <1>0, <2>8, <3>1 DEF UpdateUser, UserRow
      <3>5. QED
        BY <1>4, <2>0, <3>1, <3>2, <3>3, <3>4
    <2>9. CASE DeactivateUser(h)
      <3>1. /\ pc[h] = "deactivate" /\ pc'[h] = "revoke" /\ local'[h] = local[h]
            /\ UNCHANGED <<sessions, stale>>
        BY <2>0, <2>9, TeamGotoStep DEF DeactivateUser, TeamAwaits, Ids
      <3>2. \A m \in Emails : m # local[h].on => user'[m] = user[m]
        BY <1>0, <2>9 DEF DeactivateUser
      <3>3. Excused(local[h].on)'
        BY <3>1 DEF Excused
      <3>4. QED
        BY <1>4, <2>0, <3>1, <3>2, <3>3
    <2>10. CASE Revoke(h)
      <3> DEFINE m == local[h].on
      <3>1. /\ pc[h] = "revoke" /\ RevokeAll(m, h, user[m]) /\ user' = [user EXCEPT ![m] = user[m]]
            /\ pc'[h] = "idle" /\ m \in Emails
        BY <1>0, <2>0, <2>10, TeamAnswerStep DEF Revoke
      <3>2. QED
        BY <2>0, <3>1, RevokeAllStep
    <2>11. CASE ArchiveRep(h)
      <3>1. /\ pc[h] = "archive" /\ pc'[h] = "idle" /\ sessions' = sessions
            /\ stale' = stale \cup {local[h].on}
        BY <2>0, <2>11, TeamAnswerStep DEF ArchiveRep
      <3>2. \A m \in Emails : m # local[h].on => user'[m] = user[m]
        BY <1>0, <2>11 DEF ArchiveRep
      <3>3. QED
        BY <1>4, <2>0, <3>1, <3>2 DEF Excused
    <2>12. QED
      BY <1>6, <2>1, <2>2, <2>3, <2>4, <2>5, <2>6, <2>7, <2>8, <2>9, <2>10, <2>11 DEF UserWrites
  <1>7. ASSUME NEW h \in Handlers, InviteWrites(h)
        PROVE  SessionsCurrent' /\ StoredCurrent'
    <2>1. /\ Elsewhere(h) /\ UNCHANGED <<sessions, stale>>
          /\ pc[h] \in Ids /\ pc'[h] \in {"mailInvite", "idle"}
      BY <1>0, <1>7, InviteWriteStep
    <2>2. \A m \in Emails : user'[m] = user[m] \/ user[m].row # "live"
      BY <1>0, <1>7 DEF InviteWrites, InviteWrite, InviteMail, MarkExpired, Accept
    <2>3. QED
      BY <1>4, <2>1, <2>2 DEF Ids
  <1>8. ASSUME NEW h \in Handlers, TeamFail(h)
        PROVE  SessionsCurrent' /\ StoredCurrent'
    BY <1>0, <1>4, <1>8, FailStep
  <1>9. QED
    BY <1>2, <1>3, <1>5, <1>6, <1>7, <1>8, TeamSteps

LEMMA TypesStep ==
  ASSUME TeamTypes, [TeamNext]_team
  PROVE  TeamTypes'
  <1>1. CASE UNCHANGED team
    BY <1>1 DEF team, teamVars, handlerVars, TeamTypes, UserTypes, InviteTypes, HandlerTypes
  <1>2. QED
    BY <1>1, TeamSteps, PassStep, StartTypes, UserWriteStep, InviteWriteStep, FailStep

LEMMA InitTypes ==
  ASSUME TeamInit, RequestsInit
  PROVE  TeamTypes
  <1>1. HandlerTypes
    BY RequestsAssumption DEF RequestsInit, Nothing, HandlerTypes
  <1>2. /\ NewUser \in UserRow /\ NoInvite \in InviteRow
        /\ \A row \in {"none", "deleted"} : [NoUser EXCEPT !.row = row] \in UserRow
    BY DEF NewUser, NoUser, NoInvite, UserRow, InviteRow
  <1>3. UserTypes
    BY <1>2 DEF TeamInit, UserTypes
  <1>4. \A m \in Emails :
          [on |-> m, status |-> "pending", fresh |-> TRUE, sends |-> 2, rested |-> TRUE] \in InviteRow
    BY DEF InviteRow
  <1>5. InviteTypes
    <2>1. mailed \in [InviteIds -> Nat]
      BY DEF TeamInit
    <2>2. NoInvite.status = "none"
      BY DEF NoInvite
    <2>3. CASE invite = [i \in InviteIds |-> NoInvite]
      BY <1>2, <2>1, <2>2, <2>3 DEF InviteTypes
    <2>4. CASE \E m \in Emails : invite = [i \in InviteIds |-> IF i # 0 THEN NoInvite ELSE
            [on |-> m, status |-> "pending", fresh |-> TRUE, sends |-> 2, rested |-> TRUE]]
      <3>1. PICK m \in Emails : invite = [i \in InviteIds |-> IF i # 0 THEN NoInvite ELSE
              [on |-> m, status |-> "pending", fresh |-> TRUE, sends |-> 2, rested |-> TRUE]]
        BY <2>4
      <3>2. invite \in [InviteIds -> InviteRow]
        BY <1>2, <1>4, <3>1
      <3>3. \A i \in InviteIds : invite[i].status = "pending" => invite[i].on = m
        BY <2>2, <3>1
      <3>4. QED
        BY <2>1, <3>2, <3>3 DEF InviteTypes
    <2>5. QED
      BY <2>3, <2>4 DEF TeamInit
  <1>6. QED
    BY <1>1, <1>3, <1>5 DEF TeamTypes

\* A new password and a deactivation end every session before them, unless that is
\* still to come, failed, or raced with a login, a refresh or another change, or was
\* one of the two that end none: sendRepInvite and archiveSalesRep.
THEOREM SessionsAreCurrent == TeamSpec => []SessionsCurrent
  <1>1. TeamInit /\ RequestsInit => SessionInv
    <2> SUFFICES ASSUME TeamInit, RequestsInit
                 PROVE  SessionsCurrent /\ StoredCurrent
      BY InitTypes DEF SessionInv
    <2>1. \A s \in sessions : user[s.on].row = "live" /\ user[s.on].era = s.era
      BY DEF TeamInit, NewUser
    <2>2. QED
      BY <2>1 DEF RequestsInit, SessionsCurrent, StoredCurrent
  <1>2. SessionInv /\ [TeamNext]_team => SessionInv'
    BY SessionStep, TypesStep DEF SessionInv
  <1>3. SessionInv => SessionsCurrent
    BY DEF SessionInv
  <1>4. QED
    BY <1>1, <1>2, <1>3, PTL DEF TeamSpec

-----------------------------------------------------------------------------
(* Invitations.                                                            *)

LEMMA MailingType ==
  ASSUME InviteInv, NEW i \in InviteIds
  PROVE  /\ Cardinality(Mailing(i)) \in Nat /\ IsFiniteSet(Mailing(i))
         /\ mailed[i] \in Nat /\ invite[i].sends \in Nat
  BY FS_CardinalityType DEF InviteInv, SendsCounted, TeamTypes, InviteTypes, InviteRow

\* A step after which nobody invites or mails who did not before, and that opens no
\* invitation, keeps the counts.
Stand ==
  /\ \A g \in Handlers : pc'[g] \in {"invite", "mailInvite"} =>
       pc'[g] = pc[g] /\ local'[g] = local[g]
  /\ begun' \in {begun, begun + 1} /\ contested \subseteq contested' /\ mailed' = mailed
  /\ \A i \in InviteIds :
       /\ invite'[i].on = invite[i].on /\ invite'[i].sends = invite[i].sends
       /\ invite'[i].status = "pending" /\ invite'[i].fresh =>
            invite[i].status = "pending" /\ invite[i].fresh

LEMMA InvitesStand ==
  ASSUME InviteInv, Stand
  PROVE  InviteRows' /\ Inviters' /\ SendsCounted'
  <1>0. /\ InviteRows /\ Inviters /\ SendsCounted /\ begun \in Nat /\ InviteIds \subseteq Int
        /\ \A h \in Handlers : pc[h] \in Ids => local[h].id \in InviteIds
    BY RequestsAssumption DEF InviteInv, TeamTypes, HandlerTypes, InviteIds, Ids
  <1>1. InviteRows'
    <2>1. \A h \in Handlers : pc'[h] = "invite" =>
            /\ pc[h] = "invite" /\ local'[h] = local[h] /\ local[h].id \in InviteIds
      BY <1>0 DEF Ids, Stand
    <2>2. \A h \in Handlers : pc'[h] = "mailInvite" =>
            /\ pc[h] = "mailInvite" /\ local'[h] = local[h] /\ local[h].id \in InviteIds
      BY <1>0 DEF Ids, Stand
    <2>3. \A i \in InviteIds : i > begun' => invite'[i].on = None
      BY <1>0 DEF InviteRows, Stand
    <2>4. \A i \in InviteIds : invite'[i].on # None => invite'[i].sends > 0
      BY <1>0 DEF InviteRows, Stand
    <2>0. \A i \in InviteIds : invite'[i].on = invite[i].on
      BY DEF Stand
    <2>5. ASSUME NEW h \in Handlers, pc'[h] = "mailInvite"
          PROVE  invite'[local'[h].id].on = local'[h].on
      <3>1. pc[h] = "mailInvite" /\ local'[h] = local[h] /\ local[h].id \in InviteIds
        BY <2>2, <2>5
      <3>2. invite[local[h].id].on = local[h].on
        BY <1>0, <3>1 DEF InviteRows
      <3>3. QED
        BY <2>0, <3>1, <3>2
    <2>6. ASSUME NEW h \in Handlers, pc'[h] = "invite"
          PROVE  /\ local'[h].id <= begun'
                 /\ invite'[local'[h].id].on = IF local'[h].sends = 0 THEN None ELSE local'[h].on
      <3>1. pc[h] = "invite" /\ local'[h] = local[h] /\ local[h].id \in InviteIds
        BY <2>1, <2>6
      <3>2. local[h].id <= begun /\ local[h].id \in Int
        BY <1>0, <3>1 DEF InviteRows
      <3>3. invite[local[h].id].on = IF local[h].sends = 0 THEN None ELSE local[h].on
        BY <1>0, <3>1 DEF InviteRows
      <3>4. begun' \in {begun, begun + 1}
        BY DEF Stand
      <3>5. QED
        BY <1>0, <2>0, <3>1, <3>2, <3>3, <3>4
    <2>7. QED
      BY <1>0, <2>1, <2>3, <2>4, <2>5, <2>6 DEF InviteRows
  <1>2. \A m \in Emails : OpenInvites(m)' \subseteq OpenInvites(m)
    BY DEF OpenInvites, Stand
  <1>3. \A h \in Handlers : pc[h] # "idle" => local[h].on \in Emails
    BY DEF InviteInv, TeamTypes, HandlerTypes
  <1>4. Inviters'
    <2> SUFFICES ASSUME NEW h \in Handlers, pc'[h] = "invite", local'[h].on \notin contested'
                 PROVE  /\ \A g \in Handlers : pc'[g] = "invite" /\ local'[g].on = local'[h].on => g = h
                        /\ OpenInvites(local[h].on)' \subseteq {local'[h].id}
                        /\ local'[h].sends # 0 =>
                             local'[h].sends = invite'[local'[h].id].sends /\ local'[h].sends < MaxSends
      BY DEF Inviters, OpenInvites
    <2>1. pc[h] = "invite" /\ local'[h] = local[h] /\ local[h].id \in InviteIds /\ local[h].on \in Emails
      BY <1>0, <1>3 DEF Ids, Stand
    <2>2. \A g \in Handlers : pc'[g] = "invite" => pc[g] = "invite" /\ local'[g] = local[g]
      BY DEF Stand
    <2>3. OpenInvites(local[h].on)' \subseteq OpenInvites(local[h].on)
      BY <2>1 DEF OpenInvites, Stand
    <2>4. local[h].on \notin contested /\ invite'[local[h].id].sends = invite[local[h].id].sends
      BY <2>1 DEF Stand
    <2>5. /\ \A g \in Handlers : pc[g] = "invite" /\ local[g].on = local[h].on => g = h
          /\ OpenInvites(local[h].on) \subseteq {local[h].id}
          /\ local[h].sends # 0 =>
               local[h].sends = invite[local[h].id].sends /\ local[h].sends < MaxSends
      BY <1>0, <2>1, <2>4 DEF Inviters
    <2>6. QED
      BY <2>1, <2>2, <2>3, <2>4, <2>5
  <1>5. ASSUME NEW i \in InviteIds
        PROVE  /\ Mailing(i)' \subseteq Mailing(i)
               /\ IsFiniteSet(Mailing(i)')
               /\ Cardinality(Mailing(i)') \in Nat
               /\ Cardinality(Mailing(i)') <= Cardinality(Mailing(i))
    <2>1. Mailing(i)' \subseteq Mailing(i)
      BY DEF Mailing, Stand
    <2>2. QED
      BY <2>1, MailingType, FS_Subset, FS_CardinalityType
  <1>6. SendsCounted'
    <2>1. \A i \in InviteIds : IsFiniteSet(Mailing(i))'
      BY <1>5
    <2>2. \A i \in InviteIds : invite'[i].on = None => mailed'[i] = 0 /\ Mailing(i)' = {}
      BY <1>0, <1>5 DEF SendsCounted, Stand
    <2>3. ASSUME NEW m \in Emails \ contested', NEW i \in InviteIds, invite'[i].on = m
          PROVE  /\ mailed'[i] + Cardinality(Mailing(i)') <= invite'[i].sends
                 /\ invite'[i].sends <= MaxSends
      <3>1. /\ mailed[i] + Cardinality(Mailing(i)) <= invite[i].sends
            /\ invite[i].sends <= MaxSends
        BY <1>0, <2>3 DEF SendsCounted, Stand
      <3>2. QED
        BY <1>5, <3>1, MailingType DEF Stand
    <2>4. ASSUME NEW m \in Emails \ contested', NEW i \in OpenInvites(m)', NEW j \in OpenInvites(m)'
          PROVE  i = j
      BY <1>0, <1>2, <2>4 DEF SendsCounted, Stand
    <2>5. QED
      BY <2>1, <2>2, <2>3, <2>4 DEF SendsCounted
  <1>7. QED
    BY <1>1, <1>4, <1>6

\* inviteUser reads that an invitation may go out.
LEMMA InviteReadStep ==
  ASSUME InviteInv, NEW h \in Handlers, InviteRead(h)
  PROVE  InviteRows' /\ Inviters' /\ SendsCounted'
  <1>0. /\ InviteRows /\ Inviters /\ SendsCounted /\ TeamTypes /\ HandlerTypes
        /\ begun \in Nat /\ \A i \in InviteIds : i \in Nat /\ invite[i].sends \in Nat
        /\ \A g \in Handlers : pc[g] \in Ids => local[g].id \in InviteIds /\ local[g].on \in Emails
    BY RequestsAssumption DEF InviteInv, TeamTypes, HandlerTypes, InviteTypes, InviteRow, InviteIds, Ids
  <1>1. /\ Elsewhere(h) /\ pc[h] = "idle" /\ begun' = begun + 1
        /\ UNCHANGED <<invite, mailed>>
    BY <1>0, StartTypes DEF InviteRead, Starts
  <1>2. PICK m \in Emails, i \in InviteIds, n \in Nat :
          /\ pc'[h] = "invite" /\ local'[h] = [on |-> m, id |-> i, sends |-> n]
          /\ \/ OpenInvites(m) = {} /\ i = begun + 1 /\ n = 0
             \/ i \in OpenInvites(m) /\ n = invite[i].sends /\ n < MaxSends
          /\ contested' = IF \E g \in Handlers : pc[g] = "invite" /\ local[g].on = m
                          THEN contested \cup {m} ELSE contested
    <2>1. PICK m \in Emails \ LiveUsers :
            /\ \/ /\ OpenInvites(m) = {}
                  /\ Begin(h, "invite", [on |-> m, id |-> begun + 1, sends |-> 0])
               \/ \E i \in OpenInvites(m) :
                    /\ invite[i].sends < MaxSends /\ invite[i].rested
                    /\ Begin(h, "invite", [on |-> m, id |-> i, sends |-> invite[i].sends])
            /\ contested' = IF \E g \in Handlers : pc[g] = "invite" /\ local[g].on = m
                            THEN contested \cup {m} ELSE contested
      BY DEF InviteRead
    <2>2. ASSUME NEW c, Begin(h, "invite", c)
          PROVE  pc'[h] = "invite" /\ local'[h] = c /\ begun < MaxRequests
      BY <1>0, <2>2 DEF Begin, HandlerTypes
    <2>3. begun < MaxRequests => begun + 1 \in InviteIds
      BY <1>0, RequestsAssumption DEF InviteIds
    <2>4. \A i \in OpenInvites(m) : i \in InviteIds
      BY DEF OpenInvites
    <2>5. CASE OpenInvites(m) = {} /\ Begin(h, "invite", [on |-> m, id |-> begun + 1, sends |-> 0])
      <3>1. /\ pc'[h] = "invite" /\ local'[h] = [on |-> m, id |-> begun + 1, sends |-> 0]
            /\ begun + 1 \in InviteIds
        BY <2>2, <2>3, <2>5
      <3>2. \E i \in InviteIds, n \in Nat :
              /\ local'[h] = [on |-> m, id |-> i, sends |-> n]
              /\ i = begun + 1 /\ n = 0
        BY <3>1
      <3>3. QED
        BY <2>1, <2>5, <3>1, <3>2
    <2>6. ASSUME NEW i \in OpenInvites(m), invite[i].sends < MaxSends,
                 Begin(h, "invite", [on |-> m, id |-> i, sends |-> invite[i].sends])
          PROVE  /\ pc'[h] = "invite" /\ local'[h] = [on |-> m, id |-> i, sends |-> invite[i].sends]
                 /\ i \in InviteIds /\ invite[i].sends \in Nat
      BY <1>0, <2>2, <2>4, <2>6
    <2>7. QED
      BY <2>1, <2>5, <2>6
  <1>3. local'[h].on = m /\ local'[h].id = i /\ local'[h].sends = n
    BY <1>2
  <1>4. OpenInvites(m) = {} => invite[begun + 1].on = None \/ begun + 1 \notin InviteIds
    BY <1>0 DEF InviteRows
  <1>5. InviteRows'
    <2>1. i <= begun + 1 /\ invite[i].on = IF n = 0 THEN None ELSE m
      <3>1. CASE i = begun + 1 /\ n = 0
        BY <1>0, <1>2, <1>4, <3>1 DEF InviteRows
      <3>2. CASE i \in OpenInvites(m) /\ n = invite[i].sends
        <4>1. invite[i].on = m /\ m # None
          BY <3>2, TeamAssumption DEF OpenInvites
        <4>2. i <= begun /\ n > 0
          BY <1>0, <1>2, <3>2, <4>1 DEF InviteRows
        <4>3. QED
          BY <1>0, <4>1, <4>2
      <3>3. QED
        BY <1>2, <3>1, <3>2
    <2>2. ASSUME NEW g \in Handlers \ {h}, pc[g] = "invite"
          PROVE  local[g].id <= begun /\ local[g].id # begun + 1
                 /\ (local[g].sends = 0 => invite[local[g].id].on = None)
      BY <1>0, <2>2 DEF InviteRows, Ids
    <2>3. n # 0 => invite[i].on # None
      BY <2>1, TeamAssumption
    <2>4. \A f, g \in Handlers :
            pc'[f] = "invite" /\ pc'[g] = "invite" /\ local'[f].sends = 0 /\ local'[f].id = local'[g].id
              => f = g
      <3> SUFFICES ASSUME NEW f \in Handlers, NEW g \in Handlers, f # g,
                          pc'[f] = "invite", pc'[g] = "invite", local'[f].sends = 0,
                          local'[f].id = local'[g].id
                   PROVE  FALSE
        OBVIOUS
      <3>0. n = 0 => i = begun + 1
        BY <1>0, <1>2, TeamAssumption DEF OpenInvites, InviteRows
      <3>1. CASE f = h
        BY <1>1, <1>3, <2>2, <3>0, <3>1 DEF Elsewhere
      <3>2. CASE g = h
        BY <1>1, <1>3, <2>2, <2>3, <3>0, <3>2 DEF Elsewhere
      <3>3. CASE f # h /\ g # h
        BY <1>0, <1>1, <3>3 DEF Elsewhere, InviteRows
      <3>4. QED
        BY <3>1, <3>2, <3>3
    <2>5. QED
      BY <1>0, <1>1, <1>2, <1>3, <2>1, <2>4 DEF InviteRows, Elsewhere, Ids
  <1>6. Inviters'
    <2> SUFFICES ASSUME NEW g \in Handlers, pc'[g] = "invite", local'[g].on \notin contested'
                 PROVE  /\ \A f \in Handlers : pc'[f] = "invite" /\ local'[f].on = local'[g].on => f = g
                        /\ OpenInvites(local[g].on)' \subseteq {local'[g].id}
                        /\ local'[g].sends # 0 =>
                             local'[g].sends = invite'[local'[g].id].sends /\ local'[g].sends < MaxSends
      BY DEF Inviters, OpenInvites
    <2>1. CASE g = h
      BY <1>0, <1>1, <1>2, <1>3, <2>1 DEF Elsewhere, OpenInvites, SendsCounted
    <2>2. CASE g # h
      BY <1>0, <1>1, <1>2, <1>3, <2>2 DEF Elsewhere, OpenInvites, Inviters
    <2>3. QED
      BY <2>1, <2>2
  <1>7. SendsCounted'
    <2>1. \A j \in InviteIds : Mailing(j)' = Mailing(j)
      BY <1>1, <1>2 DEF Mailing, Elsewhere
    <2>2. contested \subseteq contested' /\ \A k : OpenInvites(k)' = OpenInvites(k)
      BY <1>1, <1>2 DEF OpenInvites
    <2>3. QED
      BY <1>0, <1>1, <2>1, <2>2 DEF SendsCounted
  <1>8. QED
    BY <1>5, <1>6, <1>7

\* The mail goes out or fails: one fewer to come, and one more gone at most.
LEMMA InviteMailStep ==
  ASSUME InviteInv, NEW h \in Handlers, InviteMail(h)
  PROVE  InviteRows' /\ Inviters' /\ SendsCounted'
  <1>0. PICK i \in InviteIds :
          /\ InviteRows /\ Inviters /\ SendsCounted /\ HandlerTypes
          /\ mailed \in [InviteIds -> Nat] /\ pc[h] = "mailInvite" /\ local[h].id = i
    BY DEF InviteInv, TeamTypes, HandlerTypes, InviteTypes, InviteMail
  <1>1. /\ Elsewhere(h) /\ pc'[h] = "idle" /\ begun' = begun
        /\ UNCHANGED <<invite, contested>>
    BY <1>0, TeamAnswerStep DEF InviteMail
  <1>2. PICK out \in {0, 1} : mailed' = [mailed EXCEPT ![i] = @ + out]
    BY <1>0 DEF InviteMail
  <1>3. InviteRows'
    BY <1>0, <1>1 DEF InviteRows, Elsewhere
  <1>4. Inviters'
    <2> SUFFICES ASSUME NEW g \in Handlers, pc'[g] = "invite", local'[g].on \notin contested'
                 PROVE  /\ \A f \in Handlers : pc'[f] = "invite" /\ local'[f].on = local'[g].on => f = g
                        /\ OpenInvites(local[g].on)' \subseteq {local'[g].id}
                        /\ local'[g].sends # 0 =>
                             local'[g].sends = invite'[local'[g].id].sends /\ local'[g].sends < MaxSends
      BY DEF Inviters, OpenInvites
    <2>1. g # h
      BY <1>1
    <2>2. QED
      BY <1>0, <1>1, <2>1 DEF Elsewhere, OpenInvites, Inviters
  <1>5. Mailing(i)' = Mailing(i) \ {h} /\ h \in Mailing(i)
    <2>1. h \in Mailing(i) /\ h \notin Mailing(i)'
      BY <1>0, <1>1 DEF Mailing
    <2>2. \A g \in Handlers \ {h} : g \in Mailing(i)' <=> g \in Mailing(i)
      BY <1>1 DEF Mailing, Elsewhere
    <2>3. Mailing(i)' \subseteq Handlers /\ Mailing(i) \subseteq Handlers
      BY DEF Mailing
    <2>4. QED
      BY <2>1, <2>2, <2>3
  <1>6. \A j \in InviteIds \ {i} : Mailing(j)' = Mailing(j) /\ mailed'[j] = mailed[j]
    BY <1>0, <1>1, <1>2 DEF Mailing, Elsewhere
  <1>7. /\ IsFiniteSet(Mailing(i)') /\ Cardinality(Mailing(i)') = Cardinality(Mailing(i)) - 1
        /\ mailed'[i] = mailed[i] + out
    BY <1>0, <1>2, <1>5, MailingType, FS_RemoveElement
  <1>8. \A j \in InviteIds :
          /\ IsFiniteSet(Mailing(j)')
          /\ mailed'[j] + Cardinality(Mailing(j)') <= mailed[j] + Cardinality(Mailing(j))
    <2>1. \A j \in InviteIds : IsFiniteSet(Mailing(j)) /\ Cardinality(Mailing(j)) \in Nat /\ mailed[j] \in Nat
      BY MailingType
    <2>2. ASSUME NEW j \in InviteIds, j # i
          PROVE  Mailing(j)' = Mailing(j) /\ mailed'[j] = mailed[j]
      BY <1>6, <2>2
    <2>3. mailed'[i] + Cardinality(Mailing(i)') <= mailed[i] + Cardinality(Mailing(i))
      BY <1>0, <1>7, <2>1
    <2>4. ASSUME NEW j \in InviteIds
          PROVE  /\ IsFiniteSet(Mailing(j)')
                 /\ mailed'[j] + Cardinality(Mailing(j)') <= mailed[j] + Cardinality(Mailing(j))
      <3>1. CASE j = i
        BY <1>7, <2>3, <3>1
      <3>2. CASE j # i
        BY <2>1, <2>2, <3>2
      <3>3. QED
        BY <3>1, <3>2
    <2>5. QED
      BY <2>4
  <1>9. SendsCounted'
    <2>1. invite[i].on # None
      BY <1>0, TeamAssumption DEF InviteRows, HandlerTypes
    <2>2. \A j \in InviteIds : invite'[j].on = None => mailed'[j] = 0 /\ Mailing(j)' = {}
      BY <1>0, <1>1, <1>6, <2>1 DEF SendsCounted
    <2>3. ASSUME NEW m \in Emails \ contested', NEW j \in InviteIds, invite'[j].on = m
          PROVE  mailed'[j] + Cardinality(Mailing(j)') <= invite'[j].sends /\ invite'[j].sends <= MaxSends
      <3>1. mailed[j] + Cardinality(Mailing(j)) <= invite[j].sends /\ invite[j].sends <= MaxSends
        BY <1>0, <1>1, <2>3 DEF SendsCounted
      <3>2. /\ mailed[j] \in Nat /\ Cardinality(Mailing(j)) \in Nat /\ invite[j].sends \in Nat
            /\ mailed'[j] \in Nat /\ Cardinality(Mailing(j)') \in Nat
        <4>1. Cardinality(Mailing(j)') \in Nat
          BY <1>8, FS_CardinalityType
        <4>2. mailed' \in [InviteIds -> Nat]
          BY <1>0, <1>2
        <4>3. QED
          BY <4>1, <4>2, MailingType
      <3>3. QED
        BY <1>1, <1>8, <3>1, <3>2
    <2>4. \A m \in Emails \ contested' : \A j, k \in OpenInvites(m)' : j = k
      BY <1>0, <1>1 DEF SendsCounted, OpenInvites
    <2>5. \A j \in InviteIds : IsFiniteSet(Mailing(j))'
      BY <1>8
    <2>6. QED
      BY <2>2, <2>3, <2>4, <2>5 DEF SendsCounted
  <1>10. QED
    BY <1>3, <1>4, <1>9

\* The row is written: a new one, or one more mail for the one that was read.
LEMMA InviteWriteCounted ==
  ASSUME InviteInv, NEW h \in Handlers, InviteWrite(h)
  PROVE  InviteRows' /\ Inviters' /\ SendsCounted'
  <1>0. PICK i \in InviteIds, m \in Emails, n \in Nat :
          /\ pc[h] = "invite" /\ local[h].id = i /\ local[h].on = m /\ local[h].sends = n
    BY DEF InviteInv, TeamTypes, HandlerTypes, InviteWrite
  <1>1. /\ InviteRows /\ Inviters /\ SendsCounted /\ HandlerTypes
        /\ invite \in [InviteIds -> InviteRow] /\ mailed' = mailed /\ contested' = contested
        /\ begun \in Nat /\ InviteIds \subseteq Int /\ m # None
        /\ \A g \in Handlers : pc[g] \in Ids => local[g].id \in InviteIds /\ local[g].on \in Emails
    BY RequestsAssumption, TeamAssumption
       DEF InviteInv, TeamTypes, HandlerTypes, InviteTypes, InviteWrite, InviteIds, Ids
  <1>2. /\ Elsewhere(h) /\ pc'[h] = "mailInvite" /\ local'[h] = local[h] /\ begun' = begun
    BY <1>0, <1>1, TeamGotoStep DEF InviteWrite, TeamAwaits, Ids
  <1>3. /\ \A j \in InviteIds \ {i} : invite'[j] = invite[j]
        /\ invite'[i].on = m /\ invite'[i].sends = n + 1
    BY <1>0, <1>1 DEF InviteWrite
  <1>4. /\ i <= begun /\ invite[i].on = IF n = 0 THEN None ELSE m
    BY <1>0, <1>1 DEF InviteRows
  <1>5. \A g \in Handlers \ {h} : pc'[g] = pc[g] /\ local'[g] = local[g]
    BY <1>2 DEF Elsewhere
  <1>6. InviteRows'
    <2>1. \A j \in InviteIds : j > begun' => invite'[j].on = None
      BY <1>1, <1>2, <1>3, <1>4 DEF InviteRows
    <2>2. \A j \in InviteIds : invite'[j].on # None => invite'[j].sends > 0
      BY <1>1, <1>3 DEF InviteRows
    <2>3. ASSUME NEW g \in Handlers, pc'[g] = "mailInvite"
          PROVE  invite'[local'[g].id].on = local'[g].on
      <3>1. CASE g = h
        BY <1>0, <1>2, <1>3, <3>1
      <3>2. CASE g # h
        <4>1. /\ pc[g] = "mailInvite" /\ local'[g] = local[g] /\ local[g].on \in Emails
              /\ local[g].id \in InviteIds /\ invite[local[g].id].on = local[g].on
          BY <1>1, <1>5, <2>3, <3>2 DEF InviteRows, Ids
        <4>2. QED
          BY <1>3, <1>4, <4>1, TeamAssumption
      <3>3. QED
        BY <3>1, <3>2
    <2>4. ASSUME NEW g \in Handlers, pc'[g] = "invite"
          PROVE  /\ local'[g].id <= begun'
                 /\ invite'[local'[g].id].on = IF local'[g].sends = 0 THEN None ELSE local'[g].on
      <3>1. g # h /\ pc[g] = "invite" /\ local'[g] = local[g]
        BY <1>2, <1>5, <2>4
      <3>2. /\ local[g].id \in InviteIds /\ local[g].on \in Emails /\ local[g].id <= begun
            /\ invite[local[g].id].on = IF local[g].sends = 0 THEN None ELSE local[g].on
        BY <1>1, <3>1 DEF InviteRows, Ids
      <3>3. local[g].id = i => local[g].sends # 0
        BY <1>0, <1>1, <3>1 DEF InviteRows
      <3>4. QED
        BY <1>2, <1>3, <1>4, <3>1, <3>2, <3>3, TeamAssumption
    <2>5. \A f, g \in Handlers :
            pc'[f] = "invite" /\ pc'[g] = "invite" /\ local'[f].sends = 0 /\ local'[f].id = local'[g].id
              => f = g
      BY <1>1, <1>2, <1>5 DEF InviteRows
    <2>6. QED
      BY <2>1, <2>2, <2>3, <2>4, <2>5 DEF InviteRows
  <1>7. ASSUME NEW k \in Emails, k # m
        PROVE  OpenInvites(k)' = OpenInvites(k)
    BY <1>1, <1>3, <1>4, <1>7, TeamAssumption DEF OpenInvites
  <1>8. Inviters'
    <2> SUFFICES ASSUME NEW g \in Handlers, pc'[g] = "invite", local'[g].on \notin contested'
                 PROVE  /\ \A f \in Handlers : pc'[f] = "invite" /\ local'[f].on = local'[g].on => f = g
                        /\ OpenInvites(local[g].on)' \subseteq {local'[g].id}
                        /\ local'[g].sends # 0 =>
                             local'[g].sends = invite'[local'[g].id].sends /\ local'[g].sends < MaxSends
      BY DEF Inviters, OpenInvites
    <2>1. /\ g # h /\ pc[g] = "invite" /\ local'[g] = local[g]
          /\ local[g].on \in Emails /\ local[g].id \in InviteIds /\ local[g].on \notin contested
      BY <1>1, <1>2, <1>5 DEF Ids
    <2>2. /\ \A f \in Handlers : pc[f] = "invite" /\ local[f].on = local[g].on => f = g
          /\ OpenInvites(local[g].on) \subseteq {local[g].id}
          /\ local[g].sends # 0 =>
               local[g].sends = invite[local[g].id].sends /\ local[g].sends < MaxSends
      BY <1>1, <2>1 DEF Inviters
    <2>3. local[g].on # m
      BY <1>0, <2>1, <2>2
    <2>4. PICK k \in Emails : k = local[g].on
      BY <2>1
    <2>5. OpenInvites(local[g].on)' \subseteq {local'[g].id}
      <3>1. OpenInvites(k)' = OpenInvites(k)
        BY <1>7, <2>3, <2>4
      <3>2. OpenInvites(local[g].on)' = OpenInvites(k)'
        BY <2>1, <2>4 DEF OpenInvites
      <3>3. QED
        BY <2>1, <2>2, <2>4, <3>1, <3>2
    <2>6. local[g].sends # 0 => local[g].id # i
      BY <1>1, <1>4, <2>1, <2>3, TeamAssumption DEF InviteRows
    <2>7. \A f \in Handlers : pc'[f] = "invite" /\ local'[f].on = local'[g].on => f = g
      BY <1>2, <1>5, <2>1, <2>2
    <2>8. QED
      BY <1>3, <2>1, <2>2, <2>5, <2>6, <2>7
  <1>9. Mailing(i)' = Mailing(i) \cup {h} /\ h \notin Mailing(i)
    <2>1. h \in Mailing(i)' /\ h \notin Mailing(i)
      BY <1>0, <1>2 DEF Mailing
    <2>2. \A g \in Handlers \ {h} : g \in Mailing(i)' <=> g \in Mailing(i)
      BY <1>5 DEF Mailing
    <2>3. Mailing(i)' \subseteq Handlers /\ Mailing(i) \subseteq Handlers
      BY DEF Mailing
    <2>4. QED
      BY <2>1, <2>2, <2>3
  <1>10. \A j \in InviteIds \ {i} : Mailing(j)' = Mailing(j)
    BY <1>0, <1>2, <1>5 DEF Mailing
  <1>11. IsFiniteSet(Mailing(i)') /\ Cardinality(Mailing(i)') = Cardinality(Mailing(i)) + 1
    BY <1>9, MailingType, FS_AddElement
  <1>12. SendsCounted'
    <2>1. ASSUME NEW j \in InviteIds PROVE IsFiniteSet(Mailing(j)')
      BY <1>10, <1>11, MailingType
    <2>2. \A j \in InviteIds : invite'[j].on = None => mailed'[j] = 0 /\ Mailing(j)' = {}
      BY <1>1, <1>3, <1>10 DEF SendsCounted
    <2>3. ASSUME NEW k \in Emails \ contested', NEW p \in OpenInvites(k)', NEW q \in OpenInvites(k)'
          PROVE  p = q
      <3>1. CASE k # m
        BY <1>1, <1>7, <2>3, <3>1 DEF SendsCounted
      <3>2. CASE k = m
        <4>1. OpenInvites(m) \subseteq {i}
          BY <1>0, <1>1, <2>3, <3>2 DEF Inviters
        <4>2. OpenInvites(k)' \subseteq OpenInvites(m) \cup {i}
          BY <1>3, <3>2 DEF OpenInvites
        <4>3. QED
          BY <2>3, <4>1, <4>2
      <3>3. QED
        BY <3>1, <3>2
    <2>4. ASSUME NEW k \in Emails \ contested', NEW j \in InviteIds, invite'[j].on = k
          PROVE  mailed'[j] + Cardinality(Mailing(j)') <= invite'[j].sends /\ invite'[j].sends <= MaxSends
      <3>1. CASE j # i
        BY <1>1, <1>3, <1>10, <2>4, <3>1 DEF SendsCounted
      <3>2. CASE j = i /\ n = 0
        <4>1. mailed[i] = 0 /\ Mailing(i) = {}
          BY <1>1, <1>4, <3>2 DEF SendsCounted
        <4>2. Cardinality(Mailing(i)') = 1
          BY <1>11, <4>1, FS_EmptySet
        <4>3. QED
          BY <1>1, <1>3, <3>2, <4>1, <4>2 DEF MaxSends
      <3>3. CASE j = i /\ n # 0
        <4>1. n = invite[i].sends /\ n < MaxSends
          BY <1>0, <1>1, <1>3, <2>4, <3>3 DEF Inviters
        <4>2. mailed[i] + Cardinality(Mailing(i)) <= invite[i].sends
          BY <1>1, <1>3, <1>4, <2>4, <3>3 DEF SendsCounted
        <4>3. mailed[i] \in Nat /\ Cardinality(Mailing(i)) \in Nat
          BY MailingType
        <4>4. QED
          BY <1>1, <1>3, <1>11, <3>3, <4>1, <4>2, <4>3 DEF MaxSends
      <3>4. QED
        BY <3>1, <3>2, <3>3
    <2>5. QED
      BY <2>1, <2>2, <2>3, <2>4 DEF SendsCounted
  <1>13. QED
    BY <1>6, <1>8, <1>12

\* Every other step stands.
LEMMA OthersStand ==
  ASSUME InviteInv, [TeamNext]_team
  PROVE  \/ Stand
         \/ \E h \in Handlers : InviteRead(h) \/ InviteWrite(h) \/ InviteMail(h)
  <1>0. /\ TeamTypes /\ HandlerTypes /\ begun \in Nat /\ DOMAIN pc = Handlers
        /\ invite \in [InviteIds -> InviteRow]
    BY RequestsAssumption DEF InviteInv, TeamTypes, InviteTypes, HandlerTypes
  <1>1. CASE UNCHANGED team
    BY <1>0, <1>1 DEF team, teamVars, handlerVars, Stand
  <1>2. CASE Passes
    <2>1. UNCHANGED <<mailed, contested, handlerVars>>
      BY <1>0, <1>2, PassStep
    <2>2. \A i \in InviteIds :
            /\ invite'[i].on = invite[i].on /\ invite'[i].sends = invite[i].sends
            /\ invite'[i].status = invite[i].status /\ (invite'[i].fresh => invite[i].fresh)
      <3>1. CASE \E s \in sessions : Logout(s)
        BY <3>1 DEF Logout
      <3>2. CASE \E link \in resets : ResetExpire(link)
        BY <3>2 DEF ResetExpire
      <3>3. CASE \E i \in InviteIds : InviteRest(i)
        BY <1>0, <3>3 DEF InviteRest, InviteRow
      <3>4. CASE \E i \in InviteIds : InviteExpire(i)
        BY <1>0, <3>4 DEF InviteExpire, InviteRow
      <3>5. QED
        BY <1>2, <3>1, <3>2, <3>3, <3>4 DEF Passes
    <2>3. QED
      BY <1>0, <2>1, <2>2 DEF Stand, handlerVars
  <1>3. ASSUME NEW h \in Handlers, Elsewhere(h), pc'[h] \notin {"invite", "mailInvite"},
               begun' \in {begun, begun + 1}, UNCHANGED <<invite, mailed, contested>>
        PROVE  Stand
    BY <1>0, <1>3 DEF Stand, Elsewhere
  <1>4. ASSUME NEW h \in Handlers, Starts(h), ~InviteRead(h)
        PROVE  Stand
    <2>1. Elsewhere(h) /\ begun' = begun + 1 /\ pc'[h] \in StartAwaits
      BY <1>0, <1>4, StartTypes
    <2>2. UNCHANGED <<invite, mailed>>
      BY <1>0, <1>4, StartStep
    <2>3. contested' = contested /\ pc'[h] # "invite"
      BY <1>0, <1>4 DEF Starts, Login, Refresh, ForgotPassword, ResetFind, ChangeCheck,
         RepInviteFind, CreateUserCheck, UpdateUserFind, DeactivateFind, ArchiveFind, AcceptFind, Begin,
         teamVars
    <2>4. QED
      BY <1>3, <2>1, <2>2, <2>3 DEF StartAwaits
  <1>5. ASSUME NEW h \in Handlers, UserWrites(h) \/ TeamFail(h)
        PROVE  Stand
    BY <1>0, <1>3, <1>5, UserWriteStep, FailStep DEF Ids
  <1>6. ASSUME NEW h \in Handlers, MarkExpired(h) \/ Accept(h)
        PROVE  Stand
    <2>1. /\ Elsewhere(h) /\ pc'[h] = "idle" /\ UNCHANGED <<contested, begun>>
          /\ local[h].id \in InviteIds
      BY <1>0, <1>6, InviteWriteStep DEF InviteWrites, InviteWrite, MarkExpired, Accept
    <2>2. \/ invite' = [invite EXCEPT ![local[h].id].status = "expired"]
          \/ invite' = [invite EXCEPT ![local[h].id].status = "accepted"]
          \/ invite' = invite
      BY <1>6 DEF MarkExpired, Accept
    <2>3. \A i \in InviteIds :
            /\ invite'[i].on = invite[i].on /\ invite'[i].sends = invite[i].sends
            /\ invite'[i].status = "pending" /\ invite'[i].fresh =>
                 invite[i].status = "pending" /\ invite[i].fresh
      BY <1>0, <2>1, <2>2 DEF InviteRow
    <2>4. mailed' = mailed
      BY <1>6 DEF MarkExpired, Accept
    <2>5. QED
      BY <1>0, <2>1, <2>3, <2>4 DEF Stand, Elsewhere
  <1>7. QED
    BY <1>1, <1>2, <1>4, <1>5, <1>6, TeamSteps DEF InviteWrites

LEMMA InitInvites ==
  ASSUME TeamInit, RequestsInit
  PROVE  InviteRows /\ Inviters /\ SendsCounted
  <1>1. /\ \A h \in Handlers : pc[h] = "idle"
        /\ begun = 0 /\ InviteIds \subseteq Nat
        /\ \A i \in InviteIds : Mailing(i) = {}
    BY RequestsAssumption DEF RequestsInit, Mailing, InviteIds
  <1>2. \A i \in InviteIds :
          \/ invite[i] = NoInvite /\ mailed[i] = 0
          \/ /\ i = 0 /\ mailed[i] = 2
             /\ \E m \in Emails : invite[i] =
                  [on |-> m, status |-> "pending", fresh |-> TRUE, sends |-> 2, rested |-> TRUE]
    BY <1>1 DEF TeamInit
  <1>3. ASSUME NEW i \in InviteIds
        PROVE  \/ invite[i].on = None /\ mailed[i] = 0
               \/ i = 0 /\ mailed[i] = 2 /\ invite[i].sends = 2 /\ invite[i].on # None
    <2>1. CASE invite[i] = NoInvite /\ mailed[i] = 0
      BY <2>1 DEF NoInvite
    <2>2. ASSUME i = 0, mailed[i] = 2, NEW m \in Emails, invite[i] =
                   [on |-> m, status |-> "pending", fresh |-> TRUE, sends |-> 2, rested |-> TRUE]
          PROVE  invite[i].sends = 2 /\ invite[i].on # None
      BY <2>2, TeamAssumption
    <2>3. QED
      BY <1>2, <2>1, <2>2
  <1>4. InviteRows /\ Inviters
    BY <1>1, <1>3 DEF InviteRows, Inviters
  <1>5. SendsCounted
    <2>1. \A i \in InviteIds : IsFiniteSet(Mailing(i)) /\ Cardinality(Mailing(i)) = 0
      BY <1>1, FS_EmptySet
    <2>2. \A m \in Emails : \A i \in OpenInvites(m) : i = 0
      BY <1>3, TeamAssumption DEF OpenInvites
    <2>3. \A i \in InviteIds : invite[i].on = None => mailed[i] = 0
      BY <1>3
    <2>4. \A i \in InviteIds : invite[i].on # None =>
            mailed[i] + Cardinality(Mailing(i)) <= invite[i].sends /\ invite[i].sends <= MaxSends
      BY <1>3, <2>1 DEF MaxSends
    <2>5. QED
      BY <1>1, <2>1, <2>2, <2>3, <2>4, TeamAssumption DEF SendsCounted
  <1>6. QED
    BY <1>4, <1>5

\* An email two requests never invited at a time has one open invitation, which
\* counts the mails that went out for it and sends three at most.
THEOREM InvitesAreBounded == TeamSpec => []InvitesBounded
  <1>1. TeamInit /\ RequestsInit => InviteInv
    BY InitTypes, InitInvites DEF InviteInv
  <1>2. InviteInv /\ [TeamNext]_team => InviteInv'
    <2> SUFFICES ASSUME InviteInv, [TeamNext]_team
                 PROVE  InviteInv'
      OBVIOUS
    <2>1. TeamTypes'
      BY TypesStep DEF InviteInv
    <2>2. InviteRows' /\ Inviters' /\ SendsCounted'
      BY OthersStand, InvitesStand, InviteReadStep, InviteMailStep, InviteWriteCounted
    <2>3. QED
      BY <2>1, <2>2 DEF InviteInv
  <1>3. InviteInv => InvitesBounded
    <2> SUFFICES ASSUME InviteInv, NEW m \in Emails \ contested
                 PROVE  /\ Cardinality(OpenInvites(m)) <= 1
                        /\ \A i \in InviteIds : invite[i].on = m =>
                             mailed[i] <= invite[i].sends /\ invite[i].sends <= MaxSends
      BY DEF InvitesBounded
    <2>1. /\ \A i, j \in OpenInvites(m) : i = j
          /\ \A i \in InviteIds : invite[i].on = m =>
               mailed[i] + Cardinality(Mailing(i)) <= invite[i].sends /\ invite[i].sends <= MaxSends
      BY DEF InviteInv, SendsCounted
    <2>2. Cardinality(OpenInvites(m)) <= 1
      <3>1. CASE OpenInvites(m) = {}
        BY <3>1, FS_EmptySet
      <3>2. CASE OpenInvites(m) # {}
        <4>1. PICK i \in OpenInvites(m) : TRUE
          BY <3>2
        <4>2. OpenInvites(m) = {i}
          BY <2>1, <4>1
        <4>3. Cardinality({i}) = 1
          BY FS_Singleton
        <4>4. QED
          BY <4>2, <4>3
      <3>3. QED
        BY <3>1, <3>2
    <2>3. QED
      BY <2>1, <2>2, MailingType
  <1>4. QED
    BY <1>1, <1>2, <1>3, PTL DEF TeamSpec

-----------------------------------------------------------------------------
(* Socials: its inductive invariant.                                       *)

PostStatus == {"none", "scheduled", "sent", "failed", "deleted"}
PostRow == [status : PostStatus, audience : SUBSET Networks]
LogEntry == [status : LogStatus, attempts : Nat]

SocialRows ==
  /\ post \in [Posts -> PostRow]
  /\ logs \in [Posts -> [Logged -> LogEntry]]
  /\ published \in [Posts -> [Networks -> Nat]]
  /\ DOMAIN xToken = {"refresh", "fresh"}

\* The awaits of one attempt at a network, X's first.
XAttempt == {"client", "refresh", "save"}
Attempts == XAttempt \cup {"upload", "publish", "published"}

\* What a request for a post carries.  A retry is for one logged network; createPost
\* has X behind it when it is at another network.
ServesPost(p, r) ==
  /\ {"on", "retry"} \subseteq DOMAIN r
  /\ r.on \in Posts /\ r.retry \in BOOLEAN
  /\ p # "next" => "net" \in DOMAIN r /\ r.net \in Networks
  /\ p \in XAttempt => r.net = "x"
  /\ r.retry => p # "next" /\ r.net \in Logged
  /\ ~r.retry =>
       /\ {"todo", "errors"} \subseteq DOMAIN r
       /\ r.todo \subseteq Networks /\ r.errors \in BOOLEAN
       /\ p # "next" => r.net \in r.todo
       /\ p # "next" /\ r.net # "x" => "x" \notin r.todo

\* Whom a request at await p works for: a post, or a connection.
Carries(p, r) ==
  /\ "on" \in DOMAIN r
  /\ p \in {"refresh", "save"} => "token" \in DOMAIN r
  /\ p \in Attempts \cup {"next"} => ServesPost(p, r) \/ (p = "save" /\ r.on = None)

SocialRequests ==
  /\ pc \in [Handlers -> Attempts \cup {"next", "saveMeta", "saveLinkedIn", "idle"}]
  /\ DOMAIN local = Handlers
  /\ begun \in 0..MaxRequests
  /\ \A h \in Handlers : Carries(pc[h], local[h])

SocialTypes == SocialRows /\ SocialRequests

\* h is trying network n for p; createPost is still to try it.
Trying(h, p, n) == pc[h] \in Attempts /\ local[h].on = p /\ local[h].net = n
Coming(h, p, n) ==
  /\ pc[h] \in Attempts \cup {"next"} /\ local[h].on = p
  /\ ~local[h].retry /\ n \in local[h].todo /\ ~Trying(h, p, n)

Logs(p, n, statuses) == n \in Logged => logs[p][n].status \in statuses

\* A post that is not there yet has left no trace.
NotYet == \A p \in Posts : post[p].status = "none" =>
  /\ \A n \in Networks : published[p][n] = 0
  /\ \A n \in Logged : logs[p][n].status = "none"
  /\ \A h \in Handlers : pc[h] \in Attempts \cup {"next"} => local[h].on # p

\* One attempt at a time, the log entry tells of it, and the post is visible once
\* the network has answered.
OneAt(p, n) == <<p, n>> \notin doubtful =>
  /\ published[p][n] <= 1
  /\ n \in Logged /\ logs[p][n].status \in {"none", "failed"} => published[p][n] = 0
  /\ \A h \in Handlers : Trying(h, p, n) =>
       /\ published[p][n] = 0 \/ pc[h] = "published"
       /\ Logs(p, n, {"pending"})
       /\ \A g \in Handlers : ~Coming(g, p, n) /\ (Trying(g, p, n) => g = h)
  /\ \A h \in Handlers : Coming(h, p, n) =>
       /\ published[p][n] = 0
       /\ Logs(p, n, {"none"})
       /\ \A g \in Handlers : Coming(g, p, n) => g = h

OneAttempt == \A p \in Posts, n \in Networks : OneAt(p, n)

\* The refresh tokens that somebody knows.
Known(t) ==
  \/ t \in xAccepts \/ t = xToken.refresh
  \/ \E g \in Handlers : pc[g] \in {"refresh", "save"} /\ local[g].token = t

\* A request gets one token at most, named by the requests made until then.
MayRefresh(h) == pc[h] \in {"client", "refresh"} \/ (pc[h] = "next" /\ "x" \in local[h].todo)
TokensNamed == \A h \in Handlers, b \in 0..MaxRequests : Known(<<h, b>>) =>
  b <= begun /\ (MayRefresh(h) => b < begun)

\* A token on its way to the store is good, and nobody else has it.
OnTheWay == \A h \in Handlers : pc[h] = "save" =>
  /\ local[h].token \in xAccepts /\ local[h].token # xToken.refresh
  /\ \A g \in Handlers \ {h} : pc[g] \in {"refresh", "save"} => local[g].token # local[h].token

Attempting == NotYet /\ OneAttempt
Tokens == TokensNamed /\ OnTheWay /\ XTokenWorks
SocialInv == SocialTypes /\ Attempting /\ Tokens

-----------------------------------------------------------------------------
(* The steps the actions are built from.                                   *)

\* A step of one request leaves the others alone.

LEMMA SocialBeginStep ==
  ASSUME SocialRequests, NEW h \in Handlers, NEW await \in Attempts \cup {"next", "saveMeta", "saveLinkedIn"},
         NEW c, Begin(h, await, c), Carries(await, c)
  PROVE  /\ SocialRequests' /\ Elsewhere(h)
         /\ pc[h] = "idle" /\ pc'[h] = await /\ local'[h] = c /\ begun' = begun + 1
  BY RequestsAssumption DEF SocialRequests, Begin, Elsewhere

LEMMA SocialAnswerStep ==
  ASSUME SocialRequests, NEW h \in Handlers, Answer(h)
  PROVE  SocialRequests' /\ Elsewhere(h) /\ pc'[h] = "idle" /\ begun' = begun
  <1>1. Carries("idle", Nothing)
    BY DEF Carries, Nothing, Attempts, XAttempt
  <1>2. QED
    BY <1>1 DEF SocialRequests, Answer, Elsewhere

LEMMA SocialGotoStep ==
  ASSUME SocialRequests, NEW h \in Handlers, NEW await \in Attempts,
         Goto(h, await), Carries(await, local[h])
  PROVE  /\ SocialRequests' /\ Elsewhere(h)
         /\ pc'[h] = await /\ local'[h] = local[h] /\ begun' = begun
  BY DEF SocialRequests, Goto, Elsewhere

LEMMA SocialCarryStep ==
  ASSUME SocialRequests, NEW h \in Handlers, NEW await \in Attempts \cup {"next"}, NEW more,
         Carry(h, await, more), Carries(await, With(more, local[h]))
  PROVE  /\ SocialRequests' /\ Elsewhere(h)
         /\ pc'[h] = await /\ local'[h] = With(more, local[h]) /\ begun' = begun
  BY DEF SocialRequests, Carry, Elsewhere

\* createPost takes the first of the networks that are left, and X before the others.
LEMMA FirstIsLeft ==
  ASSUME NEW todo \in SUBSET Networks, todo # {}
  PROVE  /\ FirstOf(todo) \in todo
         /\ FirstOf(todo) # "x" => "x" \notin todo
  <1> DEFINE First(i) == Order[i] \in todo /\ \A j \in 1..(i-1) : Order[j] \notin todo
  <1>1. Order[1] = "x" /\ Order[2] = "facebook" /\ Order[3] = "instagram" /\ Order[4] = "linkedin"
    BY DEF Order
  <1>2. \E i \in 1..4 : First(i)
    <2>1. CASE "x" \in todo
      BY <1>1, <2>1
    <2>2. CASE "x" \notin todo /\ "facebook" \in todo
      BY <1>1, <2>2
    <2>3. CASE {"x", "facebook"} \cap todo = {} /\ "instagram" \in todo
      BY <1>1, <2>3
    <2>4. CASE {"x", "facebook", "instagram"} \cap todo = {} /\ "linkedin" \in todo
      BY <1>1, <2>4
    <2>5. QED
      BY <2>1, <2>2, <2>3, <2>4 DEF Networks
  <1>3. PICK i \in 1..4 : First(i) /\ FirstOf(todo) = Order[i]
    BY <1>2 DEF FirstOf
  <1>4. i # 1 => "x" \notin todo
    BY <1>1, <1>3
  <1>5. QED
    BY <1>1, <1>3, <1>4

LEMMA WithTodo ==
  ASSUME NEW r, NEW t, NEW e
  PROVE  /\ With([todo |-> t, errors |-> e], r).todo = t
         /\ With([todo |-> t, errors |-> e], r).errors = e
         /\ \A f \in DOMAIN r : f \notin {"todo", "errors"} => With([todo |-> t, errors |-> e], r)[f] = r[f]
         /\ DOMAIN With([todo |-> t, errors |-> e], r) = DOMAIN r \cup {"todo", "errors"}
  BY DEF With

\* The outcome of an attempt: the log entry has it, a retry is over, and createPost
\* has the other networks left.
Recorded(h, ok) == LET r == local[h] IN
  /\ SocialRequests' /\ Elsewhere(h) /\ begun' = begun
  /\ logs' \in [Posts -> [Logged -> LogEntry]]
  /\ r.net \in Logged => logs'[r.on][r.net].status = IF ok THEN "success" ELSE "failed"
  /\ \A p \in Posts, n \in Logged : <<p, n>> # <<r.on, r.net>> => logs'[p][n] = logs[p][n]
  /\ \/ pc'[h] = "idle"
     \/ /\ pc'[h] = "next" /\ ~r.retry /\ local'[h].on = r.on /\ ~local'[h].retry
        /\ local'[h].todo = r.todo \ {r.net}

LEMMA LogStep ==
  ASSUME SocialRows, NEW p \in Posts, NEW n \in Logged, NEW e \in LogEntry, logs' = [logs EXCEPT ![p][n] = e]
  PROVE  /\ logs' \in [Posts -> [Logged -> LogEntry]]
         /\ logs'[p][n] = e
         /\ \A q \in Posts, m \in Logged : <<q, m>> # <<p, n>> => logs'[q][m] = logs[q][m]
  <1>0. logs \in [Posts -> [Logged -> LogEntry]]
    BY DEF SocialRows
  <1>1. logs'[p] = [logs[p] EXCEPT ![n] = e] /\ DOMAIN logs' = Posts
    BY <1>0
  <1>2. \A q \in Posts : q # p => logs'[q] = logs[q]
    BY <1>0
  <1>3. [logs[p] EXCEPT ![n] = e] \in [Logged -> LogEntry] /\ logs[p] \in [Logged -> LogEntry]
    BY <1>0
  <1>4. logs' \in [Posts -> [Logged -> LogEntry]]
    BY <1>0, <1>1, <1>2, <1>3
  <1>5. logs'[p][n] = e /\ \A m \in Logged : m # n => logs'[p][m] = logs[p][m]
    BY <1>1, <1>3
  <1>6. QED
    BY <1>2, <1>4, <1>5

LEMMA RecordStep ==
  ASSUME SocialTypes, NEW h \in Handlers, NEW ok \in BOOLEAN, Record(h, ok), pc[h] \in Attempts,
         ServesPost(pc[h], local[h])
  PROVE  Recorded(h, ok)
  <1> DEFINE r == local[h]
  <1>0. /\ r.on \in Posts /\ r.net \in Networks /\ r.retry \in BOOLEAN /\ SocialRequests
        /\ logs \in [Posts -> [Logged -> LogEntry]]
    BY DEF ServesPost, Attempts, XAttempt, SocialTypes, SocialRows
  <1>1. /\ logs' \in [Posts -> [Logged -> LogEntry]]
        /\ r.net \in Logged => logs'[r.on][r.net].status = IF ok THEN "success" ELSE "failed"
        /\ \A p \in Posts, n \in Logged : <<p, n>> # <<r.on, r.net>> => logs'[p][n] = logs[p][n]
    <2>1. CASE r.net \in Logged
      <3>1. logs' = [logs EXCEPT ![r.on][r.net].status = IF ok THEN "success" ELSE "failed"]
        BY <2>1 DEF Record, SetLog
      <3>2. PICK e : e = [logs[r.on][r.net] EXCEPT !.status = IF ok THEN "success" ELSE "failed"]
        OBVIOUS
      <3>3. e \in LogEntry /\ e.status = IF ok THEN "success" ELSE "failed"
        <4>1. logs[r.on][r.net] \in LogEntry
          BY <1>0, <2>1
        <4>2. QED
          BY <3>2, <4>1 DEF LogEntry, LogStatus
      <3>4. logs' = [logs EXCEPT ![r.on][r.net] = e]
        BY <3>1, <3>2
      <3>5. QED
        BY <1>0, <2>1, <3>3, <3>4, LogStep DEF SocialTypes
    <2>2. CASE r.net \notin Logged
      BY <1>0, <2>2 DEF Record
    <2>3. QED
      BY <2>1, <2>2
  <1>2. CASE r.retry
    BY <1>0, <1>1, <1>2, SocialAnswerStep DEF Record, Recorded
  <1>3. CASE ~r.retry
    <2> DEFINE e == r.errors \/ ~ok
    <2>1. Carry(h, "next", [todo |-> r.todo \ {r.net}, errors |-> e])
      BY <1>3 DEF Record
    <2>2. PICK b \in BOOLEAN : b = e
      OBVIOUS
    <2>3. /\ r.todo \subseteq Networks /\ {"on", "retry", "todo", "errors"} \subseteq DOMAIN r
      BY <1>3 DEF ServesPost
    <2>4. PICK w : w = With([todo |-> r.todo \ {r.net}, errors |-> b], r)
      OBVIOUS
    <2>5. /\ w.todo = r.todo \ {r.net} /\ w.errors = b /\ w.on = r.on /\ w.retry = r.retry
          /\ {"on", "retry", "todo", "errors"} \subseteq DOMAIN w
      BY <2>3, <2>4, WithTodo
    <2>6. Carries("next", w)
      BY <1>0, <1>3, <2>3, <2>5 DEF Carries, ServesPost, XAttempt, Attempts
    <2>7. /\ SocialRequests' /\ Elsewhere(h) /\ pc'[h] = "next" /\ local'[h] = w /\ begun' = begun
      BY <1>0, <2>1, <2>2, <2>4, <2>6, SocialCarryStep
    <2>8. QED
      BY <1>1, <1>3, <2>5, <2>7 DEF Recorded
  <1>4. QED
    BY <1>0, <1>2, <1>3

\* createPost, or a retry, while it is at a network.
LEMMA AtNetwork ==
  ASSUME SocialTypes, NEW h \in Handlers, pc[h] \in Attempts, pc[h] # "save" \/ local[h].on # None
  PROVE  ServesPost(pc[h], local[h])
  BY DEF SocialTypes, SocialRequests, Carries

-----------------------------------------------------------------------------
(* No network shows a post twice.                                          *)

Serves == Attempts \cup {"next"}

\* Nobody starts to try a network, or is to.
LEMMA KeepOne ==
  ASSUME NEW p \in Posts, NEW n \in Networks, OneAt(p, n), doubtful \subseteq doubtful',
         published'[p][n] = published[p][n], n \in Logged => logs'[p][n] = logs[p][n],
         \A g \in Handlers : Trying(g, p, n)' => Trying(g, p, n) /\ (pc[g] = "published" => pc'[g] = "published"),
         \A g \in Handlers : Coming(g, p, n)' => Coming(g, p, n)
  PROVE  OneAt(p, n)'
  <1> SUFFICES ASSUME <<p, n>> \notin doubtful'
               PROVE  OneAt(p, n)'
    BY DEF OneAt
  <1>1. <<p, n>> \notin doubtful
    OBVIOUS
  <1>2. n \in Logged => logs'[p][n].status = logs[p][n].status
    OBVIOUS
  <1>3. \A s : Logs(p, n, s) => Logs(p, n, s)'
    BY <1>2 DEF Logs
  <1>4. /\ published'[p][n] <= 1
        /\ n \in Logged /\ logs'[p][n].status \in {"none", "failed"} => published'[p][n] = 0
    BY <1>1, <1>2 DEF OneAt
  <1>5. ASSUME NEW g \in Handlers, Trying(g, p, n)'
        PROVE  /\ published'[p][n] = 0 \/ pc'[g] = "published"
               /\ Logs(p, n, {"pending"})'
               /\ \A f \in Handlers : ~Coming(f, p, n)' /\ (Trying(f, p, n)' => f = g)
    <2>1. Trying(g, p, n) /\ (pc[g] = "published" => pc'[g] = "published")
      BY <1>5
    <2>2. /\ published[p][n] = 0 \/ pc[g] = "published"
          /\ Logs(p, n, {"pending"})
          /\ \A f \in Handlers : ~Coming(f, p, n) /\ (Trying(f, p, n) => f = g)
      BY <1>1, <2>1 DEF OneAt
    <2>3. Logs(p, n, {"pending"})'
      BY <1>3, <2>2
    <2>4. QED
      BY <2>1, <2>2, <2>3
  <1>6. ASSUME NEW g \in Handlers, Coming(g, p, n)'
        PROVE  /\ published'[p][n] = 0
               /\ Logs(p, n, {"none"})'
               /\ \A f \in Handlers : Coming(f, p, n)' => f = g
    <2>1. Coming(g, p, n)
      BY <1>6
    <2>2. /\ published[p][n] = 0 /\ Logs(p, n, {"none"})
          /\ \A f \in Handlers : Coming(f, p, n) => f = g
      BY <1>1, <2>1 DEF OneAt
    <2>3. Logs(p, n, {"none"})'
      BY <1>3, <2>2
    <2>4. QED
      BY <2>2, <2>3
  <1>7. QED
    BY <1>4, <1>5, <1>6 DEF OneAt

LEMMA ElsewhereSame ==
  ASSUME NEW h \in Handlers, Elsewhere(h), NEW g \in Handlers \ {h}, NEW p, NEW n
  PROVE  /\ Trying(g, p, n)' <=> Trying(g, p, n)
         /\ Coming(g, p, n)' <=> Coming(g, p, n)
         /\ pc'[g] = pc[g]
  <1>1. pc'[g] = pc[g] /\ local'[g] = local[g]
    BY DEF Elsewhere
  <1>2. Trying(g, p, n)' <=> Trying(g, p, n)
    BY <1>1 DEF Trying
  <1>3. QED
    BY <1>1, <1>2 DEF Coming

\* h works on for the post it worked for, if it works for one.
SamePost(h) == pc'[h] \in Serves =>
  local'[h].on \notin Posts \/ (pc[h] \in Serves /\ local'[h].on = local[h].on)

LEMMA NotYetKept ==
  ASSUME SocialTypes, NotYet, NEW h \in Handlers, Elsewhere(h), SamePost(h),
         \A p \in Posts : post'[p].status = "none" => post[p].status = "none",
         \A p \in Posts, n \in Networks : published'[p][n] = published[p][n] \/ post[p].status # "none",
         \A p \in Posts, n \in Logged : logs'[p][n] = logs[p][n] \/ post[p].status # "none"
  PROVE  NotYet'
  <1> SUFFICES ASSUME NEW p \in Posts, post'[p].status = "none"
               PROVE  /\ \A n \in Networks : published'[p][n] = 0
                      /\ \A n \in Logged : logs'[p][n].status = "none"
                      /\ \A g \in Handlers : pc'[g] \in Serves => local'[g].on # p
    BY DEF NotYet, Serves
  <1>1. /\ \A n \in Networks : published[p][n] = 0
        /\ \A n \in Logged : logs[p][n].status = "none"
        /\ \A g \in Handlers : pc[g] \in Serves => local[g].on # p
        /\ post[p].status = "none"
    BY DEF NotYet, Serves
  <1>2. \A g \in Handlers : pc'[g] \in Serves => local'[g].on # p
    BY <1>1 DEF Elsewhere, SamePost
  <1>3. QED
    BY <1>1, <1>2

\* A step that moves one request on, or ends it.
LEMMA FrameAttempts ==
  ASSUME SocialTypes, Attempting, NEW h \in Handlers, Elsewhere(h), SamePost(h),
         logs' = logs, published' = published, doubtful \subseteq doubtful',
         \A p \in Posts : post'[p].status = "none" => post[p].status = "none",
         \A p \in Posts, n \in Networks : Trying(h, p, n)' => Trying(h, p, n) /\ pc[h] # "published",
         \A p \in Posts, n \in Networks : Coming(h, p, n)' => Coming(h, p, n)
  PROVE  Attempting'
  <1>1. NotYet'
    BY NotYetKept DEF Attempting
  <1>2. ASSUME NEW p \in Posts, NEW n \in Networks
        PROVE  OneAt(p, n)'
    <2>1. OneAt(p, n)
      BY DEF Attempting, OneAttempt
    <2>2. ASSUME NEW g \in Handlers
          PROVE  /\ Trying(g, p, n)' => Trying(g, p, n) /\ (pc[g] = "published" => pc'[g] = "published")
                 /\ Coming(g, p, n)' => Coming(g, p, n)
      BY ElsewhereSame
    <2>3. QED
      BY <2>1, <2>2, KeepOne
  <1>3. QED
    BY <1>1, <1>2 DEF Attempting, OneAttempt

\* The end of an attempt.  It failed only if the network did not answer; and what the
\* network publishes unheard is in doubt.
LEMMA RecordAttempts ==
  ASSUME SocialTypes, Attempting, NEW h \in Handlers, NEW ok \in BOOLEAN, Recorded(h, ok),
         pc[h] \in Attempts, ServesPost(pc[h], local[h]),
         post' = post, doubtful \subseteq doubtful', ~ok => pc[h] # "published",
         \A p \in Posts, n \in Networks :
           published'[p][n] = published[p][n]
           \/ (p = local[h].on /\ n = local[h].net /\ <<p, n>> \in doubtful')
  PROVE  Attempting'
  <1> DEFINE r == local[h]
  <1>0. /\ r.on \in Posts /\ r.net \in Networks /\ pc[h] # "idle"
        /\ Elsewhere(h) /\ post[r.on].status # "none"
    BY DEF ServesPost, Attempts, XAttempt, Recorded, Attempting, NotYet
  <1>1. SamePost(h)
    BY DEF SamePost, Serves, Attempts, XAttempt, Recorded
  <1>2. NotYet'
    BY <1>0, <1>1, NotYetKept DEF Attempting, Recorded
  <1>3. \A p \in Posts, n \in Networks : ~Trying(h, p, n)'
    BY DEF Recorded, Trying, Attempts, XAttempt
  <1>4. ASSUME NEW p \in Posts, NEW n \in Networks
        PROVE  Coming(h, p, n)' => /\ <<p, n>> # <<r.on, r.net>>
                                   /\ ~r.retry /\ p = r.on /\ n \in r.todo
    <2>1. Coming(h, p, n)' => pc'[h] # "idle" /\ local'[h].on = p /\ n \in local'[h].todo
      BY DEF Coming, Attempts, XAttempt
    <2>2. QED
      BY <2>1 DEF Recorded
  <1>5. ASSUME NEW p \in Posts, NEW n \in Networks, <<p, n>> # <<r.on, r.net>>
        PROVE  OneAt(p, n)'
    <2>1. Coming(h, p, n)' => Coming(h, p, n)
      BY <1>4, <1>5 DEF Coming, Trying
    <2>2. ASSUME NEW g \in Handlers
          PROVE  /\ Trying(g, p, n)' => Trying(g, p, n) /\ (pc[g] = "published" => pc'[g] = "published")
                 /\ Coming(g, p, n)' => Coming(g, p, n)
      BY <1>0, <1>3, <2>1, ElsewhereSame
    <2>3. published'[p][n] = published[p][n] /\ (n \in Logged => logs'[p][n] = logs[p][n])
      BY <1>5 DEF Recorded
    <2>4. QED
      BY <2>2, <2>3, KeepOne DEF Attempting, OneAttempt
  <1>6. ASSUME NEW p \in Posts, NEW n \in Networks, p = r.on, n = r.net, <<p, n>> \notin doubtful'
        PROVE  OneAt(p, n)'
    <2>1. Trying(h, p, n) /\ <<p, n>> \notin doubtful /\ published'[p][n] = published[p][n]
      BY <1>6 DEF Trying
    <2>2. /\ published[p][n] <= 1
          /\ published[p][n] = 0 \/ pc[h] = "published"
          /\ \A g \in Handlers : ~Coming(g, p, n) /\ (Trying(g, p, n) => g = h)
      BY <2>1 DEF Attempting, OneAttempt, OneAt
    <2>3. \A g \in Handlers : ~Coming(g, p, n)' /\ ~Trying(g, p, n)'
      BY <1>0, <1>3, <1>4, <1>6, <2>2, ElsewhereSame
    <2>4. n \in Logged => logs'[p][n].status \in {"success", "failed"} /\ (logs'[p][n].status = "failed" => ~ok)
      BY <1>6 DEF Recorded
    <2>5. n \in Logged /\ logs'[p][n].status \in {"none", "failed"} => published'[p][n] = 0
      BY <2>1, <2>2, <2>4
    <2>6. QED
      BY <2>1, <2>2, <2>3, <2>5 DEF OneAt
  <1>7. ASSUME NEW p \in Posts, NEW n \in Networks, <<p, n>> \in doubtful'
        PROVE  OneAt(p, n)'
    BY <1>7 DEF OneAt
  <1>8. QED
    BY <1>2, <1>5, <1>6, <1>7 DEF Attempting, OneAttempt

\* Nobody works for a post that is not there yet.
LEMMA CreateAttempts ==
  ASSUME SocialTypes, Attempting, NEW h \in Handlers, NEW p \in Posts, post[p].status = "none",
         Elsewhere(h), pc'[h] = "next", local'[h].on = p, pc[h] = "idle",
         \A q \in Posts : post'[q].status = "none" => q # p /\ post[q].status = "none",
         logs' = logs, published' = published, doubtful' = doubtful
  PROVE  Attempting'
  <1>1. /\ \A n \in Networks : published[p][n] = 0
        /\ \A n \in Logged : logs[p][n].status = "none"
        /\ \A g \in Handlers : pc[g] \in Serves => local[g].on # p
    BY DEF Attempting, NotYet, Serves
  <1>2. NotYet'
    BY DEF Attempting, NotYet, Elsewhere
  <1>3. \A q \in Posts, n \in Networks : ~Trying(h, q, n)' /\ (q # p => ~Coming(h, q, n)')
    BY DEF Trying, Coming, Attempts, XAttempt
  <1>4. ASSUME NEW q \in Posts, NEW n \in Networks, q # p
        PROVE  OneAt(q, n)'
    <2>1. \A g \in Handlers : /\ Trying(g, q, n)' => Trying(g, q, n) /\ (pc[g] = "published" => pc'[g] = "published")
                              /\ Coming(g, q, n)' => Coming(g, q, n)
      BY <1>3, <1>4, ElsewhereSame
    <2>2. QED
      BY <2>1, KeepOne DEF Attempting, OneAttempt
  <1>5. ASSUME NEW n \in Networks
        PROVE  OneAt(p, n)'
    <2>1. \A g \in Handlers : ~Trying(g, p, n) /\ ~Coming(g, p, n)
      BY <1>1 DEF Trying, Coming, Serves
    <2>2. \A g \in Handlers : ~Trying(g, p, n)' /\ (Coming(g, p, n)' => g = h)
      BY <1>3, <2>1, ElsewhereSame
    <2>3. Logs(p, n, {"none"})' /\ published'[p][n] = 0
      BY <1>1 DEF Logs
    <2>4. QED
      BY <2>2, <2>3 DEF OneAt
  <1>6. QED
    BY <1>2, <1>4, <1>5 DEF Attempting, OneAttempt

\* A request starts to try network n for p: what createPost was to try, or a retry.
LEMMA TryAttempts ==
  ASSUME SocialTypes, Attempting, NEW h \in Handlers, NEW p \in Posts, NEW n \in Networks,
         Elsewhere(h), post' = post, published' = published, doubtful \subseteq doubtful',
         pc'[h] \in Attempts, local'[h].on = p, local'[h].net = n,
         n \in Logged => logs'[p][n].status = "pending",
         \A q \in Posts, m \in Logged : <<q, m>> # <<p, n>> => logs'[q][m] = logs[q][m],
         \A q \in Posts, m \in Networks : Coming(h, q, m)' => Coming(h, q, m),
         <<p, n>> \notin doubtful' =>
           \/ Coming(h, p, n)
           \/ n \in Logged /\ logs[p][n].status = "failed" /\ ~Coming(h, p, n)' /\ ~Trying(h, p, n),
         NotYet'
  PROVE  Attempting'
  <1>1. \A q \in Posts, m \in Networks : <<q, m>> # <<p, n>> => ~Trying(h, q, m)'
    BY DEF Trying
  <1>2. ASSUME NEW q \in Posts, NEW m \in Networks, <<q, m>> # <<p, n>>
        PROVE  OneAt(q, m)'
    <2>1. \A g \in Handlers : /\ Trying(g, q, m)' => Trying(g, q, m) /\ (pc[g] = "published" => pc'[g] = "published")
                              /\ Coming(g, q, m)' => Coming(g, q, m)
      BY <1>1, <1>2, ElsewhereSame
    <2>2. m \in Logged => logs'[q][m] = logs[q][m]
      BY <1>2
    <2>3. QED
      BY <2>1, <2>2, KeepOne DEF Attempting, OneAttempt
  <1>3. ASSUME <<p, n>> \notin doubtful'
        PROVE  OneAt(p, n)'
    <2>0. <<p, n>> \notin doubtful /\ OneAt(p, n)
      BY <1>3 DEF Attempting, OneAttempt
    <2>1. ~Coming(h, p, n)'
      BY DEF Coming, Trying
    <2>2. Logs(p, n, {"pending"})'
      BY DEF Logs
    <2>3. /\ published[p][n] = 0
          /\ \A g \in Handlers \ {h} : ~Trying(g, p, n) /\ ~Coming(g, p, n)
      <3>1. CASE Coming(h, p, n)
        BY <2>0, <3>1 DEF OneAt
      <3>2. CASE n \in Logged /\ logs[p][n].status = "failed"
        BY <2>0, <3>2 DEF OneAt, Logs
      <3>3. QED
        BY <1>3, <3>1, <3>2
    <2>4. \A g \in Handlers : ~Coming(g, p, n)' /\ (Trying(g, p, n)' => g = h)
      BY <2>1, <2>3, ElsewhereSame
    <2>5. published'[p][n] = 0 /\ (n \in Logged => logs'[p][n].status = "pending")
      BY <2>3
    <2>6. QED
      BY <2>2, <2>4, <2>5 DEF OneAt
  <1>4. <<p, n>> \in doubtful' => OneAt(p, n)'
    BY DEF OneAt
  <1>5. QED
    BY <1>2, <1>3, <1>4 DEF Attempting, OneAttempt

\* The network publishes and answers.
LEMMA PublishAttempts ==
  ASSUME SocialTypes, Attempting, NEW h \in Handlers, NEW p \in Posts, NEW n \in Networks,
         Elsewhere(h), SamePost(h), post' = post, logs' = logs, doubtful' = doubtful,
         pc[h] = "publish", pc'[h] = "published", Trying(h, p, n), local'[h] = local[h],
         published'[p][n] = published[p][n] + 1,
         \A q \in Posts, m \in Networks : <<q, m>> # <<p, n>> => published'[q][m] = published[q][m]
  PROVE  Attempting'
  <1>0. /\ \A q \in Posts, m \in Networks : Trying(h, q, m)' <=> Trying(h, q, m)
        /\ \A q \in Posts, m \in Networks : Coming(h, q, m)' <=> Coming(h, q, m)
    <2>1. \A q \in Posts, m \in Networks : Trying(h, q, m)' <=> Trying(h, q, m)
      BY DEF Trying, Attempts
    <2>2. QED
      BY <2>1 DEF Coming, Attempts
  <1>1. NotYet'
    <2>1. post[p].status # "none"
      BY DEF Attempting, NotYet, Trying
    <2>2. QED
      BY <2>1, NotYetKept DEF Attempting
  <1>2. ASSUME NEW q \in Posts, NEW m \in Networks, <<q, m>> # <<p, n>>
        PROVE  OneAt(q, m)'
    <2>1. ASSUME NEW g \in Handlers
          PROVE  /\ Trying(g, q, m)' => Trying(g, q, m) /\ (pc[g] = "published" => pc'[g] = "published")
                 /\ Coming(g, q, m)' => Coming(g, q, m)
      BY <1>0, ElsewhereSame
    <2>2. QED
      BY <1>2, <2>1, KeepOne DEF Attempting, OneAttempt
  <1>3. ASSUME <<p, n>> \notin doubtful'
        PROVE  OneAt(p, n)'
    <2>1. /\ published[p][n] = 0 /\ Logs(p, n, {"pending"})
          /\ \A g \in Handlers : ~Coming(g, p, n) /\ (Trying(g, p, n) => g = h)
      BY <1>3 DEF Attempting, OneAttempt, OneAt
    <2>2. \A g \in Handlers : ~Coming(g, p, n)' /\ (Trying(g, p, n)' => g = h)
      BY <1>0, <2>1, ElsewhereSame
    <2>3. published'[p][n] = 1 /\ Logs(p, n, {"pending"})'
      BY <2>1 DEF Logs
    <2>4. n \in Logged => logs'[p][n].status = "pending"
      BY <2>1 DEF Logs
    <2>5. QED
      BY <2>2, <2>3, <2>4 DEF OneAt
  <1>4. <<p, n>> \in doubtful' => OneAt(p, n)'
    BY DEF OneAt
  <1>5. QED
    BY <1>1, <1>2, <1>3, <1>4 DEF Attempting, OneAttempt

-----------------------------------------------------------------------------
(* X's tokens.                                                             *)

LEMMA FrameTokens ==
  ASSUME SocialTypes, Tokens, NEW h \in Handlers, Elsewhere(h),
         xAccepts' = xAccepts, xToken'.refresh = xToken.refresh,
         begun' \in {begun, begun + 1},
         pc'[h] = "refresh" => local'[h].token = xToken.refresh, pc'[h] # "save",
         MayRefresh(h)' => MayRefresh(h) \/ begun' = begun + 1,
         stranded => stranded', pc[h] = "save" /\ local[h].on # None => stranded'
  PROVE  Tokens'
  <1>0. begun \in Nat
    BY RequestsAssumption DEF SocialTypes, SocialRequests
  <1>1. \A t : Known(t)' => Known(t)
    BY DEF Known, Elsewhere
  <1>2. ASSUME NEW g \in Handlers, NEW b \in 0..MaxRequests, Known(<<g, b>>)'
        PROVE  b <= begun' /\ (MayRefresh(g)' => b < begun')
    <2>1. Known(<<g, b>>)
      BY <1>1, <1>2
    <2>2. b <= begun /\ (MayRefresh(g) => b < begun)
      BY <2>1 DEF Tokens, TokensNamed
    <2>3. g # h => (MayRefresh(g)' <=> MayRefresh(g))
      BY DEF MayRefresh, Elsewhere
    <2>4. QED
      BY <1>0, <2>2, <2>3
  <1>3. OnTheWay'
    <2> SUFFICES ASSUME NEW g \in Handlers, pc'[g] = "save"
                 PROVE  /\ local'[g].token \in xAccepts' /\ local'[g].token # xToken'.refresh
                        /\ \A f \in Handlers \ {g} : pc'[f] \in {"refresh", "save"} => local'[f].token # local'[g].token
      BY DEF OnTheWay
    <2>1. g # h /\ pc[g] = "save" /\ local'[g] = local[g]
      BY DEF Elsewhere
    <2>2. /\ local[g].token \in xAccepts /\ local[g].token # xToken.refresh
          /\ \A f \in Handlers \ {g} : pc[f] \in {"refresh", "save"} => local[f].token # local[g].token
      BY <2>1 DEF Tokens, OnTheWay
    <2>3. QED
      BY <2>1, <2>2 DEF Elsewhere
  <1>4. XTokenWorks'
    BY DEF Tokens, XTokenWorks, Elsewhere
  <1>5. QED
    BY <1>2, <1>3, <1>4 DEF Tokens, TokensNamed

LEMMA PairsDiffer ==
  ASSUME NEW a, NEW b, NEW c, NEW d, <<a, b>> = <<c, d>>
  PROVE  a = c /\ b = d
  OBVIOUS

\* A token nobody has had goes to X's list and on its way to the store, in exchange
\* for an old one or not.
LEMMA NewTokens ==
  ASSUME SocialTypes, Tokens, NEW h \in Handlers, NEW b \in 0..MaxRequests, Elsewhere(h),
         b = begun', begun' \in {begun, begun + 1}, begun' = begun => MayRefresh(h),
         pc'[h] = "save", local'[h].token = <<h, b>>,
         xToken' = xToken, stranded' = stranded, pc[h] # "save",
         \/ xAccepts' = xAccepts \cup {<<h, b>>}
         \/ /\ pc[h] = "refresh" /\ local'[h].on # None
            /\ xAccepts' = (xAccepts \ {local[h].token}) \cup {<<h, b>>}
  PROVE  Tokens'
  <1>0. begun \in Nat
    BY RequestsAssumption DEF SocialTypes, SocialRequests
  <1>1. \A g \in Handlers \ {h} : pc'[g] = pc[g] /\ local'[g] = local[g]
    BY DEF Elsewhere
  <1>2. ~Known(<<h, b>>)
    BY <1>0 DEF Tokens, TokensNamed
  <1>3. \A t : Known(t)' => Known(t) \/ t = <<h, b>>
    BY <1>1 DEF Known
  <1>4. ~MayRefresh(h)'
    BY DEF MayRefresh
  <1>5. TokensNamed'
    <2> SUFFICES ASSUME NEW g \in Handlers, NEW c \in 0..MaxRequests, Known(<<g, c>>)'
                 PROVE  c <= begun' /\ (MayRefresh(g)' => c < begun')
      BY DEF TokensNamed
    <2>1. CASE Known(<<g, c>>)
      <3>1. c <= begun /\ (MayRefresh(g) => c < begun)
        BY <2>1 DEF Tokens, TokensNamed
      <3>2. g # h => (MayRefresh(g)' <=> MayRefresh(g))
        BY <1>1 DEF MayRefresh
      <3>3. QED
        BY <1>0, <1>4, <3>1, <3>2
    <2>2. CASE <<g, c>> = <<h, b>>
      BY <1>0, <1>4, <2>2, PairsDiffer
    <2>3. QED
      BY <1>3, <2>1, <2>2
  <1>6. OnTheWay'
    <2>1. ASSUME NEW g \in Handlers \ {h}, pc'[g] = "save"
          PROVE  /\ local'[g].token \in xAccepts' /\ local'[g].token # xToken'.refresh
                 /\ \A f \in Handlers \ {g} : pc'[f] \in {"refresh", "save"} => local'[f].token # local'[g].token
      <3>1. pc[g] = "save" /\ local'[g] = local[g]
        BY <1>1, <2>1
      <3>2. /\ local[g].token \in xAccepts /\ local[g].token # xToken.refresh
            /\ \A f \in Handlers \ {g} : pc[f] \in {"refresh", "save"} => local[f].token # local[g].token
        BY <3>1 DEF Tokens, OnTheWay
      <3>3. Known(local[g].token)
        BY <3>2 DEF Known
      <3>4. local[g].token # <<h, b>>
        BY <1>2, <3>3
      <3>5. local[g].token \in xAccepts'
        BY <3>2
      <3>6. QED
        BY <1>1, <3>1, <3>2, <3>4, <3>5
    <2>2. /\ local'[h].token \in xAccepts' /\ local'[h].token # xToken'.refresh
          /\ \A f \in Handlers \ {h} : pc'[f] \in {"refresh", "save"} => local'[f].token # local'[h].token
      <3>1. <<h, b>> \in xAccepts' /\ <<h, b>> # xToken.refresh
        BY <1>2 DEF Known
      <3>2. \A f \in Handlers : pc[f] \in {"refresh", "save"} => local[f].token # <<h, b>>
        BY <1>2 DEF Known
      <3>3. QED
        BY <1>1, <3>1, <3>2
    <2>3. QED
      BY <2>1, <2>2 DEF OnTheWay
  <1>7. XTokenWorks'
    <2>1. CASE local'[h].on # None
      BY <2>1 DEF XTokenWorks
    <2>2. CASE xAccepts' = xAccepts \cup {<<h, b>>}
      <3>1. xToken.refresh \in xAccepts \cup {None} => xToken'.refresh \in xAccepts' \cup {None}
        BY <2>2
      <3>2. ASSUME NEW g \in Handlers, pc[g] = "save", local[g].on # None
            PROVE  pc'[g] = "save" /\ local'[g].on # None
        BY <1>1, <3>2
      <3>3. QED
        BY <3>1, <3>2 DEF Tokens, XTokenWorks
    <2>3. QED
      BY <2>1, <2>2
  <1>8. QED
    BY <1>5, <1>6, <1>7 DEF Tokens

\* The token is stored.
LEMMA StoreToken ==
  ASSUME SocialTypes, Tokens, NEW h \in Handlers, Elsewhere(h), pc[h] = "save",
         pc'[h] \notin {"client", "next", "refresh", "save"}, begun' = begun, xAccepts' = xAccepts,
         xToken'.refresh = local[h].token
  PROVE  Tokens'
  <1>1. \A g \in Handlers \ {h} : pc'[g] = pc[g] /\ local'[g] = local[g]
    BY DEF Elsewhere
  <1>2. \A t : Known(t)' => Known(t)
    BY <1>1 DEF Known
  <1>3. TokensNamed'
    <2> SUFFICES ASSUME NEW g \in Handlers, NEW c \in 0..MaxRequests, Known(<<g, c>>)'
                 PROVE  c <= begun' /\ (MayRefresh(g)' => c < begun')
      BY DEF TokensNamed
    <2>1. c <= begun /\ (MayRefresh(g) => c < begun)
      BY <1>2 DEF Tokens, TokensNamed
    <2>2. MayRefresh(g)' => MayRefresh(g)
      BY <1>1 DEF MayRefresh
    <2>3. QED
      BY <2>1, <2>2
  <1>4. local[h].token \in xAccepts
    BY DEF Tokens, OnTheWay
  <1>5. OnTheWay'
    <2> SUFFICES ASSUME NEW g \in Handlers, pc'[g] = "save"
                 PROVE  /\ local'[g].token \in xAccepts' /\ local'[g].token # xToken'.refresh
                        /\ \A f \in Handlers \ {g} : pc'[f] \in {"refresh", "save"} => local'[f].token # local'[g].token
      BY DEF OnTheWay
    <2>1. g # h /\ pc[g] = "save" /\ local'[g] = local[g]
      BY <1>1
    <2>2. /\ local[g].token \in xAccepts
          /\ \A f \in Handlers \ {g} : pc[f] \in {"refresh", "save"} => local[f].token # local[g].token
      BY <2>1 DEF Tokens, OnTheWay
    <2>3. QED
      BY <1>1, <2>1, <2>2
  <1>6. XTokenWorks'
    BY <1>4 DEF XTokenWorks
  <1>7. QED
    BY <1>3, <1>5, <1>6 DEF Tokens

-----------------------------------------------------------------------------
(* The actions.                                                            *)

LEMMA CreatePostStep ==
  ASSUME SocialInv, NEW h \in Handlers, CreatePost(h)
  PROVE  SocialInv'
  <1>0. SocialTypes /\ Attempting /\ Tokens /\ SocialRows /\ SocialRequests /\ begun \in Nat
    BY RequestsAssumption DEF SocialInv, SocialTypes, SocialRequests
  <1>1. PICK p \in Posts, audience \in Audiences, now \in BOOLEAN :
          /\ post[p].status = "none"
          /\ post' = [post EXCEPT ![p] = [status |-> "scheduled", audience |-> audience]]
          /\ IF now THEN Begin(h, "next", [on |-> p, todo |-> audience, errors |-> FALSE, retry |-> FALSE])
             ELSE UNCHANGED handlerVars
    BY DEF CreatePost
  <1>2. UNCHANGED <<logs, published, connected, xToken, xAccepts, doubtful, stranded>>
    BY DEF CreatePost
  <1>3. audience \subseteq Networks /\ p # None
    BY SocialsAssumption
  <1>4. [status |-> "scheduled", audience |-> audience] \in PostRow
    BY <1>3 DEF PostRow, PostStatus
  <1>5. SocialRows'
    BY <1>0, <1>1, <1>2, <1>4 DEF SocialRows
  <1>6. \A q \in Posts : post'[q].status = "none" => q # p /\ post[q].status = "none"
    BY <1>0, <1>1 DEF SocialRows
  <1>7. CASE now
    <2>1. PICK c : c = [on |-> p, todo |-> audience, errors |-> FALSE, retry |-> FALSE]
      OBVIOUS
    <2>2. Carries("next", c)
      BY <1>3, <2>1 DEF Carries, ServesPost, XAttempt, Attempts
    <2>3. /\ SocialRequests' /\ Elsewhere(h)
          /\ pc[h] = "idle" /\ pc'[h] = "next" /\ local'[h] = c /\ begun' = begun + 1
      BY <1>0, <1>1, <1>7, <2>1, <2>2, SocialBeginStep
    <2>4. Attempting'
      BY <1>0, <1>1, <1>2, <1>6, <2>1, <2>3, CreateAttempts
    <2>5. Tokens'
      BY <1>0, <1>2, <2>3, FrameTokens
    <2>6. QED
      BY <1>5, <2>3, <2>4, <2>5 DEF SocialInv, SocialTypes
  <1>8. CASE ~now
    <2>1. UNCHANGED <<pc, local, begun>>
      BY <1>1, <1>8 DEF handlerVars
    <2>2. SocialRequests'
      BY <1>0, <2>1 DEF SocialRequests
    <2>3. Tokens'
      BY <1>0, <1>2, <2>1 DEF Tokens, TokensNamed, Known, MayRefresh, OnTheWay, XTokenWorks
    <2>4. NotYet'
      BY <1>0, <1>2, <1>6, <2>1 DEF Attempting, NotYet
    <2>5. OneAttempt'
      BY <1>0, <1>2, <2>1 DEF Attempting, OneAttempt, OneAt, Logs, Trying, Coming
    <2>6. QED
      BY <1>5, <2>2, <2>3, <2>4, <2>5 DEF SocialInv, SocialTypes, Attempting
  <1>9. QED
    BY <1>7, <1>8

LEMMA NextNetworkStep ==
  ASSUME SocialInv, NEW h \in Handlers, NextNetwork(h)
  PROVE  SocialInv'
  <1> DEFINE r == local[h]  n == FirstOf(r.todo)  p == r.on
  <1>0. SocialTypes /\ Attempting /\ Tokens /\ SocialRows /\ SocialRequests /\ begun \in Nat /\ NotYet
    BY RequestsAssumption DEF SocialInv, SocialTypes, SocialRequests, Attempting
  <1>1. /\ pc[h] = "next" /\ r.todo # {}
        /\ n \in Logged => logs' = [logs EXCEPT ![p][n] = NewLog]
        /\ n \notin Logged => logs' = logs
        /\ Carry(h, FirstCall(n), [net |-> n])
        /\ UNCHANGED <<post, published, connected, xToken, xAccepts, doubtful, stranded>>
    BY DEF NextNetwork
  <1>2. /\ ServesPost("next", r) /\ ~r.retry
    BY <1>0, <1>1 DEF SocialRequests, Carries, ServesPost
  <1>3. /\ {"on", "retry", "todo", "errors"} \subseteq DOMAIN r
        /\ r.todo \in SUBSET Networks /\ p \in Posts /\ r.errors \in BOOLEAN /\ p # None
    BY <1>2, SocialsAssumption DEF ServesPost
  <1>4. n \in r.todo /\ (n # "x" => "x" \notin r.todo) /\ n \in Networks
    BY <1>1, <1>3, FirstIsLeft
  <1>5. PICK w : w = With([net |-> n], r)
    OBVIOUS
  <1>6. /\ {"on", "retry", "todo", "errors", "net"} \subseteq DOMAIN w
        /\ w.net = n /\ w.on = p /\ w.retry = r.retry /\ w.todo = r.todo /\ w.errors = r.errors
    BY <1>3, <1>5 DEF With
  <1>7. PICK c : c = FirstCall(n)
    OBVIOUS
  <1>8. c \in {"client", "publish", "upload"} /\ (c = "client" => n = "x")
    BY <1>4, <1>7 DEF FirstCall, Networks
  <1>9. Carries(c, w)
    BY <1>2, <1>3, <1>4, <1>6, <1>8 DEF Carries, ServesPost, Attempts, XAttempt
  <1>10. /\ SocialRequests' /\ Elsewhere(h)
         /\ pc'[h] = c /\ local'[h] = w /\ begun' = begun
    BY <1>0, <1>1, <1>5, <1>7, <1>8, <1>9, SocialCarryStep DEF Attempts, XAttempt
  <1>11. NewLog \in LogEntry /\ NewLog.status = "pending"
    BY DEF NewLog, LogEntry, LogStatus
  <1>12. /\ logs' \in [Posts -> [Logged -> LogEntry]]
         /\ n \in Logged => logs'[p][n].status = "pending"
         /\ \A q \in Posts, m \in Logged : <<q, m>> # <<p, n>> => logs'[q][m] = logs[q][m]
    <2>1. CASE n \in Logged
      BY <1>0, <1>1, <1>3, <1>11, <2>1, LogStep
    <2>2. CASE n \notin Logged
      BY <1>0, <1>1, <2>2 DEF SocialRows
    <2>3. QED
      BY <2>1, <2>2
  <1>13. SocialRows'
    BY <1>0, <1>1, <1>12 DEF SocialRows
  <1>14. \A q \in Posts, m \in Networks : Coming(h, q, m)' => Coming(h, q, m)
    BY <1>1, <1>2, <1>6, <1>10 DEF Coming, Trying, Attempts, XAttempt
  <1>15. Coming(h, p, n)
    BY <1>1, <1>2, <1>4 DEF Coming, Trying, Attempts, XAttempt
  <1>16. SamePost(h)
    BY <1>1, <1>6, <1>10 DEF SamePost, Serves
  <1>17. post[p].status # "none"
    BY <1>0, <1>1, <1>3 DEF NotYet
  <1>18. NotYet'
    BY <1>0, <1>1, <1>10, <1>12, <1>16, <1>17, NotYetKept
  <1>19. Attempting'
    <2>1. pc'[h] \in Attempts /\ local'[h].on = p /\ local'[h].net = n
      BY <1>6, <1>8, <1>10 DEF Attempts, XAttempt
    <2>2. doubtful \subseteq doubtful' /\ post' = post /\ published' = published
      BY <1>1
    <2> HIDE DEF n, p
    <2>3. QED
      BY <1>0, <1>3, <1>4, <1>10, <1>12, <1>14, <1>15, <1>16, <1>18, <2>1, <2>2, TryAttempts
  <1>20. MayRefresh(h)' => MayRefresh(h)
    BY <1>1, <1>4, <1>8, <1>10 DEF MayRefresh
  <1>21. Tokens'
    BY <1>0, <1>1, <1>8, <1>10, <1>20, FrameTokens
  <1>22. QED
    BY <1>10, <1>13, <1>19, <1>21 DEF SocialInv, SocialTypes

\* An attempt is over; what is seen of it is what was, or in doubt.
LEMMA RecordInv ==
  ASSUME SocialInv, NEW h \in Handlers, NEW ok \in BOOLEAN, Record(h, ok),
         pc[h] \in Attempts \ {"save"}, ~ok => pc[h] # "published",
         UNCHANGED <<post, xToken, xAccepts, stranded>>,
         published' \in [Posts -> [Networks -> Nat]], doubtful \subseteq doubtful',
         \A p \in Posts, n \in Networks :
           published'[p][n] = published[p][n]
           \/ (p = local[h].on /\ n = local[h].net /\ <<p, n>> \in doubtful')
  PROVE  SocialInv'
  <1>0. SocialTypes /\ Attempting /\ Tokens /\ SocialRows
    BY DEF SocialInv, SocialTypes
  <1>1. ServesPost(pc[h], local[h])
    BY <1>0, AtNetwork
  <1>2. Recorded(h, ok)
    BY <1>0, <1>1, RecordStep
  <1>3. SocialRows' /\ SocialRequests' /\ Elsewhere(h) /\ begun' = begun
    BY <1>0, <1>2 DEF SocialRows, Recorded
  <1>4. Attempting'
    BY <1>0, <1>1, <1>2, RecordAttempts
  <1>5. ~MayRefresh(h)' /\ pc'[h] \in {"idle", "next"}
    BY <1>1, <1>2 DEF MayRefresh, ServesPost, Recorded, Attempts
  <1>6. Tokens'
    BY <1>0, <1>3, <1>5, FrameTokens
  <1>7. QED
    BY <1>3, <1>4, <1>6 DEF SocialInv, SocialTypes

\* An attempt goes on.
LEMMA GotoInv ==
  ASSUME SocialInv, NEW h \in Handlers, NEW await \in {"upload", "publish"}, Goto(h, await),
         pc[h] \in Attempts \ {"published"}, ServesPost(pc[h], local[h]),
         UNCHANGED <<post, logs, published, doubtful>>, DOMAIN xToken' = {"refresh", "fresh"}
  PROVE  /\ SocialTypes' /\ Attempting' /\ Elsewhere(h)
         /\ pc'[h] = await /\ local'[h] = local[h] /\ begun' = begun
  <1>0. SocialTypes /\ Attempting /\ SocialRows /\ SocialRequests
    BY DEF SocialInv, SocialTypes
  <1>1. Carries(await, local[h])
    BY DEF Carries, ServesPost, Attempts, XAttempt
  <1>2. /\ SocialRequests' /\ Elsewhere(h)
        /\ pc'[h] = await /\ local'[h] = local[h] /\ begun' = begun
    BY <1>0, <1>1, SocialGotoStep DEF Attempts
  <1>3. \A p \in Posts, n \in Networks : Trying(h, p, n)' => Trying(h, p, n) /\ pc[h] # "published"
    BY <1>2 DEF Trying
  <1>4. \A p \in Posts, n \in Networks : Coming(h, p, n)' => Coming(h, p, n)
    BY <1>2 DEF Coming, Trying, Attempts
  <1>5. SamePost(h)
    BY <1>2 DEF SamePost, Serves
  <1>6. Attempting'
    BY <1>0, <1>2, <1>3, <1>4, <1>5, FrameAttempts
  <1>7. QED
    BY <1>0, <1>2, <1>6 DEF SocialTypes, SocialRows

LEMMA GoOnInv ==
  ASSUME SocialInv, NEW h \in Handlers, NEW await \in {"upload", "publish"}, Goto(h, await),
         pc[h] \in Attempts \ {"published", "save"}, UNCHANGED socialVars
  PROVE  SocialInv'
  <1>0. /\ SocialTypes /\ Tokens /\ SocialRows
        /\ UNCHANGED <<post, logs, published, connected, xToken, xAccepts, doubtful, stranded>>
    BY DEF SocialInv, SocialTypes, socialVars
  <1>1. ServesPost(pc[h], local[h]) /\ DOMAIN xToken' = {"refresh", "fresh"}
    BY <1>0, AtNetwork DEF SocialRows
  <1>2. /\ SocialTypes' /\ Attempting' /\ Elsewhere(h)
        /\ pc'[h] = await /\ begun' = begun
    BY <1>0, <1>1, GotoInv
  <1>3. Tokens'
    BY <1>0, <1>2, FrameTokens DEF MayRefresh
  <1>4. QED
    BY <1>2, <1>3 DEF SocialInv

\* A request ends, in order or not.
LEMMA AnswerInv ==
  ASSUME SocialInv, NEW h \in Handlers, Answer(h), UNCHANGED <<logs, published, doubtful>>,
         \A p \in Posts : post'[p].status = "none" => post[p].status = "none",
         post' \in [Posts -> PostRow], DOMAIN xToken' = {"refresh", "fresh"}
  PROVE  /\ SocialTypes' /\ Attempting' /\ Elsewhere(h) /\ pc'[h] = "idle" /\ begun' = begun
         /\ /\ xAccepts' = xAccepts /\ xToken' = xToken /\ (stranded => stranded')
            /\ pc[h] = "save" /\ local[h].on # None => stranded'
            => Tokens'
  <1>0. SocialTypes /\ Attempting /\ Tokens /\ SocialRows /\ SocialRequests
    BY DEF SocialInv, SocialTypes
  <1>1. SocialRequests' /\ Elsewhere(h) /\ pc'[h] = "idle" /\ begun' = begun
    BY <1>0, SocialAnswerStep
  <1>2. \A p \in Posts, n \in Networks : ~Trying(h, p, n)' /\ ~Coming(h, p, n)'
    BY <1>1 DEF Trying, Coming, Attempts, XAttempt
  <1>3. SamePost(h)
    BY <1>1 DEF SamePost, Serves, Attempts, XAttempt
  <1>4. Attempting'
    BY <1>0, <1>1, <1>2, <1>3, FrameAttempts
  <1>5. SocialRows'
    BY <1>0 DEF SocialRows
  <1>6. ASSUME xAccepts' = xAccepts, xToken' = xToken, stranded => stranded',
               pc[h] = "save" /\ local[h].on # None => stranded'
        PROVE  Tokens'
    BY <1>0, <1>1, <1>6, FrameTokens DEF MayRefresh
  <1>7. QED
    BY <1>1, <1>4, <1>5, <1>6 DEF SocialTypes

LEMMA UpdateStatusStep ==
  ASSUME SocialInv, NEW h \in Handlers, UpdateStatus(h)
  PROVE  SocialInv'
  <1>0. SocialTypes /\ SocialRows
    BY DEF SocialInv, SocialTypes
  <1>1. PICK s \in {"deleted", "failed", "sent"} : post' = [post EXCEPT ![local[h].on].status = s]
    BY DEF UpdateStatus
  <1>2. Answer(h) /\ UNCHANGED <<logs, published, connected, xToken, xAccepts, doubtful, stranded>> /\ pc[h] = "next"
    BY DEF UpdateStatus
  <1>3. post \in [Posts -> PostRow]
    BY <1>0 DEF SocialRows
  <1>4. post' \in [Posts -> PostRow]
    BY <1>1, <1>3 DEF PostRow, PostStatus
  <1>5. \A p \in Posts : post'[p].status = "none" => post[p].status = "none"
    BY <1>1, <1>3 DEF PostRow, PostStatus
  <1>6. QED
    BY <1>0, <1>2, <1>4, <1>5, AnswerInv DEF SocialInv, SocialRows

LEMMA SocialsFailStep ==
  ASSUME SocialInv, NEW h \in Handlers, SocialsFail(h)
  PROVE  SocialInv'
  <1>1. Answer(h) /\ UNCHANGED <<post, logs, published, connected, xToken, xAccepts, doubtful>>
        /\ (stranded => stranded') /\ (pc[h] = "save" /\ local[h].on # None => stranded')
    BY DEF SocialsFail
  <1>2. post \in [Posts -> PostRow] /\ DOMAIN xToken = {"refresh", "fresh"}
    BY DEF SocialInv, SocialTypes, SocialRows
  <1>3. QED
    BY <1>1, <1>2, AnswerInv DEF SocialInv

\* Nothing moves but the rows that no attempt looks at.
LEMMA StillInv ==
  ASSUME SocialInv, UNCHANGED handlerVars, UNCHANGED <<logs, published, xAccepts, doubtful, stranded>>,
         \A p \in Posts : post'[p].status = "none" => post[p].status = "none",
         post' \in [Posts -> PostRow], DOMAIN xToken' = {"refresh", "fresh"},
         xToken'.refresh = xToken.refresh
  PROVE  SocialInv'
  <1>0. /\ SocialTypes /\ Attempting /\ Tokens /\ SocialRows /\ SocialRequests
        /\ pc' = pc /\ local' = local /\ begun' = begun
    BY DEF SocialInv, SocialTypes, handlerVars
  <1>1. SocialTypes'
    BY <1>0 DEF SocialTypes, SocialRows, SocialRequests
  <1>2. NotYet'
    BY <1>0 DEF Attempting, NotYet
  <1>3. OneAttempt'
    BY <1>0 DEF Attempting, OneAttempt, OneAt, Logs, Trying, Coming
  <1>4. TokensNamed' /\ OnTheWay'
    BY <1>0 DEF Tokens, TokensNamed, Known, MayRefresh, OnTheWay
  <1>5. XTokenWorks'
    BY <1>0 DEF Tokens, XTokenWorks
  <1>6. QED
    BY <1>1, <1>2, <1>3, <1>4, <1>5 DEF SocialInv, Attempting, Tokens

LEMMA DeletePostStep ==
  ASSUME SocialInv, NEW p \in Posts, DeletePost(p)
  PROVE  SocialInv'
  <1>1. /\ post \in [Posts -> PostRow] /\ DOMAIN xToken = {"refresh", "fresh"}
        /\ post' = [post EXCEPT ![p].status = "deleted"]
        /\ UNCHANGED <<logs, published, connected, xToken, xAccepts, doubtful, stranded, handlerVars>>
    BY DEF SocialInv, SocialTypes, SocialRows, DeletePost
  <1>2. post' \in [Posts -> PostRow]
    BY <1>1 DEF PostRow, PostStatus
  <1>3. \A q \in Posts : post'[q].status = "none" => post[q].status = "none"
    BY <1>1 DEF PostRow, PostStatus
  <1>4. QED
    BY <1>1, <1>2, <1>3, StillInv

LEMMA XExpireStep ==
  ASSUME SocialInv, XExpire
  PROVE  SocialInv'
  <1>1. /\ post \in [Posts -> PostRow] /\ DOMAIN xToken = {"refresh", "fresh"}
        /\ xToken' = [xToken EXCEPT !.fresh = FALSE]
        /\ UNCHANGED <<post, logs, published, connected, xAccepts, doubtful, stranded, handlerVars>>
    BY DEF SocialInv, SocialTypes, SocialRows, XExpire
  <1>2. DOMAIN xToken' = {"refresh", "fresh"} /\ xToken'.refresh = xToken.refresh
    BY <1>1
  <1>3. QED
    BY <1>1, <1>2, StillInv

LEMMA RetryStep ==
  ASSUME SocialInv, NEW h \in Handlers, NEW n \in Logged, Retry(h, n)
  PROVE  SocialInv'
  <1>0. SocialTypes /\ Attempting /\ Tokens /\ SocialRows /\ SocialRequests /\ begun \in Nat /\ NotYet
    BY RequestsAssumption DEF SocialInv, SocialTypes, SocialRequests, Attempting
  <1>1. PICK p \in Posts :
          /\ logs[p][n].status # "none"
          /\ logs' = [logs EXCEPT ![p][n] = [status |-> "pending", attempts |-> @.attempts + 1]]
          /\ doubtful' = IF logs[p][n].status = "failed" THEN doubtful ELSE doubtful \cup {<<p, n>>}
          /\ Begin(h, FirstCall(n), [on |-> p, net |-> n, retry |-> TRUE])
    BY DEF Retry
  <1>2. UNCHANGED <<post, published, connected, xToken, xAccepts, stranded>>
    BY DEF Retry
  <1>3. n \in Networks /\ p # None
    BY SocialsAssumption DEF Logged, Networks
  <1>4. PICK c : c = FirstCall(n)
    OBVIOUS
  <1>5. c \in {"client", "publish", "upload"} /\ (c = "client" => n = "x")
    BY <1>4 DEF FirstCall, Logged
  <1>6. PICK w : w = [on |-> p, net |-> n, retry |-> TRUE]
    OBVIOUS
  <1>7. Carries(c, w)
    BY <1>3, <1>5, <1>6 DEF Carries, ServesPost, Attempts, XAttempt
  <1>8. /\ SocialRequests' /\ Elsewhere(h)
        /\ pc[h] = "idle" /\ pc'[h] = c /\ local'[h] = w /\ begun' = begun + 1
    BY <1>0, <1>1, <1>4, <1>5, <1>6, <1>7, SocialBeginStep DEF Attempts, XAttempt
  <1>9. PICK e : e = [status |-> "pending", attempts |-> logs[p][n].attempts + 1]
    OBVIOUS
  <1>10. e \in LogEntry /\ e.status = "pending"
    <2>1. logs[p][n] \in LogEntry
      BY <1>0 DEF SocialRows
    <2>2. logs[p][n].attempts \in Nat
      BY <2>1 DEF LogEntry
    <2>3. QED
      BY <1>9, <2>2 DEF LogEntry, LogStatus
  <1>11. logs' = [logs EXCEPT ![p][n] = e]
    <2>1. logs \in [Posts -> [Logged -> LogEntry]]
      BY <1>0 DEF SocialRows
    <2>2. QED
      BY <1>1, <1>9, <2>1
  <1>12. /\ logs' \in [Posts -> [Logged -> LogEntry]]
         /\ logs'[p][n].status = "pending"
         /\ \A q \in Posts, m \in Logged : <<q, m>> # <<p, n>> => logs'[q][m] = logs[q][m]
    BY <1>0, <1>10, <1>11, LogStep, ZenonT(60)
  <1>13. SocialRows'
    BY <1>0, <1>2, <1>12 DEF SocialRows
  <1>14. post[p].status # "none"
    BY <1>0, <1>1 DEF NotYet
  <1>15. NotYet'
    BY <1>0, <1>2, <1>6, <1>8, <1>12, <1>14 DEF NotYet, Elsewhere
  <1>16. \A q \in Posts, m \in Networks : ~Coming(h, q, m)' /\ ~Trying(h, q, m)
    BY <1>6, <1>8 DEF Coming, Trying, Attempts, XAttempt
  <1>17. doubtful \subseteq doubtful' /\ (<<p, n>> \notin doubtful' => logs[p][n].status = "failed")
    BY <1>1
  <1>18. pc'[h] \in Attempts /\ local'[h].on = p /\ local'[h].net = n
    BY <1>5, <1>6, <1>8 DEF Attempts, XAttempt
  <1>19. Attempting'
    BY <1>0, <1>2, <1>3, <1>8, <1>12, <1>15, <1>16, <1>17, <1>18, TryAttempts
  <1>20. Tokens'
    BY <1>0, <1>2, <1>5, <1>8, FrameTokens
  <1>21. QED
    BY <1>8, <1>13, <1>19, <1>20 DEF SocialInv, SocialTypes

LEMMA XClientStep ==
  ASSUME SocialInv, NEW h \in Handlers, XClient(h)
  PROVE  SocialInv'
  <1>0. /\ SocialTypes /\ Attempting /\ Tokens /\ SocialRows /\ SocialRequests /\ begun \in Nat
        /\ published \in [Posts -> [Networks -> Nat]] /\ pc[h] \in Attempts \ {"save", "published"}
        /\ ServesPost(pc[h], local[h]) /\ pc[h] = "client"
        /\ UNCHANGED <<post, published, connected, xToken, xAccepts, doubtful, stranded>>
    BY AtNetwork DEF SocialInv, SocialTypes, SocialRequests, SocialRows, XClient, Attempts, XAttempt
  <1>1. CASE Record(h, FALSE)
    BY <1>0, <1>1, RecordInv
  <1>2. CASE Goto(h, "upload") /\ UNCHANGED logs
    BY <1>0, <1>2, GoOnInv DEF socialVars
  <1>3. CASE Carry(h, "refresh", [token |-> xToken.refresh]) /\ UNCHANGED logs
    <2> DEFINE r == local[h]
    <2>1. /\ {"on", "retry", "net"} \subseteq DOMAIN r /\ r.net = "x" /\ r.on \in Posts
          /\ (~r.retry => {"todo", "errors"} \subseteq DOMAIN r)
      BY <1>0 DEF ServesPost, Attempts, XAttempt
    <2>2. PICK w : w = With([token |-> xToken.refresh], r)
      OBVIOUS
    <2>3. /\ {"on", "retry", "net", "token"} \subseteq DOMAIN w
          /\ w.token = xToken.refresh /\ w.net = r.net /\ w.on = r.on /\ w.retry = r.retry
      BY <2>1, <2>2 DEF With
    <2>4. ~r.retry => w.todo = r.todo /\ w.errors = r.errors /\ {"todo", "errors"} \subseteq DOMAIN w
      BY <2>1, <2>2 DEF With
    <2>5. Carries("refresh", w)
      BY <1>0, <2>1, <2>3, <2>4 DEF Carries, ServesPost, Attempts, XAttempt
    <2>6. /\ SocialRequests' /\ Elsewhere(h)
          /\ pc'[h] = "refresh" /\ local'[h] = w /\ begun' = begun
      BY <1>0, <1>3, <2>2, <2>5, SocialCarryStep DEF Attempts, XAttempt
    <2>7. SocialTypes'
      BY <1>0, <1>3, <2>6 DEF SocialTypes, SocialRows
    <2>8. \A p \in Posts, n \in Networks : Trying(h, p, n)' => Trying(h, p, n)
      BY <1>0, <2>3, <2>6 DEF Trying
    <2>9. \A p \in Posts, n \in Networks : Coming(h, p, n)' => Coming(h, p, n)
      BY <1>0, <2>3, <2>4, <2>6 DEF Coming, Trying, Attempts, XAttempt
    <2>10. SamePost(h)
      BY <1>0, <2>3, <2>6 DEF SamePost, Serves
    <2>11. Attempting'
      BY <1>0, <1>3, <2>6, <2>8, <2>9, <2>10, FrameAttempts
    <2>12. Tokens'
      BY <1>0, <2>3, <2>6, FrameTokens DEF MayRefresh
    <2>13. QED
      BY <2>7, <2>11, <2>12 DEF SocialInv
  <1>4. QED
    BY <1>1, <1>2, <1>3 DEF XClient

LEMMA XRefreshStep ==
  ASSUME SocialInv, NEW h \in Handlers, XRefresh(h)
  PROVE  SocialInv'
  <1>0. /\ SocialTypes /\ Attempting /\ Tokens /\ SocialRows /\ SocialRequests /\ begun \in Nat
        /\ published \in [Posts -> [Networks -> Nat]] /\ pc[h] \in Attempts \ {"save", "published"}
        /\ ServesPost(pc[h], local[h]) /\ pc[h] = "refresh"
        /\ UNCHANGED <<post, published, connected, xToken, doubtful, stranded>>
    BY AtNetwork DEF SocialInv, SocialTypes, SocialRequests, SocialRows, XRefresh, Attempts, XAttempt
  <1>1. CASE Record(h, FALSE) /\ UNCHANGED xAccepts
    BY <1>0, <1>1, RecordInv
  <1>2. CASE /\ xAccepts' = (xAccepts \ {local[h].token}) \cup {<<h, begun>>}
             /\ Carry(h, "save", [token |-> <<h, begun>>])
             /\ UNCHANGED logs
    <2> DEFINE r == local[h]
    <2>0. PICK t : t = <<h, begun>>
      OBVIOUS
    <2>1. /\ {"on", "retry", "net"} \subseteq DOMAIN r /\ r.net = "x" /\ r.on \in Posts
          /\ (~r.retry => {"todo", "errors"} \subseteq DOMAIN r)
      BY <1>0 DEF ServesPost, Attempts, XAttempt
    <2>2. PICK w : w = With([token |-> t], r)
      OBVIOUS
    <2>3. /\ {"on", "retry", "net", "token"} \subseteq DOMAIN w
          /\ w.token = t /\ w.net = r.net /\ w.on = r.on /\ w.retry = r.retry
      BY <2>1, <2>2 DEF With
    <2>4. ~r.retry => w.todo = r.todo /\ w.errors = r.errors /\ {"todo", "errors"} \subseteq DOMAIN w
      BY <2>1, <2>2 DEF With
    <2>5. Carries("save", w)
      BY <1>0, <2>1, <2>3, <2>4 DEF Carries, ServesPost, Attempts, XAttempt
    <2>6. /\ SocialRequests' /\ Elsewhere(h)
          /\ pc'[h] = "save" /\ local'[h] = w /\ begun' = begun
      BY <1>0, <1>2, <2>0, <2>2, <2>5, SocialCarryStep DEF Attempts, XAttempt
    <2>7. SocialTypes'
      BY <1>0, <1>2, <2>6 DEF SocialTypes, SocialRows
    <2>8. \A p \in Posts, n \in Networks : Trying(h, p, n)' => Trying(h, p, n)
      BY <1>0, <2>3, <2>6 DEF Trying
    <2>9. \A p \in Posts, n \in Networks : Coming(h, p, n)' => Coming(h, p, n)
      BY <1>0, <2>3, <2>4, <2>6 DEF Coming, Trying, Attempts, XAttempt
    <2>10. SamePost(h)
      BY <1>0, <2>3, <2>6 DEF SamePost, Serves
    <2>11. Attempting'
      BY <1>0, <1>2, <2>6, <2>8, <2>9, <2>10, FrameAttempts
    <2>12. MayRefresh(h) /\ local'[h].on # None /\ local'[h].token = <<h, begun>> /\ begun \in 0..MaxRequests
      BY <1>0, <2>0, <2>1, <2>3, <2>6, SocialsAssumption DEF MayRefresh, SocialRequests
    <2>13. Tokens'
      BY <1>0, <1>2, <2>6, <2>12, NewTokens
    <2>14. QED
      BY <2>7, <2>11, <2>13 DEF SocialInv
  <1>3. QED
    BY <1>1, <1>2 DEF XRefresh

LEMMA XSaveStep ==
  ASSUME SocialInv, NEW h \in Handlers, XSave(h)
  PROVE  SocialInv'
  <1>0. /\ SocialTypes /\ Tokens /\ SocialRows /\ SocialRequests
        /\ pc[h] = "save" /\ xToken' = [refresh |-> local[h].token, fresh |-> TRUE]
        /\ UNCHANGED <<post, logs, published, connected, xAccepts, doubtful>>
        /\ post \in [Posts -> PostRow]
    BY DEF SocialInv, SocialTypes, SocialRows, XSave
  <1>1. DOMAIN xToken' = {"refresh", "fresh"} /\ xToken'.refresh = local[h].token
    BY <1>0
  <1>2. CASE local[h].on = None /\ Answer(h)
    <2>1. SocialTypes' /\ Attempting' /\ Elsewhere(h) /\ pc'[h] = "idle" /\ begun' = begun
      BY <1>0, <1>1, <1>2, AnswerInv
    <2>2. Tokens'
      BY <1>0, <1>1, <2>1, StoreToken
    <2>3. QED
      BY <2>1, <2>2 DEF SocialInv
  <1>3. CASE local[h].on # None /\ Goto(h, "upload")
    <2>1. ServesPost(pc[h], local[h]) /\ pc[h] \in Attempts \ {"published"}
      BY <1>0, <1>3, AtNetwork DEF Attempts, XAttempt
    <2>2. SocialTypes' /\ Attempting' /\ Elsewhere(h) /\ pc'[h] = "upload" /\ begun' = begun
      BY <1>0, <1>1, <1>3, <2>1, GotoInv
    <2>3. Tokens'
      BY <1>0, <1>1, <2>2, StoreToken
    <2>4. QED
      BY <2>2, <2>3 DEF SocialInv
  <1>4. QED
    BY <1>2, <1>3 DEF XSave

\* A connection begins: it is for no post.
LEMMA ConnectBegins ==
  ASSUME SocialInv, NEW h \in Handlers, NEW await \in {"save", "saveMeta", "saveLinkedIn"}, NEW c,
         Begin(h, await, c), "on" \in DOMAIN c, c.on = None, await = "save" => "token" \in DOMAIN c,
         UNCHANGED <<post, logs, published, doubtful, xToken>>
  PROVE  /\ SocialTypes' /\ Attempting' /\ Elsewhere(h)
         /\ pc[h] = "idle" /\ pc'[h] = await /\ local'[h] = c /\ begun' = begun + 1
  <1>0. SocialTypes /\ Attempting /\ SocialRows /\ SocialRequests /\ None \notin Posts
    BY SocialsAssumption DEF SocialInv, SocialTypes
  <1>1. Carries(await, c)
    BY DEF Carries, Attempts, XAttempt
  <1>2. /\ SocialRequests' /\ Elsewhere(h)
        /\ pc[h] = "idle" /\ pc'[h] = await /\ local'[h] = c /\ begun' = begun + 1
    BY <1>0, <1>1, SocialBeginStep DEF Attempts, XAttempt
  <1>3. SocialRows'
    BY <1>0 DEF SocialRows
  <1>4. \A p \in Posts, n \in Networks : ~Trying(h, p, n)' /\ ~Coming(h, p, n)'
    BY <1>0, <1>2 DEF Trying, Coming
  <1>5. SamePost(h)
    BY <1>0, <1>2 DEF SamePost
  <1>6. Attempting'
    BY <1>0, <1>2, <1>4, <1>5, FrameAttempts
  <1>7. QED
    BY <1>2, <1>3, <1>6 DEF SocialTypes

LEMMA ConnectStep ==
  ASSUME SocialInv, NEW h \in Handlers, ConnectMeta(h) \/ ConnectLinkedIn(h)
  PROVE  SocialInv'
  <1>1. PICK await \in {"saveMeta", "saveLinkedIn"} : Begin(h, await, [on |-> None])
    BY DEF ConnectMeta, ConnectLinkedIn
  <1>2. /\ UNCHANGED <<post, logs, published, connected, xToken, xAccepts, doubtful, stranded>>
        /\ SocialTypes /\ Tokens
    BY DEF ConnectMeta, ConnectLinkedIn, socialVars, SocialInv
  <1>3. /\ SocialTypes' /\ Attempting' /\ Elsewhere(h)
        /\ pc[h] = "idle" /\ pc'[h] = await /\ begun' = begun + 1
    BY <1>1, <1>2, ConnectBegins
  <1>4. Tokens'
    BY <1>1, <1>2, <1>3, FrameTokens
  <1>5. QED
    BY <1>3, <1>4 DEF SocialInv

LEMMA XCallbackStep ==
  ASSUME SocialInv, NEW h \in Handlers, XCallback(h)
  PROVE  SocialInv'
  <1>0. /\ SocialTypes /\ Tokens /\ begun \in Nat
        /\ UNCHANGED <<post, logs, published, connected, xToken, doubtful, stranded>>
    BY DEF SocialInv, SocialTypes, SocialRequests, XCallback
  <1>1. PICK b \in 0..MaxRequests : b = begun + 1
    BY <1>0, RequestsAssumption DEF XCallback, Begin
  <1>2. PICK t : t = <<h, b>>
    OBVIOUS
  <1>3. Begin(h, "save", [on |-> None, token |-> t]) /\ xAccepts' = xAccepts \cup {t}
    BY <1>1, <1>2 DEF XCallback
  <1>4. PICK c : c = [on |-> None, token |-> t]
    OBVIOUS
  <1>5. "on" \in DOMAIN c /\ "token" \in DOMAIN c /\ c.on = None /\ c.token = t
    BY <1>4
  <1>6. /\ SocialTypes' /\ Attempting' /\ Elsewhere(h)
        /\ pc[h] = "idle" /\ pc'[h] = "save" /\ local'[h] = c /\ begun' = begun + 1
    BY <1>0, <1>3, <1>4, <1>5, ConnectBegins
  <1>7. Tokens'
    BY <1>0, <1>1, <1>2, <1>3, <1>5, <1>6, NewTokens
  <1>8. QED
    BY <1>6, <1>7 DEF SocialInv

LEMMA SaveStep ==
  ASSUME SocialInv, NEW h \in Handlers, SaveMeta(h) \/ SaveLinkedIn(h)
  PROVE  SocialInv'
  <1>1. /\ Answer(h) /\ pc[h] # "save"
        /\ UNCHANGED <<post, logs, published, xToken, xAccepts, doubtful, stranded>>
    BY DEF SaveMeta, SaveLinkedIn, Connect
  <1>2. post \in [Posts -> PostRow] /\ DOMAIN xToken = {"refresh", "fresh"}
    BY DEF SocialInv, SocialTypes, SocialRows
  <1>3. QED
    BY <1>1, <1>2, AnswerInv DEF SocialInv

LEMMA UploadStep ==
  ASSUME SocialInv, NEW h \in Handlers, NEW n, Upload(h, n)
  PROVE  SocialInv'
  <1>0. /\ pc[h] = "upload" /\ pc[h] \in Attempts \ {"save", "published"}
        /\ published \in [Posts -> [Networks -> Nat]]
        /\ UNCHANGED <<post, published, connected, xToken, xAccepts, doubtful, stranded>>
    BY DEF Upload, Attempts, SocialInv, SocialTypes, SocialRows
  <1>1. CASE Goto(h, "publish") /\ UNCHANGED logs
    BY <1>0, <1>1, GoOnInv DEF socialVars
  <1>2. CASE Record(h, FALSE)
    BY <1>0, <1>2, RecordInv
  <1>3. QED
    BY <1>1, <1>2 DEF Upload

LEMMA UnconnectedStep ==
  ASSUME SocialInv, NEW h \in Handlers, Unconnected(h)
  PROVE  SocialInv'
  <1>1. /\ pc[h] \in Attempts \ {"save", "published"} /\ Record(h, FALSE)
        /\ published \in [Posts -> [Networks -> Nat]]
        /\ UNCHANGED <<post, published, connected, xToken, xAccepts, doubtful, stranded>>
    BY DEF Unconnected, Attempts, SocialInv, SocialTypes, SocialRows
  <1>2. QED
    BY <1>1, RecordInv

LEMMA PublishedStep ==
  ASSUME SocialInv, NEW h \in Handlers, Published(h)
  PROVE  SocialInv'
  <1>1. /\ pc[h] \in Attempts \ {"save"} /\ Record(h, TRUE)
        /\ published \in [Posts -> [Networks -> Nat]]
        /\ UNCHANGED <<post, published, connected, xToken, xAccepts, doubtful, stranded>>
    BY DEF Published, Attempts, XAttempt, SocialInv, SocialTypes, SocialRows
  <1>2. QED
    BY <1>1, RecordInv

LEMMA PublishStep ==
  ASSUME SocialInv, NEW h \in Handlers, NEW n \in Networks, Publish(h, n)
  PROVE  SocialInv'
  <1> DEFINE r == local[h]  seen == [published EXCEPT ![r.on][n] = @ + 1]
  <1>0. /\ SocialTypes /\ Attempting /\ Tokens /\ SocialRows /\ SocialRequests
        /\ pc[h] = "publish" /\ pc[h] \in Attempts \ {"save", "published"} /\ r.net = n
        /\ published \in [Posts -> [Networks -> Nat]]
        /\ UNCHANGED <<post, connected, xToken, xAccepts, stranded>>
    BY DEF Publish, Attempts, XAttempt, SocialInv, SocialTypes, SocialRows
  <1>1. ServesPost(pc[h], r) /\ r.on \in Posts
    BY <1>0, AtNetwork DEF ServesPost
  <1>2. PICK p \in Posts : p = r.on
    BY <1>1
  <1>3. ASSUME published' = seen
        PROVE  /\ published' \in [Posts -> [Networks -> Nat]]
               /\ published'[p][n] = published[p][n] + 1
               /\ \A q \in Posts, m \in Networks : <<q, m>> # <<p, n>> => published'[q][m] = published[q][m]
    <2>1. published' = [published EXCEPT ![p] = [published[p] EXCEPT ![n] = published[p][n] + 1]]
      BY <1>0, <1>2, <1>3
    <2>2. published[p] \in [Networks -> Nat] /\ published[p][n] + 1 \in Nat
      BY <1>0
    <2>3. [published[p] EXCEPT ![n] = published[p][n] + 1] \in [Networks -> Nat]
      BY <2>2
    <2>4. published' \in [Posts -> [Networks -> Nat]]
      BY <1>0, <2>1, <2>3
    <2>5. published'[p] = [published[p] EXCEPT ![n] = published[p][n] + 1]
          /\ \A q \in Posts : q # p => published'[q] = published[q]
      BY <1>0, <2>1
    <2>6. published'[p][n] = published[p][n] + 1 /\ \A m \in Networks : m # n => published'[p][m] = published[p][m]
      BY <2>2, <2>5
    <2>7. QED
      BY <2>4, <2>5, <2>6
  <1>4. CASE published' = seen /\ Goto(h, "published") /\ UNCHANGED <<logs, doubtful>>
    <2>1. Carries("published", r)
      BY <1>0, <1>1 DEF Carries, ServesPost, Attempts, XAttempt
    <2>2. /\ SocialRequests' /\ Elsewhere(h)
          /\ pc'[h] = "published" /\ local'[h] = local[h] /\ begun' = begun
      BY <1>0, <1>4, <2>1, SocialGotoStep DEF Attempts
    <2>3. Trying(h, p, n)
      BY <1>0, <1>2 DEF Trying
    <2>4. SamePost(h)
      BY <1>0, <2>2 DEF SamePost, Serves
    <2>5. Attempting'
      BY <1>0, <1>3, <1>4, <2>2, <2>3, <2>4, PublishAttempts
    <2>6. Tokens'
      BY <1>0, <2>2, FrameTokens DEF MayRefresh
    <2>7. SocialRows'
      BY <1>0, <1>3, <1>4 DEF SocialRows
    <2>8. QED
      BY <2>2, <2>5, <2>6, <2>7 DEF SocialInv, SocialTypes
  <1>5. CASE Record(h, FALSE) /\ UNCHANGED <<published, doubtful>>
    BY <1>0, <1>5, RecordInv
  <1>6. CASE published' = seen /\ doubtful' = doubtful \cup {<<r.on, n>>} /\ Record(h, FALSE)
    <2>1. /\ doubtful \subseteq doubtful' /\ <<p, n>> \in doubtful'
          /\ published' \in [Posts -> [Networks -> Nat]]
      BY <1>2, <1>3, <1>6
    <2>2. \A q \in Posts, m \in Networks :
            published'[q][m] = published[q][m] \/ (q = local[h].on /\ m = local[h].net /\ <<q, m>> \in doubtful')
      BY <1>0, <1>2, <1>3, <1>6, <2>1
    <2>3. QED
      BY <1>0, <1>6, <2>1, <2>2, RecordInv
  <1>7. QED
    BY <1>4, <1>5, <1>6 DEF Publish

-----------------------------------------------------------------------------
(* The theorems.                                                           *)

LEMMA SocialStart ==
  ASSUME SocialsInit, RequestsInit
  PROVE  SocialInv
  <1>1. SocialRows
    BY DEF SocialsInit, SocialRows, PostRow, PostStatus, LogEntry, LogStatus, NoLog
  <1>2. SocialRequests
    BY RequestsAssumption DEF RequestsInit, SocialRequests, Carries, Nothing, Attempts, XAttempt
  <1>3. \A h \in Handlers : pc[h] = "idle"
    BY DEF RequestsInit
  <1>4. NotYet
    BY <1>3 DEF SocialsInit, NotYet, NoLog, Attempts, XAttempt
  <1>5. OneAttempt
    <2>1. \A p \in Posts, n \in Networks, h \in Handlers : ~Trying(h, p, n) /\ ~Coming(h, p, n)
      BY <1>3 DEF Trying, Coming, Attempts, XAttempt
    <2>2. \A p \in Posts, n \in Networks : published[p][n] = 0
      BY DEF SocialsInit
    <2>3. QED
      BY <2>1, <2>2 DEF OneAttempt, OneAt
  <1>6. TokensNamed
    <2>1. PICK t \in {None, <<>>} : xToken.refresh = t /\ xAccepts = {t} \ {None}
      BY DEF SocialsInit
    <2>2. ASSUME NEW h \in Handlers, NEW b \in 0..MaxRequests
          PROVE  ~Known(<<h, b>>)
      <3>1. <<h, b>> # None
        BY SocialsAssumption
      <3>2. <<h, b>> # <<>>
        OBVIOUS
      <3>3. <<h, b>> # t
        BY <3>1, <3>2
      <3>4. <<h, b>> \notin xAccepts /\ <<h, b>> # xToken.refresh
        BY <2>1, <3>3
      <3>5. QED
        BY <1>3, <3>4 DEF Known
    <2>3. QED
      BY <2>2 DEF TokensNamed
  <1>7. OnTheWay
    BY <1>3 DEF OnTheWay
  <1>8. XTokenWorks
    BY DEF SocialsInit, XTokenWorks
  <1>9. QED
    BY <1>1, <1>2, <1>4, <1>5, <1>6, <1>7, <1>8 DEF SocialInv, SocialTypes, Attempting, Tokens

LEMMA SocialStep ==
  ASSUME SocialInv, [SocialsNext]_socials
  PROVE  SocialInv'
  <1>1. CASE UNCHANGED socials
    BY <1>1, StillInv DEF socials, socialVars, SocialInv, SocialTypes, SocialRows
  <1>2. CASE XExpire
    BY <1>2, XExpireStep
  <1>3. CASE \E p \in Posts : DeletePost(p)
    BY <1>3, DeletePostStep
  <1>4. ASSUME NEW h \in Handlers, CreatePost(h) \/ NextNetwork(h) \/ UpdateStatus(h)
        PROVE  SocialInv'
    BY <1>4, CreatePostStep, NextNetworkStep, UpdateStatusStep
  <1>5. ASSUME NEW h \in Handlers, RetryX(h) \/ RetryLinkedIn(h)
        PROVE  SocialInv'
    BY <1>5, RetryStep DEF RetryX, RetryLinkedIn, Logged
  <1>6. ASSUME NEW h \in Handlers, XClient(h) \/ XRefresh(h) \/ XSave(h) \/ XCallback(h)
        PROVE  SocialInv'
    BY <1>6, XClientStep, XRefreshStep, XSaveStep, XCallbackStep
  <1>7. ASSUME NEW h \in Handlers, ConnectMeta(h) \/ SaveMeta(h) \/ ConnectLinkedIn(h) \/ SaveLinkedIn(h)
        PROVE  SocialInv'
    BY <1>7, ConnectStep, SaveStep
  <1>8. ASSUME NEW h \in Handlers, Unconnected(h) \/ UploadX(h) \/ UploadInstagram(h) \/ UploadLinkedIn(h)
        PROVE  SocialInv'
    BY <1>8, UnconnectedStep, UploadStep DEF UploadX, UploadInstagram, UploadLinkedIn
  <1>9. ASSUME NEW h \in Handlers,
               PublishX(h) \/ PublishFacebook(h) \/ PublishInstagram(h) \/ PublishLinkedIn(h)
        PROVE  SocialInv'
    BY <1>9, PublishStep DEF PublishX, PublishFacebook, PublishInstagram, PublishLinkedIn, Networks
  <1>10. ASSUME NEW h \in Handlers, Published(h) \/ SocialsFail(h)
         PROVE  SocialInv'
    BY <1>10, PublishedStep, SocialsFailStep
  <1>11. QED
    BY <1>1, <1>2, <1>3, <1>4, <1>5, <1>6, <1>7, <1>8, <1>9, <1>10 DEF SocialsNext

\* The inductive invariant: who tries which network for which post, what its log entry
\* tells meanwhile, and which refresh tokens are known to whom.
THEOREM SocialInvariant == SocialsSpec => []SocialInv
  <1>1. SocialsInit /\ RequestsInit => SocialInv
    BY SocialStart
  <1>2. SocialInv /\ [SocialsNext]_socials => SocialInv'
    BY SocialStep
  <1>3. QED
    BY <1>1, <1>2, PTL DEF SocialsSpec

\* No network shows a post twice, unless it was retried although its log entry did
\* not say failed, or the network's answer was lost (executeXPostPipeline,
\* executeLinkedInPostPipeline and their retries).
THEOREM ShownOnce == SocialsSpec => []PublishedOnce
  <1>1. SocialInv => PublishedOnce
    <2> SUFFICES ASSUME SocialInv, NEW p \in Posts, NEW n \in Networks, <<p, n>> \notin doubtful
                 PROVE  ~(published[p][n] > 1)
      BY DEF PublishedOnce
    <2>1. published[p][n] <= 1 /\ published[p][n] \in Nat
      BY DEF SocialInv, SocialTypes, SocialRows, Attempting, OneAttempt, OneAt
    <2>2. QED
      BY <2>1
  <1>2. QED
    BY <1>1, SocialInvariant, PTL

\* X accepts the stored refresh token, except while a new one is on its way to the
\* store or was lost on it (getValidXClient, handleXCallback): two refreshes at once
\* never leave the older token in the store.
THEOREM StoredTokenWorks == SocialsSpec => []XTokenWorks
  <1>1. SocialInv => XTokenWorks
    BY DEF SocialInv, Tokens
  <1>2. QED
    BY <1>1, SocialInvariant, PTL
=============================================================================

-------------------------------- MODULE Team --------------------------------
(***************************************************************************)
(* Team: a dealership's users, their passwords, their sessions and the     *)
(* invitations that bring new ones in (auth.service.js, users.service.js). *)
(* A session is a refresh token that is not revoked.  A password is hashed *)
(* between the read that allows the change and the write, and the writes   *)
(* that belong together are not always one transaction.                    *)
(*                                                                         *)
(* An email stands for its user, as the unique index has it.  Passwords    *)
(* are numbered: an era is the time one of them is in force.  Portals,     *)
(* roles, plans and dealership states are left out, and so are access      *)
(* tokens, which end by themselves.                                        *)
(***************************************************************************)
EXTENDS Requests

CONSTANT Emails

ASSUME TeamAssumption == None \notin Emails

VARIABLES
  user,       \* rows, with the era of their password
  sessions,   \* refresh tokens neither revoked nor over
  resets,     \* password reset links neither used nor over
  invite,     \* invitation rows
  mailed,     \* external: how often each invitation went out
  stale,      \* history: users of whom an older session may have survived
  contested   \* history: emails two requests invited at a time

teamVars == <<user, sessions, resets, invite, mailed, stale, contested>>
team == <<teamVars, handlerVars>>

MaxSends == 3
InviteIds == 0..MaxRequests

NoUser == [row |-> "none", active |-> FALSE, era |-> 0]
NewUser == [row |-> "live", active |-> TRUE, era |-> 1]
NoInvite == [on |-> None, status |-> "none", fresh |-> FALSE, sends |-> 0, rested |-> FALSE]

LiveUsers == {m \in Emails : user[m].row = "live"}
ActiveUsers == {m \in LiveUsers : user[m].active}
OpenInvites(m) ==
  {i \in InviteIds : invite[i].on = m /\ invite[i].status = "pending" /\ invite[i].fresh}

\* Requests that will store a session for m although the password is another by
\* then, or m deleted.
Outdated(m, h, row) == {g \in Handlers \ {h} :
  /\ local[g].on = m
  /\ \/ pc[g] \in {"issue", "rotate"} /\ (row.row # "live" \/ local[g].era # row.era)
     \/ pc[g] = "change" /\ row.row # "live"}

\* Every session of m is revoked; row is what the user's row is by then.
RevokeAll(m, h, row) ==
  /\ sessions' = {s \in sessions : s.on # m}
  /\ stale' = IF Outdated(m, h, row) # {} \/ (pc[h] = "change" /\ row.row # "live")
              THEN stale \cup {m} ELSE stale \ {m}

-----------------------------------------------------------------------------
(* Sessions.                                                               *)

\* The password is verified.
Login(h) == \E m \in ActiveUsers :
  /\ Begin(h, "issue", [on |-> m, era |-> user[m].era, id |-> begun + 1])
  /\ UNCHANGED teamVars

Issue(h) == LET r == local[h] IN
  /\ pc[h] = "issue"
  /\ sessions' = sessions \cup {[on |-> r.on, era |-> r.era, id |-> r.id]}
  /\ Answer(h)
  /\ UNCHANGED <<user, resets, invite, mailed, stale, contested>>

Refresh(h) == \E s \in sessions :
  /\ s.on \in ActiveUsers
  /\ Begin(h, "rotate", [on |-> s.on, era |-> s.era, id |-> begun + 1, old |-> s])
  /\ UNCHANGED teamVars

\* Revoked even if another refresh did so first.
Rotate(h) ==
  /\ pc[h] = "rotate"
  /\ sessions' = sessions \ {local[h].old}
  /\ Goto(h, "issue")
  /\ UNCHANGED <<user, resets, invite, mailed, stale, contested>>

\* Logout, or the token's time is over.
Logout(s) ==
  /\ sessions' = sessions \ {s}
  /\ UNCHANGED <<user, resets, invite, mailed, stale, contested, handlerVars>>

-----------------------------------------------------------------------------
(* Passwords.                                                              *)

\* The link is mailed, or that is logged to have failed.
ForgotPassword(h) == \E m \in ActiveUsers :
  /\ Begin(h, "mailReset", [on |-> m])
  /\ resets' = resets \cup {[on |-> m, id |-> begun + 1]}
  /\ UNCHANGED <<user, sessions, invite, mailed, stale, contested>>

ResetMailed(h) ==
  /\ pc[h] = "mailReset"
  /\ Answer(h)
  /\ UNCHANGED teamVars

\* Whatever became of the user meanwhile.
ResetFind(h) == \E link \in resets :
  /\ Begin(h, "reset", [on |-> link.on, link |-> link])
  /\ UNCHANGED teamVars

\* Mutant: a reset leaves the sessions alone.
ResetPasswordOnly(h) == LET r == local[h]  row == [user[r.on] EXCEPT !.era = @ + 1] IN
  /\ pc[h] = "reset"
  /\ user' = [user EXCEPT ![r.on] = row]
  /\ resets' = resets \ {r.link}
  /\ Answer(h)
  /\ UNCHANGED <<sessions, invite, mailed, stale, contested>>

\* One transaction.  The link is not looked at again: it may have been used,
\* and the user's other links stay.
ResetPassword(h) == LET r == local[h]  row == [user[r.on] EXCEPT !.era = @ + 1] IN
  /\ pc[h] = "reset"
  /\ user' = [user EXCEPT ![r.on] = row]
  /\ resets' = resets \ {r.link}
  /\ RevokeAll(r.on, h, row)
  /\ Answer(h)
  /\ UNCHANGED <<invite, mailed, contested>>

ResetExpire(link) ==
  /\ resets' = resets \ {link}
  /\ UNCHANGED <<user, sessions, invite, mailed, stale, contested, handlerVars>>

ChangeCheck(h) == \E m \in ActiveUsers :
  /\ Begin(h, "change", [on |-> m, id |-> begun + 1])
  /\ UNCHANGED teamVars

\* One transaction, and then a session of its own.
ChangePassword(h) == LET m == local[h].on  row == [user[m] EXCEPT !.era = @ + 1] IN
  /\ pc[h] = "change"
  /\ user' = [user EXCEPT ![m] = row]
  /\ RevokeAll(m, h, row)
  /\ Carry(h, "issue", [era |-> row.era])
  /\ UNCHANGED <<resets, invite, mailed, contested>>

RepInviteFind(h) == \E m \in LiveUsers :
  /\ Begin(h, "repInvite", [on |-> m])
  /\ UNCHANGED teamVars

\* A new password goes out by mail; the sessions of the old one go on.
SendRepInvite(h) == LET m == local[h].on IN
  /\ pc[h] = "repInvite"
  /\ user' = [user EXCEPT ![m].era = @ + 1]
  /\ stale' = stale \cup {m}
  /\ Answer(h)
  /\ UNCHANGED <<sessions, resets, invite, mailed, contested>>

-----------------------------------------------------------------------------
(* Users.                                                                  *)

CreateUserCheck(h) == \E m \in Emails \ LiveUsers :
  /\ Begin(h, "createUser", [on |-> m])
  /\ UNCHANGED teamVars

\* P2002 when the email has a row, a deleted one included.
CreateUser(h) == LET m == local[h].on IN
  /\ pc[h] = "createUser"
  /\ user' = IF user[m].row = "none" THEN [user EXCEPT ![m] = NewUser] ELSE user
  /\ Answer(h)
  /\ UNCHANGED <<sessions, resets, invite, mailed, stale, contested>>

UpdateUserFind(h) == \E m \in LiveUsers, password, active \in BOOLEAN :
  /\ Begin(h, "update", [on |-> m, password |-> password, active |-> active])
  /\ UNCHANGED teamVars

\* A password takes a second statement for the sessions; to switch the user off
\* or on does not touch them.
UpdateUser(h) == LET r == local[h] IN
  /\ pc[h] = "update"
  /\ user' = [user EXCEPT ![r.on].active = r.active,
                          ![r.on].era = IF r.password THEN @ + 1 ELSE @]
  /\ IF r.password THEN Goto(h, "revoke") ELSE Answer(h)
  /\ UNCHANGED <<sessions, resets, invite, mailed, stale, contested>>

DeactivateFind(h) == \E m \in LiveUsers :
  /\ Begin(h, "deactivate", [on |-> m])
  /\ UNCHANGED teamVars

DeactivateUser(h) ==
  /\ pc[h] = "deactivate"
  /\ user' = [user EXCEPT ![local[h].on].active = FALSE, ![local[h].on].row = "deleted"]
  /\ Goto(h, "revoke")
  /\ UNCHANGED <<sessions, resets, invite, mailed, stale, contested>>

\* A sales rep is archived: the payroll page's deletion, which ends no session.
ArchiveFind(h) == \E m \in LiveUsers :
  /\ Begin(h, "archive", [on |-> m])
  /\ UNCHANGED teamVars

ArchiveRep(h) == LET m == local[h].on IN
  /\ pc[h] = "archive"
  /\ user' = [user EXCEPT ![m].active = FALSE, ![m].row = "deleted"]
  /\ stale' = stale \cup {m}
  /\ Answer(h)
  /\ UNCHANGED <<sessions, resets, invite, mailed, contested>>

Revoke(h) == LET m == local[h].on IN
  /\ pc[h] = "revoke"
  /\ RevokeAll(m, h, user[m])
  /\ Answer(h)
  /\ UNCHANGED <<user, resets, invite, mailed, contested>>

-----------------------------------------------------------------------------
(* Invitations.                                                            *)

\* A new one, or another mail for the open one, if it is time and one is left.
InviteRead(h) == \E m \in Emails \ LiveUsers :
  /\ \/ /\ OpenInvites(m) = {}
        /\ Begin(h, "invite", [on |-> m, id |-> begun + 1, sends |-> 0])
     \/ \E i \in OpenInvites(m) :
          /\ invite[i].sends < MaxSends /\ invite[i].rested
          /\ Begin(h, "invite", [on |-> m, id |-> i, sends |-> invite[i].sends])
  /\ contested' = IF \E g \in Handlers : pc[g] = "invite" /\ local[g].on = m
                  THEN contested \cup {m} ELSE contested
  /\ UNCHANGED <<user, sessions, resets, invite, mailed, stale>>

\* Mutant: a resend is not counted.
InviteWriteUncounted(h) == LET r == local[h] IN
  /\ pc[h] = "invite"
  /\ invite' = [invite EXCEPT ![r.id] =
       [on |-> r.on, status |-> IF r.sends = 0 THEN "pending" ELSE @.status,
        fresh |-> TRUE, sends |-> IF r.sends = 0 THEN 1 ELSE @.sends, rested |-> FALSE]]
  /\ Goto(h, "mailInvite")
  /\ UNCHANGED <<user, sessions, resets, mailed, stale, contested>>

\* A resend writes one more than it read, whatever the invitation's status.
InviteWrite(h) == LET r == local[h] IN
  /\ pc[h] = "invite"
  /\ invite' = [invite EXCEPT ![r.id] =
       [on |-> r.on, status |-> IF r.sends = 0 THEN "pending" ELSE @.status,
        fresh |-> TRUE, sends |-> r.sends + 1, rested |-> FALSE]]
  /\ Goto(h, "mailInvite")
  /\ UNCHANGED <<user, sessions, resets, mailed, stale, contested>>

\* It goes out, or that is recorded to have failed.
InviteMail(h) == \E out \in {0, 1} :
  /\ pc[h] = "mailInvite"
  /\ mailed' = [mailed EXCEPT ![local[h].id] = @ + out]
  /\ Answer(h)
  /\ UNCHANGED <<user, sessions, resets, invite, stale, contested>>

\* Ten minutes have passed since the last mail.
InviteRest(i) ==
  /\ invite[i].on # None /\ ~invite[i].rested
  /\ invite' = [invite EXCEPT ![i].rested = TRUE]
  /\ UNCHANGED <<user, sessions, resets, mailed, stale, contested, handlerVars>>

InviteExpire(i) ==
  /\ invite[i].fresh
  /\ invite' = [invite EXCEPT ![i].fresh = FALSE]
  /\ UNCHANGED <<user, sessions, resets, mailed, stale, contested, handlerVars>>

AcceptFind(h) == \E i \in InviteIds :
  /\ invite[i].status = "pending"
  /\ IF invite[i].fresh
     THEN invite[i].on \notin LiveUsers /\ Begin(h, "accept", [on |-> invite[i].on, id |-> i])
     ELSE Begin(h, "markExpired", [on |-> invite[i].on, id |-> i])
  /\ UNCHANGED teamVars

MarkExpired(h) ==
  /\ pc[h] = "markExpired"
  /\ invite' = [invite EXCEPT ![local[h].id].status = "expired"]
  /\ Answer(h)
  /\ UNCHANGED <<user, sessions, resets, mailed, stale, contested>>

\* One transaction, rolled back when the email has a row.
Accept(h) == LET r == local[h] IN
  /\ pc[h] = "accept"
  /\ IF user[r.on].row = "none"
     THEN /\ user' = [user EXCEPT ![r.on] = NewUser]
          /\ invite' = [invite EXCEPT ![r.id].status = "accepted"]
     ELSE UNCHANGED <<user, invite>>
  /\ Answer(h)
  /\ UNCHANGED <<sessions, resets, mailed, stale, contested>>

\* A statement fails, or the process ends: what was written stays.
TeamFail(h) ==
  /\ pc[h] # "idle"
  /\ Answer(h)
  /\ stale' = IF pc[h] = "revoke" THEN stale \cup {local[h].on} ELSE stale
  /\ UNCHANGED <<user, sessions, resets, invite, mailed, contested>>

-----------------------------------------------------------------------------
\* A user with a session, or a former user, or someone invited twice already.
TeamInit ==
  /\ \/ /\ user = [m \in Emails |-> NewUser]
        /\ sessions = {[on |-> m, era |-> 1, id |-> 0] : m \in Emails}
        /\ invite = [i \in InviteIds |-> NoInvite]
        /\ mailed = [i \in InviteIds |-> 0]
     \/ \E m \in Emails :
          /\ \E row \in {"none", "deleted"} : user = [n \in Emails |-> [NoUser EXCEPT !.row = row]]
          /\ sessions = {}
          /\ invite = [i \in InviteIds |-> IF i # 0 THEN NoInvite ELSE
               [on |-> m, status |-> "pending", fresh |-> TRUE, sends |-> 2, rested |-> TRUE]]
          /\ mailed = [i \in InviteIds |-> IF i = 0 THEN 2 ELSE 0]
  /\ resets = {}
  /\ stale = {}
  /\ contested = {}

TeamNext ==
  \/ \E s \in sessions : Logout(s)
  \/ \E link \in resets : ResetExpire(link)
  \/ \E i \in InviteIds : InviteRest(i) \/ InviteExpire(i)
  \/ \E h \in Handlers :
       \/ Login(h) \/ Issue(h) \/ Refresh(h) \/ Rotate(h)
       \/ ForgotPassword(h) \/ ResetMailed(h) \/ ResetFind(h) \/ ResetPassword(h)
       \/ ChangeCheck(h) \/ ChangePassword(h) \/ RepInviteFind(h) \/ SendRepInvite(h)
       \/ CreateUserCheck(h) \/ CreateUser(h) \/ UpdateUserFind(h) \/ UpdateUser(h)
       \/ DeactivateFind(h) \/ DeactivateUser(h) \/ Revoke(h)
       \/ ArchiveFind(h) \/ ArchiveRep(h)
       \/ InviteRead(h) \/ InviteWrite(h) \/ InviteMail(h)
       \/ AcceptFind(h) \/ MarkExpired(h) \/ Accept(h)
       \/ TeamFail(h)

TeamSpec == TeamInit /\ RequestsInit /\ [][TeamNext]_team

-----------------------------------------------------------------------------
\* A session goes back to the password its user has now, and the user is not
\* deleted: a new password and a deactivation end every session before them.
\* Unless the statement that ends them is still to come or failed, or a login or
\* refresh that began before stores its session after, or it was one of the two
\* that end none: a password mailed with a sales rep's invitation, and the
\* archiving of a sales rep; the next time the sessions are ended without that
\* mends it (refresh, resetPassword, changePassword, updateUser, deactivateUser,
\* sendRepInvite, archiveSalesRep).
SessionsCurrent ==
  \A s \in sessions :
    \/ user[s.on].row = "live" /\ user[s.on].era = s.era
    \/ \E h \in Handlers : pc[h] = "revoke" /\ local[h].on = s.on
    \/ s.on \in stale

\* An email has one open invitation, which counts the mails that went out for it
\* and never sends a fourth, unless two requests invited it at a time: the count
\* is read before it is written (inviteUser).
InvitesBounded ==
  \A m \in Emails \ contested :
    /\ Cardinality(OpenInvites(m)) <= 1
    /\ \A i \in InviteIds : invite[i].on = m =>
         mailed[i] <= invite[i].sends /\ invite[i].sends <= MaxSends

=============================================================================

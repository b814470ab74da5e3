------------------------- MODULE Onboarding_proofs -------------------------
(***************************************************************************)
(* Proofs about Onboarding, for every number of requests and every set of  *)
(* faults.  The lock in the registration's row carries the argument: the   *)
(* invariants below say what its holder has done so far, and what must     *)
(* have happened before anybody else can hold it.                          *)
(***************************************************************************)
EXTENDS Onboarding, TLAPS

-----------------------------------------------------------------------------
(* The inductive invariant, besides the properties of Onboarding.          *)

\* Only completeRegistration welcomes twice, and its second attempt is its last.
AttemptsCounted == \A r \in Requests :
  /\ pc[r] = "idle" => local[r] = NoLocals
  /\ pc[r] \in {"current", "recheck"} => local[r].op = "complete"
  /\ ~local[r].first => local[r].op = "complete"
  /\ pc[r] \in {"create", "status", "activate", "current"} => local[r].attempt = 0
  /\ pc[r] \in {"create", "status", "activate", "current", "token", "recheck"} => local[r].first
  /\ pc[r] \in {"token", "recheck"} => local[r].attempt \in 0..1
  /\ pc[r] = "welcome" => local[r].attempt = 0 \/ (~local[r].first /\ local[r].attempt = 1)
  /\ pc[r] \in Locked \cup {"lock"} =>
       local[r].attempt = 1 \/ (~local[r].first /\ local[r].attempt = 2)

\* Once the registration is marked as e-mailed nobody holds its lock.
SentUnlocked == reg.sent => reg.lock = None

\* The dealership a request has seen exists.
SeenExists ==
  /\ reg.dealership # None => password[reg.dealership] # None
  /\ \A r \in Requests :
       /\ local[r].seen # None => password[local[r].seen] # None
       /\ pc[r] = "mint" => local[r].seen # None

\* Whoever reaches the catch has failed.
CatchExplained == \A r \in Requests : pc[r] = "unlock" => attempt(r) \in failures

\* A mail that counts as sent was marked, or its sender still holds the lock.
MailsHeld == \A a \in mails \ failures :
  \/ reg.sent
  \/ /\ reg.lock = a[1]
     /\ a = attempt(a[1])
     /\ pc[a[1]] \in {"mark", "crashed"}

\* Whoever opened an account was marked, still holds the lock, or has failed.
AccountsHeld == \A r \in Requests :
  password[r] # None => reg.sent \/ reg.lock = r \/ \E a \in failures : a[1] = r

\* The password in the mail, or on its way there, opens an account.
MailedOpens == \A r \in Requests :
  /\ pc[r] \in {"mail", "mark"} => \E d \in Requests : password[d] \in {attempt(r), Own}
  /\ pc[r] = "mark" => attempt(r) \in mails

WelcomeInv ==
  /\ TypeOK
  /\ AttemptsCounted
  /\ LockExplained
  /\ SentUnlocked
  /\ SeenExists
  /\ CatchExplained
  /\ MailsHeld
  /\ MailsExplained
  /\ AccountsHeld
  /\ AccountsExplained
  /\ MailedOpens
  /\ CredentialsWork

-----------------------------------------------------------------------------
(* Helpers.                                                                *)

Pcs == Awaits \cup Answered \cup {"idle"}

\* A request that moves on is at an await of the code.
LEMMA Moves ==
  ASSUME TypeOK, NEW r \in Requests, NEW x \in Pcs, pc' = [pc EXCEPT ![r] = x]
  PROVE  pc' \in [Requests -> Pcs]
  BY DEF TypeOK, Pcs

\* sendWelcomeIfNeeded returns to the end of its caller or to the link's token;
\* a completion that welcomes for the second time does not issue a token.
LEMMA Returns ==
  ASSUME NEW r \in Requests, NEW thrown \in BOOLEAN, Return(r, thrown)
  PROVE  \E x \in {"ok", "refused", "clear", "token"} :
           /\ pc' = [pc EXCEPT ![r] = x]
           /\ x = "token" => local[r].first \/ local[r].op # "complete"
  BY DEF Return, Goto

\* A request that arrives was idle and starts without locals.
Begun(r, op, await, status) ==
  /\ pc[r] = "idle"
  /\ pc' = [pc EXCEPT ![r] = await]
  /\ local' = [local EXCEPT ![r] = [NoLocals EXCEPT !.op = op, !.status = status]]
  /\ await = "current" => op = "complete"
  /\ UNCHANGED <<reg, password, mails, failures>>

LEMMA Begins ==
  ASSUME NEW r \in Requests, Arrive(r)
  PROVE  \E op \in Ops, status \in {"active", "canceled"},
           x \in {"create", "activate", "token", "current", "status"} : Begun(r, op, x, status)
  BY DEF Arrive, RegisterRead, CheckoutRead, CompleteRead, SubscriptionRead, Begin, Begun, Goto, Ops

\* What a request carries after it has arrived ...
LEMMA BegunLocals ==
  ASSUME NEW op \in Ops, NEW status \in {"active", "canceled"}
  PROVE  [NoLocals EXCEPT !.op = op, !.status = status] \in Locals
  <1> DEFINE c == [NoLocals EXCEPT !.op = op]
  <1>1. NoLocals \in Locals
    BY DEF NoLocals, Locals
  <1> HIDE DEF NoLocals
  <1>2. c \in Locals
    BY <1>1 DEF Locals
  <1>3. ASSUME NEW l \in Locals PROVE [l EXCEPT !.status = status] \in Locals
    BY DEF Locals
  <1>4. [c EXCEPT !.status = status] = [NoLocals EXCEPT !.op = op, !.status = status]
    OBVIOUS
  <1>5. QED
    BY <1>2, <1>3, <1>4

\* ... after it has read that it may welcome ...
LEMMA SeenLocals ==
  ASSUME local \in [Requests -> Locals], NEW r \in Requests, NEW d \in Requests \cup {None},
         local[r].attempt < 2
  PROVE  [local EXCEPT ![r].seen = d, ![r].attempt = @ + 1] \in [Requests -> Locals]
  <1> DEFINE l == [local EXCEPT ![r].seen = d]
  <1>1. l \in [Requests -> Locals]
    BY DEF Locals
  <1>2. l[r].attempt = local[r].attempt
    OBVIOUS
  <1>3. l[r].attempt + 1 \in 0..2
    BY <1>2 DEF Locals
  <1>4. [local EXCEPT ![r].seen = d, ![r].attempt = @ + 1] = [l EXCEPT ![r].attempt = @ + 1]
    OBVIOUS
  <1> HIDE DEF l
  <1>5. [l EXCEPT ![r].attempt = @ + 1] \in [Requests -> Locals]
    BY <1>1, <1>3 DEF Locals
  <1>6. QED
    BY <1>4, <1>5

\* ... and after it has found the registration active, or failed to clear its lock.
LEMMA FlaggedLocals ==
  ASSUME local \in [Requests -> Locals], NEW r \in Requests
  PROVE  /\ [local EXCEPT ![r].first = FALSE] \in [Requests -> Locals]
         /\ [local EXCEPT ![r].jammed = TRUE] \in [Requests -> Locals]
  BY DEF Locals

-----------------------------------------------------------------------------
(* Types.                                                                  *)

LEMMA TypeStep ==
  ASSUME TypeOK, AttemptsCounted, [Next]_vars
  PROVE  TypeOK'
  <1> USE DEF Goto
  <1>1. CASE UNCHANGED vars
    BY <1>1 DEF vars, TypeOK
  <1>2. ASSUME NEW r \in Requests, Arrive(r)
        PROVE  TypeOK'
    <2>1. PICK op \in Ops, status \in {"active", "canceled"},
               x \in {"create", "activate", "token", "current", "status"} : Begun(r, op, x, status)
      BY <1>2, Begins
    <2>2. [NoLocals EXCEPT !.op = op, !.status = status] \in Locals
      BY BegunLocals
    <2>3. local' \in [Requests -> Locals]
      BY <2>1, <2>2 DEF TypeOK, Begun
    <2>4. pc' \in [Requests -> Pcs]
      BY <2>1, Moves DEF Pcs, Awaits, Begun
    <2>5. QED
      BY <2>1, <2>3, <2>4 DEF TypeOK, Pcs, Begun
  <1>3. ASSUME NEW r \in Requests,
               CreateRegistration(r) \/ Activate(r) \/ IssueToken(r) \/ ClearToken(r) \/ WriteStatus(r)
        PROVE  TypeOK'
    <2>1. reg' \in Registration
      <3>1. reg \in Registration /\ local[r].status \in {"active", "canceled"}
        BY DEF TypeOK, Locals
      <3>2. CASE CreateRegistration(r)
        BY <3>1, <3>2 DEF Registration, CreateRegistration
      <3>3. CASE Activate(r)
        BY <3>1, <3>3 DEF Registration, Activate
      <3>4. CASE IssueToken(r)
        BY <3>1, <3>4 DEF Registration, IssueToken
      <3>5. CASE ClearToken(r)
        BY <3>1, <3>5 DEF Registration, ClearToken
      <3>6. CASE WriteStatus(r)
        BY <3>1, <3>6 DEF Registration, WriteStatus
      <3>7. QED
        BY <1>3, <3>2, <3>3, <3>4, <3>5, <3>6
    <2>2. \E x \in Pcs : pc' = [pc EXCEPT ![r] = x]
      BY <1>3 DEF CreateRegistration, Activate, IssueToken, ClearToken, WriteStatus, Pcs, Awaits, Answered
    <2>3. UNCHANGED <<password, mails, failures, local>>
      BY <1>3 DEF CreateRegistration, Activate, IssueToken, ClearToken, WriteStatus
    <2>4. QED
      BY <2>1, <2>2, <2>3, Moves DEF TypeOK, Pcs
  <1>4. ASSUME NEW r \in Requests, CompleteCurrent(r)
        PROVE  TypeOK'
    <2>1. local' \in [Requests -> Locals]
      BY <1>4, FlaggedLocals DEF TypeOK, CompleteCurrent
    <2>2. \E x \in Pcs : pc' = [pc EXCEPT ![r] = x]
      BY <1>4 DEF CompleteCurrent, Pcs, Awaits
    <2>3. QED
      BY <1>4, <2>1, <2>2, Moves DEF TypeOK, Pcs, CompleteCurrent
  <1>5. ASSUME NEW r \in Requests, WelcomeRead(r)
        PROVE  TypeOK'
    <2>1. local' \in [Requests -> Locals]
      <3>1. reg.dealership \in Requests \cup {None} /\ local \in [Requests -> Locals]
        BY DEF TypeOK, Registration
      <3>2. local[r].attempt < 2
        BY <1>5 DEF WelcomeRead, AttemptsCounted
      <3>3. [local EXCEPT ![r].seen = reg.dealership, ![r].attempt = @ + 1]
              \in [Requests -> Locals]
        BY <3>1, <3>2, SeenLocals
      <3>4. QED
        BY <1>5, <3>1, <3>3 DEF WelcomeRead
    <2>2. \E x \in Pcs : pc' = [pc EXCEPT ![r] = x]
      BY <1>5, Returns DEF WelcomeRead, Pcs, Awaits, Answered
    <2>3. QED
      BY <1>5, <2>1, <2>2, Moves DEF TypeOK, Pcs, WelcomeRead
  <1>6. ASSUME NEW r \in Requests, Lock(r)
        PROVE  TypeOK'
    <2>1. reg' \in Registration
      BY <1>6 DEF TypeOK, Registration, Lock
    <2>2. \E x \in Pcs : pc' = [pc EXCEPT ![r] = x]
      BY <1>6, Returns DEF Lock, Pcs, Awaits, Answered, Locked
    <2>3. QED
      BY <1>6, <2>1, <2>2, Moves DEF TypeOK, Pcs, Lock
  <1>7. ASSUME NEW r \in Requests, OpenAccount(r) \/ MintPassword(r) \/ SendMail(r) \/ Fail(r)
        PROVE  TypeOK'
    <2>1. pc[r] \in Locked => attempt(r) \in Attempts
      BY DEF AttemptsCounted, attempt, Attempts
    <2>2. \E x \in Pcs : pc' = [pc EXCEPT ![r] = x]
      BY <1>7 DEF OpenAccount, MintPassword, SendMail, Fail, Pcs, Awaits, Locked
    <2>3. CASE OpenAccount(r)
      BY <2>1, <2>2, <2>3, Moves DEF TypeOK, Registration, OpenAccount, Locked, Pcs
    <2>4. CASE MintPassword(r)
      BY <2>1, <2>2, <2>4, Moves DEF TypeOK, MintPassword, Locked, Pcs
    <2>5. CASE SendMail(r)
      BY <2>1, <2>2, <2>5, Moves DEF TypeOK, SendMail, Locked, Pcs
    <2>6. CASE Fail(r)
      BY <2>1, <2>2, <2>6, Moves DEF TypeOK, Fail, Locked, Pcs
    <2>7. QED
      BY <1>7, <2>3, <2>4, <2>5, <2>6
  <1>8. ASSUME NEW r \in Requests, MarkSent(r) \/ Unlock(r)
        PROVE  TypeOK'
    <2>1. reg' \in Registration
      BY <1>8 DEF TypeOK, Registration, MarkSent, Unlock
    <2>2. local' \in [Requests -> Locals]
      BY <1>8, FlaggedLocals DEF TypeOK, MarkSent, Unlock
    <2>3. \E x \in Pcs : pc' = [pc EXCEPT ![r] = x]
      BY <1>8, Returns DEF MarkSent, Unlock, Pcs, Awaits, Answered
    <2>4. QED
      BY <1>8, <2>1, <2>2, <2>3, Moves DEF TypeOK, Pcs, MarkSent, Unlock
  <1>9. ASSUME NEW r \in Requests, Crash(r) \/ ChangePassword(r)
        PROVE  TypeOK'
    BY <1>9 DEF TypeOK, Crash, ChangePassword, Answered
  <1>10. QED
    BY <1>1, <1>2, <1>3, <1>4, <1>5, <1>6, <1>7, <1>8, <1>9 DEF Next, Proceed

-----------------------------------------------------------------------------
(* Steps outside the lock and inside it.                                   *)

\* A step of one request leaves the others alone.
Elsewhere(r) == \A q \in Requests \ {r} :
  pc'[q] = pc[q] /\ local'[q] = local[q] /\ attempt(q)' = attempt(q)

\* What a request does before it has the lock and after it has left it.
Outside(r) ==
  \/ Arrive(r) \/ CreateRegistration(r) \/ Activate(r) \/ IssueToken(r)
  \/ CompleteCurrent(r) \/ ClearToken(r) \/ WriteStatus(r) \/ WelcomeRead(r)

LEMMA OutsideStep ==
  ASSUME TypeOK, AttemptsCounted, NEW r \in Requests, Outside(r)
  PROVE  /\ Elsewhere(r)
         /\ pc[r] \notin Locked \cup {"crashed"} /\ pc'[r] \notin Locked \cup {"crashed"}
         /\ reg'.lock = reg.lock /\ reg'.sent = reg.sent /\ reg'.dealership = reg.dealership
         /\ UNCHANGED <<password, mails, failures>>
         /\ local'[r].seen \in {None, local[r].seen, reg.dealership}
         /\ local'[r].jammed = local[r].jammed
  <1>0. /\ pc \in [Requests -> Pcs] /\ local \in [Requests -> Locals] /\ reg \in Registration
        /\ pc[r] = "idle" => local[r] = NoLocals
    BY DEF TypeOK, Pcs, AttemptsCounted
  <1> USE <1>0 DEF Elsewhere, attempt, Locked
  <1>1. CASE Arrive(r)
    <2>1. PICK op \in Ops, status \in {"active", "canceled"},
               x \in {"create", "activate", "token", "current", "status"} : Begun(r, op, x, status)
      BY <1>1, Begins
    <2>2. /\ [NoLocals EXCEPT !.op = op, !.status = status].seen = None
          /\ [NoLocals EXCEPT !.op = op, !.status = status].jammed = NoLocals.jammed
      BY DEF NoLocals
    <2>3. QED
      BY <2>1, <2>2 DEF Begun
  <1>2. CASE CreateRegistration(r)
    BY <1>2 DEF CreateRegistration, Goto, Registration
  <1>3. CASE Activate(r)
    BY <1>3 DEF Activate, Goto, Registration
  <1>4. CASE IssueToken(r)
    BY <1>4 DEF IssueToken, Goto, Registration
  <1>5. CASE CompleteCurrent(r)
    BY <1>5 DEF CompleteCurrent, Goto, Locals
  <1>6. CASE ClearToken(r)
    BY <1>6 DEF ClearToken, Goto, Registration
  <1>7. CASE WriteStatus(r)
    BY <1>7 DEF WriteStatus, Goto, Registration
  <1>8. CASE WelcomeRead(r)
    BY <1>8, Returns, ZenonT(60) DEF WelcomeRead, Goto, Locals
  <1>9. QED
    BY <1>1, <1>2, <1>3, <1>4, <1>5, <1>6, <1>7, <1>8 DEF Outside

\* What the holder of the lock does, and a crash, leave the attempt as it is.
LEMMA InsideStep ==
  ASSUME TypeOK, NEW r \in Requests,
         \/ Lock(r) \/ OpenAccount(r) \/ MintPassword(r) \/ SendMail(r) \/ MarkSent(r)
         \/ Fail(r) \/ Unlock(r) \/ Crash(r)
  PROVE  /\ Elsewhere(r)
         /\ attempt(r)' = attempt(r)
         /\ local'[r].seen = local[r].seen
         /\ local[r].jammed => local'[r].jammed
  <1>0. pc \in [Requests -> Pcs] /\ local \in [Requests -> Locals]
    BY DEF TypeOK, Pcs
  <1> USE <1>0 DEF Elsewhere, attempt, Goto
  <1>1. CASE Lock(r)
    BY <1>1, Returns DEF Lock
  <1>2. CASE OpenAccount(r)
    BY <1>2 DEF OpenAccount
  <1>3. CASE MintPassword(r)
    BY <1>3 DEF MintPassword
  <1>4. CASE SendMail(r)
    BY <1>4 DEF SendMail
  <1>5. CASE MarkSent(r)
    BY <1>5, Returns DEF MarkSent
  <1>6. CASE Fail(r)
    BY <1>6 DEF Fail
  <1>7. CASE Unlock(r)
    BY <1>7, Returns, ZenonT(60) DEF Unlock, Locals
  <1>8. CASE Crash(r)
    BY <1>8 DEF Crash
  <1>9. QED
    BY <1>1, <1>2, <1>3, <1>4, <1>5, <1>6, <1>7, <1>8

-----------------------------------------------------------------------------
(* The attempts are counted.                                               *)

Counted(r) ==
  /\ pc[r] = "idle" => local[r] = NoLocals
  /\ pc[r] \in {"current", "recheck"} => local[r].op = "complete"
  /\ ~local[r].first => local[r].op = "complete"
  /\ pc[r] \in {"create", "status", "activate", "current"} => local[r].attempt = 0
  /\ pc[r] \in {"create", "status", "activate", "current", "token", "recheck"} => local[r].first
  /\ pc[r] \in {"token", "recheck"} => local[r].attempt \in 0..1
  /\ pc[r] = "welcome" => local[r].attempt = 0 \/ (~local[r].first /\ local[r].attempt = 1)
  /\ pc[r] \in Locked \cup {"lock"} =>
       local[r].attempt = 1 \/ (~local[r].first /\ local[r].attempt = 2)

\* The caller of sendWelcomeIfNeeded goes on with its attempts counted.
LEMMA ReturnCounted ==
  ASSUME TypeOK, NEW r \in Requests, NEW thrown \in BOOLEAN, Counted(r), Return(r, thrown),
         pc[r] \in {"welcome", "lock", "mark", "unlock"},
         local'[r].op = local[r].op, local'[r].first = local[r].first,
         local'[r].attempt = local[r].attempt
  PROVE  Counted(r)'
  <1>1. PICK x \in {"ok", "refused", "clear", "token"} :
          /\ pc' = [pc EXCEPT ![r] = x]
          /\ x = "token" => local[r].first \/ local[r].op # "complete"
    BY Returns
  <1>2. pc'[r] = x
    BY <1>1 DEF TypeOK
  <1>3. x = "token" => local[r].first /\ local[r].attempt \in 0..1
    BY <1>1 DEF Counted, Locked
  <1>4. QED
    BY <1>2, <1>3 DEF Counted, Locked

LEMMA AttemptsStep ==
  ASSUME TypeOK, AttemptsCounted, [Next]_vars
  PROVE  AttemptsCounted'
  <1>0. AttemptsCounted <=> \A r \in Requests : Counted(r)
    BY DEF AttemptsCounted, Counted
  <1>1. ASSUME NEW q \in Requests, Counted(q), pc'[q] = pc[q], local'[q] = local[q]
        PROVE  Counted(q)'
    BY <1>1 DEF Counted
  <1>2. ASSUME NEW r \in Requests, Elsewhere(r), Counted(r)'
        PROVE  AttemptsCounted'
    BY <1>0, <1>1, <1>2 DEF Elsewhere, AttemptsCounted, Counted
  <1>3. pc \in [Requests -> Pcs] /\ local \in [Requests -> Locals]
    BY DEF TypeOK, Pcs
  <1>4. CASE UNCHANGED vars
    BY <1>4 DEF vars, AttemptsCounted
  <1>5. ASSUME NEW r \in Requests, Outside(r)
        PROVE  AttemptsCounted'
    <2>1. Elsewhere(r) /\ Counted(r)
      BY <1>0, <1>5, OutsideStep
    <2>2. Counted(r)'
      <3> USE <1>3, <2>1 DEF Counted, Goto, Locked
      <3>1. CASE Arrive(r)
        <4>1. PICK op \in Ops, status \in {"active", "canceled"},
                   x \in {"create", "activate", "token", "current", "status"} : Begun(r, op, x, status)
          BY <3>1, Begins
        <4> DEFINE c == [NoLocals EXCEPT !.op = op, !.status = status]
        <4>2. c.op = op /\ c.first /\ c.attempt = 0
          BY DEF NoLocals
        <4> HIDE DEF c
        <4>3. QED
          BY <4>1, <4>2 DEF Begun, c
      <3>2. CASE CreateRegistration(r)
        BY <3>2 DEF CreateRegistration
      <3>3. CASE Activate(r)
        BY <3>3 DEF Activate
      <3>4. CASE IssueToken(r)
        BY <3>4 DEF IssueToken
      <3>5. CASE CompleteCurrent(r)
        BY <3>5 DEF CompleteCurrent, Locals
      <3>6. CASE ClearToken(r)
        BY <3>6 DEF ClearToken
      <3>7. CASE WriteStatus(r)
        BY <3>7 DEF WriteStatus
      <3>8. CASE WelcomeRead(r)
        <4>1. CASE reg.sent
          BY <3>8, <4>1, ReturnCounted DEF WelcomeRead
        <4>2. CASE ~reg.sent
          BY <3>8, <4>2 DEF WelcomeRead, Locals
        <4>3. QED
          BY <4>1, <4>2
      <3>9. QED
        BY <1>5, <3>1, <3>2, <3>3, <3>4, <3>5, <3>6, <3>7, <3>8 DEF Outside
    <2>3. QED
      BY <1>2, <2>1, <2>2
  <1>6. ASSUME NEW r \in Requests,
               \/ Lock(r) \/ OpenAccount(r) \/ MintPassword(r) \/ SendMail(r) \/ MarkSent(r)
               \/ Fail(r) \/ Unlock(r) \/ Crash(r)
        PROVE  AttemptsCounted'
    <2>1. Elsewhere(r) /\ Counted(r)
      BY <1>0, <1>6, InsideStep
    <2>2. Counted(r)'
      <3> USE <1>3, <2>1 DEF Counted, Goto, Locked
      <3>1. CASE Lock(r)
        <4>1. CASE Return(r, FALSE)
          BY <3>1, <4>1, ReturnCounted DEF Lock
        <4>2. CASE ~Return(r, FALSE)
          BY <3>1, <4>2 DEF Lock
        <4>3. QED
          BY <4>1, <4>2
      <3>2. CASE OpenAccount(r)
        BY <3>2 DEF OpenAccount
      <3>3. CASE MintPassword(r)
        BY <3>3 DEF MintPassword
      <3>4. CASE SendMail(r)
        BY <3>4 DEF SendMail
      <3>5. CASE MarkSent(r)
        BY <3>5, ReturnCounted DEF MarkSent
      <3>6. CASE Fail(r)
        BY <3>6 DEF Fail
      <3>7. CASE Unlock(r)
        <4>1. /\ local'[r].op = local[r].op /\ local'[r].first = local[r].first
              /\ local'[r].attempt = local[r].attempt
          BY <3>7 DEF Unlock, Locals
        <4>2. QED
          BY <3>7, <4>1, ReturnCounted DEF Unlock
      <3>8. CASE Crash(r)
        BY <3>8 DEF Crash
      <3>9. QED
        BY <1>6, <3>1, <3>2, <3>3, <3>4, <3>5, <3>6, <3>7, <3>8
    <2>3. QED
      BY <1>2, <2>1, <2>2
  <1>7. ASSUME NEW r \in Requests, ChangePassword(r)
        PROVE  AttemptsCounted'
    BY <1>7 DEF ChangePassword, AttemptsCounted
  <1>8. QED
    BY <1>4, <1>5, <1>6, <1>7 DEF Next, Proceed, Outside

-----------------------------------------------------------------------------
(* The lock.                                                               *)

LEMMA LockInvStep ==
  ASSUME TypeOK, AttemptsCounted, LockExplained, SentUnlocked, [Next]_vars
  PROVE  LockExplained' /\ SentUnlocked'
  <1>0. /\ pc \in [Requests -> Pcs] /\ local \in [Requests -> Locals] /\ reg \in Registration
        /\ \A r \in Requests : r # None
    BY OnboardingAssumption DEF TypeOK, Pcs
  <1> USE <1>0 DEF LockExplained, SentUnlocked, Goto, Locked
  <1>1. CASE UNCHANGED vars
    BY <1>1 DEF vars
  <1>2. ASSUME NEW r \in Requests, Outside(r)
        PROVE  LockExplained' /\ SentUnlocked'
    BY <1>2, OutsideStep DEF Elsewhere
  <1>3. ASSUME NEW r \in Requests, Lock(r)
        PROVE  LockExplained' /\ SentUnlocked'
    <2>1. CASE reg.sent \/ reg.lock # None
      BY <1>3, <2>1, InsideStep, Returns DEF Lock, Elsewhere
    <2>2. CASE ~reg.sent /\ reg.lock = None
      BY <1>3, <2>2, InsideStep DEF Lock, Elsewhere, Registration
    <2>3. QED
      BY <2>1, <2>2
  <1>4. ASSUME NEW r \in Requests, OpenAccount(r)
        PROVE  LockExplained' /\ SentUnlocked'
    BY <1>4, InsideStep DEF OpenAccount, Elsewhere, Registration
  <1>5. ASSUME NEW r \in Requests, MintPassword(r) \/ SendMail(r) \/ Fail(r)
        PROVE  LockExplained' /\ SentUnlocked'
    BY <1>5, InsideStep DEF MintPassword, SendMail, Fail, Elsewhere
  <1>6. ASSUME NEW r \in Requests, MarkSent(r)
        PROVE  LockExplained' /\ SentUnlocked'
    BY <1>6, InsideStep, Returns, ZenonT(60) DEF MarkSent, Elsewhere, Registration
  <1>7. ASSUME NEW r \in Requests, Unlock(r)
        PROVE  LockExplained' /\ SentUnlocked'
    <2>1. PICK x \in {"ok", "refused", "clear", "token"} : pc' = [pc EXCEPT ![r] = x]
      BY <1>7, Returns DEF Unlock
    <2>2. CASE reg' = reg
      <3>1. local'[r].jammed \/ reg.lock # r
        BY <1>7, <2>2 DEF Unlock, Locals, Registration
      <3>2. QED
        BY <1>7, <2>1, <2>2, <3>1, InsideStep DEF Elsewhere
    <2>3. CASE reg' # reg
      BY <1>7, <2>1, <2>3, InsideStep DEF Unlock, Elsewhere, Registration
    <2>4. QED
      BY <2>2, <2>3
  <1>8. ASSUME NEW r \in Requests, Crash(r)
        PROVE  LockExplained' /\ SentUnlocked'
    BY <1>8, InsideStep DEF Crash, Elsewhere
  <1>9. ASSUME NEW r \in Requests, ChangePassword(r)
        PROVE  LockExplained' /\ SentUnlocked'
    BY <1>9 DEF ChangePassword
  <1>10. QED
    BY <1>1, <1>2, <1>3, <1>4, <1>5, <1>6, <1>7, <1>8, <1>9 DEF Next, Proceed, Outside

-----------------------------------------------------------------------------
(* Accounts.                                                               *)

\* A temporary password is neither missing nor the owner's.
LEMMA Passwords ==
  /\ None # Own
  /\ \A a \in Attempts : a # None /\ a # Own
  <1>1. \A a \in Attempts : a \in Requests \X (0..2)
    BY DEF Attempts
  <1>2. QED
    BY <1>1, OnboardingAssumption

LEMMA AttemptIsAttempt ==
  ASSUME AttemptsCounted, NEW r \in Requests, pc[r] \in Locked
  PROVE  attempt(r) \in Attempts
  BY DEF AttemptsCounted, attempt, Attempts

\* An account that is there stays, and only OpenAccount opens one.
LEMMA AccountsStep ==
  ASSUME TypeOK, AttemptsCounted, SeenExists, [Next]_vars
  PROVE  \A d \in Requests :
           /\ password[d] # None => password'[d] # None
           /\ password'[d] # None => password[d] # None \/ OpenAccount(d)
  <1>0. password \in [Requests -> Attempts \cup {None, Own}] /\ mails \subseteq Attempts
    BY DEF TypeOK
  <1> USE <1>0, Passwords
  <1>1. ASSUME NEW r \in Requests, OpenAccount(r)
        PROVE  password' = [password EXCEPT ![r] = attempt(r)] /\ attempt(r) \in Attempts
    BY <1>1, AttemptIsAttempt DEF OpenAccount, Locked
  <1>2. ASSUME NEW r \in Requests, MintPassword(r)
        PROVE  /\ password' = [password EXCEPT ![local[r].seen] = attempt(r)]
               /\ attempt(r) \in Attempts /\ password[local[r].seen] # None
    BY <1>2, AttemptIsAttempt DEF MintPassword, Locked, SeenExists
  <1>3. ASSUME NEW r \in Requests, ChangePassword(r)
        PROVE  password' = [password EXCEPT ![r] = Own] /\ password[r] # None
    BY <1>3 DEF ChangePassword
  <1>4. \/ \E r \in Requests : OpenAccount(r) \/ MintPassword(r) \/ ChangePassword(r)
        \/ password' = password
    BY OutsideStep DEF Next, Proceed, Outside, vars, Lock, SendMail, MarkSent, Fail, Unlock, Crash
  <1>5. QED
    BY <1>1, <1>2, <1>3, <1>4

LEMMA SeenStep ==
  ASSUME TypeOK, AttemptsCounted, SeenExists, [Next]_vars
  PROVE  SeenExists'
  <1>0. /\ pc \in [Requests -> Pcs] /\ local \in [Requests -> Locals] /\ reg \in Registration
        /\ \A r \in Requests : local[r].seen \in Requests \cup {None}
        /\ reg.dealership \in Requests \cup {None}
    BY DEF TypeOK, Pcs, Locals, Registration
  <1>1. \A d \in Requests : password[d] # None => password'[d] # None
    BY AccountsStep
  <1> USE <1>0, <1>1 DEF SeenExists, Goto, Locked
  <1>2. CASE UNCHANGED vars
    BY <1>2 DEF vars
  <1>3. ASSUME NEW r \in Requests, Outside(r)
        PROVE  SeenExists'
    BY <1>3, OutsideStep DEF Elsewhere
  <1>4. ASSUME NEW r \in Requests, Lock(r)
        PROVE  SeenExists'
    <2>1. CASE reg.sent \/ reg.lock # None
      <3>1. PICK x \in {"ok", "refused", "clear", "token"} : pc' = [pc EXCEPT ![r] = x]
        BY <1>4, <2>1, Returns DEF Lock
      <3>2. QED
        BY <1>4, <2>1, <3>1 DEF Lock
    <2>2. CASE ~reg.sent /\ reg.lock = None
      BY <1>4, <2>2, InsideStep DEF Lock, Elsewhere, Registration
    <2>3. QED
      BY <2>1, <2>2
  <1>5. ASSUME NEW r \in Requests, OpenAccount(r)
        PROVE  SeenExists'
    <2>1. password'[r] # None
      BY <1>5, Passwords, AttemptIsAttempt DEF OpenAccount, TypeOK
    <2>2. QED
      BY <1>5, <2>1, InsideStep DEF OpenAccount, Elsewhere, Registration
  <1>6. ASSUME NEW r \in Requests, MintPassword(r) \/ SendMail(r) \/ Fail(r) \/ Crash(r)
        PROVE  SeenExists'
    BY <1>6, InsideStep DEF MintPassword, SendMail, Fail, Crash, Elsewhere
  <1>7. ASSUME NEW r \in Requests, MarkSent(r) \/ Unlock(r)
        PROVE  SeenExists'
    <2>1. PICK x \in {"ok", "refused", "clear", "token"} : pc' = [pc EXCEPT ![r] = x]
      BY <1>7, Returns DEF MarkSent, Unlock
    <2>2. reg'.dealership = reg.dealership /\ password' = password
      BY <1>7 DEF MarkSent, Unlock, Registration
    <2>3. QED
      BY <1>7, <2>1, <2>2, InsideStep DEF Elsewhere
  <1>8. ASSUME NEW r \in Requests, ChangePassword(r)
        PROVE  SeenExists'
    BY <1>8 DEF ChangePassword
  <1>9. QED
    BY <1>2, <1>3, <1>4, <1>5, <1>6, <1>7, <1>8 DEF Next, Proceed, Outside

LEMMA CatchStep ==
  ASSUME TypeOK, AttemptsCounted, CatchExplained, [Next]_vars
  PROVE  CatchExplained'
  <1>0. pc \in [Requests -> Pcs] /\ local \in [Requests -> Locals]
    BY DEF TypeOK, Pcs
  <1> USE <1>0 DEF CatchExplained, Goto, Locked
  <1>1. CASE UNCHANGED vars
    BY <1>1 DEF vars, attempt
  <1>2. ASSUME NEW r \in Requests, Outside(r)
        PROVE  CatchExplained'
    BY <1>2, OutsideStep DEF Elsewhere
  <1>3. ASSUME NEW r \in Requests, Lock(r)
        PROVE  CatchExplained'
    <2>1. CASE reg.sent \/ reg.lock # None
      BY <1>3, <2>1, InsideStep, Returns DEF Lock, Elsewhere
    <2>2. CASE ~reg.sent /\ reg.lock = None
      BY <1>3, <2>2, InsideStep DEF Lock, Elsewhere
    <2>3. QED
      BY <2>1, <2>2
  <1>4. ASSUME NEW r \in Requests,
               OpenAccount(r) \/ MintPassword(r) \/ SendMail(r) \/ Fail(r) \/ Crash(r)
        PROVE  CatchExplained'
    BY <1>4, InsideStep DEF OpenAccount, MintPassword, SendMail, Fail, Crash, Elsewhere
  <1>5. ASSUME NEW r \in Requests, MarkSent(r) \/ Unlock(r)
        PROVE  CatchExplained'
    BY <1>5, InsideStep, Returns DEF MarkSent, Unlock, Elsewhere
  <1>6. ASSUME NEW r \in Requests, ChangePassword(r)
        PROVE  CatchExplained'
    BY <1>6 DEF ChangePassword, attempt
  <1>7. QED
    BY <1>1, <1>2, <1>3, <1>4, <1>5, <1>6 DEF Next, Proceed, Outside

\* Who opened an account keeps the lock until the registration is marked or it fails.
LEMMA AccountsHeldStep ==
  ASSUME TypeOK, AttemptsCounted, LockExplained, SeenExists, CatchExplained, AccountsHeld,
         [Next]_vars
  PROVE  AccountsHeld'
  <1>0. reg \in Registration
    BY DEF TypeOK
  <1>1. \A d \in Requests : password'[d] # None => password[d] # None \/ OpenAccount(d)
    BY AccountsStep
  <1>2. failures \subseteq failures' /\ (reg.sent => reg'.sent)
    BY <1>0, OutsideStep DEF Next, Proceed, Outside, vars, Lock, OpenAccount, MintPassword, SendMail,
       MarkSent, Fail, Unlock, Crash, ChangePassword, Registration
  <1>3. ASSUME NEW q \in Requests, reg.lock = q, reg'.lock # q
        PROVE  reg'.sent \/ \E a \in failures' : a[1] = q
    <2>1. q # None
      BY OnboardingAssumption
    <2>2. ASSUME NEW r \in Requests, MarkSent(r)
          PROVE  reg'.sent
      BY <1>0, <2>2 DEF MarkSent, Registration
    <2>3. ASSUME NEW r \in Requests, Unlock(r)
          PROVE  \E a \in failures' : a[1] = q
      <3>1. r = q
        BY <1>0, <1>3, <2>3 DEF Unlock, Registration
      <3>2. attempt(q) \in failures
        BY <2>3, <3>1 DEF CatchExplained, Unlock
      <3>3. QED
        BY <1>2, <3>2 DEF attempt
    <2>4. \E r \in Requests : MarkSent(r) \/ Unlock(r)
      BY <1>0, <1>3, <2>1, OutsideStep DEF Next, Proceed, Outside, vars, Lock, OpenAccount,
         MintPassword, SendMail, Fail, Crash, ChangePassword, Registration
    <2>5. QED
      BY <2>2, <2>3, <2>4
  <1>4. ASSUME NEW q \in Requests, password'[q] # None
        PROVE  reg'.sent \/ reg'.lock = q \/ \E a \in failures' : a[1] = q
    <2>1. CASE OpenAccount(q)
      BY <1>0, <2>1 DEF OpenAccount, LockExplained, Locked, Registration
    <2>2. CASE ~OpenAccount(q)
      BY <1>1, <1>2, <1>3, <1>4, <2>2 DEF AccountsHeld
    <2>3. QED
      BY <2>1, <2>2
  <1>5. QED
    BY <1>4 DEF AccountsHeld

LEMMA AccountsExplainedStep ==
  ASSUME TypeOK, AttemptsCounted, LockExplained, SentUnlocked, SeenExists, AccountsHeld,
         AccountsExplained, [Next]_vars
  PROVE  AccountsExplained'
  <1>1. \A d \in Requests : password'[d] # None => password[d] # None \/ OpenAccount(d)
    BY AccountsStep
  <1>2. failures \subseteq failures'
    BY OutsideStep DEF Next, Proceed, Outside, vars, Lock, OpenAccount, MintPassword, SendMail,
       MarkSent, Fail, Unlock, Crash, ChangePassword
  <1>3. ASSUME NEW r \in Requests, NEW s \in Requests, r # s, OpenAccount(r), password[s] # None
        PROVE  \E a \in failures : a[1] = s
    <2>1. reg.lock = r /\ r # None
      BY <1>3, OnboardingAssumption DEF OpenAccount, LockExplained, Locked
    <2>2. QED
      BY <1>3, <2>1 DEF SentUnlocked, AccountsHeld
  <1>4. ASSUME NEW r \in Requests, NEW s \in Requests, r # s, OpenAccount(r)
        PROVE  ~OpenAccount(s)
    BY <1>4 DEF OpenAccount, LockExplained, Locked
  <1>5. ASSUME NEW r \in Requests, NEW s \in Requests, r # s,
               password'[r] # None, password'[s] # None
        PROVE  \E a \in failures' : a[1] \in {r, s}
    <2>1. CASE OpenAccount(r)
      BY <1>1, <1>2, <1>3, <1>4, <1>5, <2>1
    <2>2. CASE OpenAccount(s)
      BY <1>1, <1>2, <1>3, <1>4, <1>5, <2>2
    <2>3. CASE ~OpenAccount(r) /\ ~OpenAccount(s)
      BY <1>1, <1>2, <1>5, <2>3 DEF AccountsExplained
    <2>4. QED
      BY <2>1, <2>2, <2>3
  <1>6. QED
    BY <1>5 DEF AccountsExplained

-----------------------------------------------------------------------------
(* Mails.                                                                  *)

LEMMA MailsStep ==
  ASSUME TypeOK, AttemptsCounted, LockExplained, SentUnlocked, MailsHeld, MailsExplained,
         [Next]_vars
  PROVE  MailsHeld' /\ MailsExplained'
  <1>0. /\ pc \in [Requests -> Pcs] /\ reg \in Registration
        /\ \A a \in mails : a[1] \in Requests /\ a[1] # None
    BY OnboardingAssumption DEF TypeOK, Pcs, Attempts
  <1> USE <1>0 DEF MailsHeld, MailsExplained, Goto
  <1>1. CASE UNCHANGED vars
    BY <1>1 DEF vars, attempt
  <1>2. ASSUME NEW r \in Requests, Outside(r)
        PROVE  MailsHeld' /\ MailsExplained'
    <2>1. \A a \in mails : pc[a[1]] \in {"mark", "crashed"} => a[1] # r
      BY <1>2, OutsideStep DEF Locked
    <2>2. QED
      BY <1>2, <2>1, OutsideStep DEF Elsewhere
  <1>3. ASSUME NEW r \in Requests, Lock(r)
        PROVE  MailsHeld' /\ MailsExplained'
    <2>1. CASE reg.sent \/ reg.lock # None
      <3>1. \A a \in mails : pc[a[1]] \in {"mark", "crashed"} => a[1] # r
        BY <1>3 DEF Lock
      <3>2. UNCHANGED <<reg, mails, failures>>
        BY <1>3, <2>1 DEF Lock
      <3>3. QED
        BY <1>3, <3>1, <3>2, InsideStep DEF Elsewhere
    <2>2. CASE ~reg.sent /\ reg.lock = None
      BY <1>3, <2>2 DEF Lock
    <2>3. QED
      BY <2>1, <2>2
  <1>4. ASSUME NEW r \in Requests, OpenAccount(r) \/ MintPassword(r)
        PROVE  MailsHeld' /\ MailsExplained'
    <2>1. reg'.lock = reg.lock /\ reg'.sent = reg.sent /\ mails' = mails /\ failures' = failures
      BY <1>4 DEF OpenAccount, MintPassword, Registration
    <2>2. \A a \in mails : pc[a[1]] \in {"mark", "crashed"} => a[1] # r
      BY <1>4 DEF OpenAccount, MintPassword
    <2>3. QED
      BY <1>4, <2>1, <2>2, InsideStep DEF Elsewhere
  <1>5. ASSUME NEW r \in Requests, SendMail(r)
        PROVE  MailsHeld' /\ MailsExplained'
    <2>1. pc[r] = "mail" /\ reg.lock = r /\ ~reg.sent
      BY <1>5, OnboardingAssumption DEF SendMail, LockExplained, SentUnlocked, Locked
    <2>2. mails \ failures = {}
      BY <2>1
    <2>3. \A a \in (mails \ failures)' : a = attempt(r)
      BY <1>5, <2>2 DEF SendMail
    <2>4. attempt(r)[1] = r
      BY DEF attempt
    <2>5. pc'[r] = "mark" /\ reg' = reg /\ attempt(r)' = attempt(r)
      BY <1>5, InsideStep DEF SendMail
    <2>6. QED
      BY <2>1, <2>3, <2>4, <2>5
  <1>6. ASSUME NEW r \in Requests, MarkSent(r)
        PROVE  MailsHeld' /\ MailsExplained'
    BY <1>6 DEF MarkSent, Registration
  <1>7. ASSUME NEW r \in Requests, Fail(r)
        PROVE  MailsHeld' /\ MailsExplained'
    <2>1. failures' = failures \cup {attempt(r)} /\ mails' = mails /\ reg' = reg
      BY <1>7 DEF Fail
    <2>2. pc[r] # "crashed"
      BY <1>7 DEF Fail
    <2>3. \A a \in (mails \ failures)' : ~reg.sent => a[1] # r
      BY <2>1, <2>2
    <2>4. QED
      BY <1>7, <2>1, <2>3, InsideStep DEF Elsewhere
  <1>8. ASSUME NEW r \in Requests, Unlock(r)
        PROVE  MailsHeld' /\ MailsExplained'
    <2>1. \A a \in mails : pc[a[1]] \in {"mark", "crashed"} => a[1] # r
      BY <1>8 DEF Unlock
    <2>2. reg' = reg \/ (reg.lock = r /\ reg'.sent = reg.sent)
      BY <1>8 DEF Unlock, Registration
    <2>3. mails' = mails /\ failures' = failures
      BY <1>8 DEF Unlock
    <2>4. QED
      BY <1>8, <2>1, <2>2, <2>3, InsideStep DEF Elsewhere
  <1>9. ASSUME NEW r \in Requests, Crash(r)
        PROVE  MailsHeld' /\ MailsExplained'
    <2>1. pc'[r] = "crashed" /\ UNCHANGED <<reg, mails, failures>>
      BY <1>9 DEF Crash
    <2>2. QED
      BY <1>9, <2>1, InsideStep DEF Elsewhere
  <1>10. ASSUME NEW r \in Requests, ChangePassword(r)
        PROVE  MailsHeld' /\ MailsExplained'
    BY <1>10 DEF ChangePassword, attempt
  <1>11. QED
    BY <1>1, <1>2, <1>3, <1>4, <1>5, <1>6, <1>7, <1>8, <1>9, <1>10 DEF Next, Proceed, Outside

\* What a step does to the passwords that the mails' attempts minted.
LEMMA OpensStep ==
  ASSUME TypeOK, AttemptsCounted, LockExplained, SentUnlocked, SeenExists, MailedOpens,
         CredentialsWork, [Next]_vars
  PROVE  MailedOpens' /\ CredentialsWork'
  <1>0. /\ pc \in [Requests -> Pcs] /\ reg \in Registration
        /\ password \in [Requests -> Attempts \cup {None, Own}]
        /\ \A r \in Requests : local[r].seen \in Requests \cup {None} /\ r # None
    BY OnboardingAssumption DEF TypeOK, Pcs, Locals
  <1> USE <1>0 DEF MailedOpens, CredentialsWork, Goto
  <1>1. CASE UNCHANGED vars
    BY <1>1 DEF vars, attempt
  <1>2. ASSUME NEW r \in Requests, Outside(r)
        PROVE  MailedOpens' /\ CredentialsWork'
    BY <1>2, OutsideStep DEF Elsewhere, Locked
  <1>3. ASSUME NEW r \in Requests, Lock(r)
        PROVE  MailedOpens' /\ CredentialsWork'
    <2>1. pc'[r] \notin {"mail", "mark"}
      BY <1>3, Returns DEF Lock
    <2>2. reg'.sent = reg.sent /\ mails' = mails /\ password' = password
      BY <1>3 DEF Lock, Registration
    <2>3. QED
      BY <1>3, <2>1, <2>2, InsideStep DEF Elsewhere
  <1>4. ASSUME NEW r \in Requests, OpenAccount(r) \/ MintPassword(r)
        PROVE  MailedOpens' /\ CredentialsWork'
    <2>1. \A q \in Requests \ {r} : pc[q] \notin {"mail", "mark"}
      BY <1>4 DEF OpenAccount, MintPassword, LockExplained, Locked
    <2>2. ~reg'.sent
      BY <1>4 DEF OpenAccount, MintPassword, LockExplained, SentUnlocked, Locked, Registration
    <2>3. \E d \in Requests : password'[d] = attempt(r)
      BY <1>4 DEF OpenAccount, MintPassword, SeenExists
    <2>4. pc'[r] = "mail" /\ attempt(r)' = attempt(r)
      BY <1>4, InsideStep DEF OpenAccount, MintPassword
    <2>5. QED
      BY <1>4, <2>1, <2>2, <2>3, <2>4, InsideStep DEF Elsewhere
  <1>5. ASSUME NEW r \in Requests, SendMail(r)
        PROVE  MailedOpens' /\ CredentialsWork'
    <2>1. pc[r] = "mail" /\ pc'[r] = "mark" /\ attempt(r)' = attempt(r)
      BY <1>5, InsideStep DEF SendMail
    <2>2. mails' = mails \cup {attempt(r)} /\ password' = password /\ reg' = reg
      BY <1>5 DEF SendMail
    <2>3. QED
      BY <1>5, <2>1, <2>2, InsideStep DEF Elsewhere
  <1>6. ASSUME NEW r \in Requests, MarkSent(r)
        PROVE  MailedOpens' /\ CredentialsWork'
    <2>1. pc[r] = "mark" /\ mails' = mails /\ password' = password
      BY <1>6 DEF MarkSent
    <2>2. pc'[r] \notin {"mail", "mark"}
      <3>1. Return(r, FALSE)
        BY <1>6 DEF MarkSent
      <3>2. PICK x \in {"ok", "refused", "clear", "token"} : pc' = [pc EXCEPT ![r] = x]
        BY <3>1, Returns
      <3>3. QED
        BY <3>2
    <2>3. \E d \in Requests : password[d] \in mails \cup {Own}
      <3>1. attempt(r) \in mails
        BY <2>1
      <3>2. PICK d \in Requests : password[d] \in {attempt(r), Own}
        BY <2>1
      <3>3. QED
        BY <3>1, <3>2
    <2>4. CredentialsWork'
      BY <2>1, <2>3
    <2>5. MailedOpens'
      BY <1>6, <2>1, <2>2, InsideStep DEF Elsewhere
    <2>6. QED
      BY <2>4, <2>5
  <1>7. ASSUME NEW r \in Requests, Fail(r) \/ Unlock(r) \/ Crash(r)
        PROVE  MailedOpens' /\ CredentialsWork'
    <2>1. pc'[r] \notin {"mail", "mark"}
      BY <1>7, Returns DEF Fail, Unlock, Crash
    <2>2. reg'.sent = reg.sent /\ mails' = mails /\ password' = password
      BY <1>7 DEF Fail, Unlock, Crash, Registration
    <2>3. QED
      BY <1>7, <2>1, <2>2, InsideStep DEF Elsewhere
  <1>8. ASSUME NEW r \in Requests, ChangePassword(r)
        PROVE  MailedOpens' /\ CredentialsWork'
    <2>1. \A q \in Requests : attempt(q)' = attempt(q)
      BY <1>8 DEF ChangePassword, attempt
    <2>2. \A d \in Requests : password'[d] \in {password[d], Own}
      BY <1>8 DEF ChangePassword
    <2>3. \A d \in Requests : password[d] = Own => password'[d] = Own
      BY <1>8 DEF ChangePassword
    <2>4. QED
      BY <1>8, <2>1, <2>2, <2>3 DEF ChangePassword
  <1>9. QED
    BY <1>1, <1>2, <1>3, <1>4, <1>5, <1>6, <1>7, <1>8 DEF Next, Proceed, Outside

-----------------------------------------------------------------------------
(* The theorems.                                                           *)

\* The inductive invariant: what the lock's holder has done, and why others have no lock.
THEOREM WelcomeInvariant == Spec => []WelcomeInv
  <1>1. Init => WelcomeInv
    <2>1. ASSUME Init
          PROVE  TypeOK
      <3>1. NoLocals \in Locals
        BY DEF NoLocals, Locals
      <3>2. QED
        BY <2>1, <3>1 DEF Init, TypeOK, Registration
    <2>2. ASSUME Init
          PROVE  AttemptsCounted /\ LockExplained /\ SentUnlocked
      BY <2>1, <2>2, OnboardingAssumption
         DEF Init, AttemptsCounted, NoLocals, LockExplained, SentUnlocked, Locked
    <2>3. ASSUME Init
          PROVE  SeenExists /\ CatchExplained /\ MailedOpens
      BY <2>3 DEF Init, NoLocals, SeenExists, CatchExplained, MailedOpens
    <2>4. ASSUME Init
          PROVE  MailsHeld /\ MailsExplained /\ AccountsHeld /\ AccountsExplained /\ CredentialsWork
      BY <2>4 DEF Init, MailsHeld, MailsExplained, AccountsHeld, AccountsExplained, CredentialsWork
    <2>5. QED
      BY <2>1, <2>2, <2>3, <2>4 DEF WelcomeInv
  <1>2. WelcomeInv /\ [Next]_vars => WelcomeInv'
    BY TypeStep, AttemptsStep, LockInvStep, SeenStep, CatchStep, AccountsHeldStep,
       AccountsExplainedStep, MailsStep, OpensStep DEF WelcomeInv
  <1>3. QED
    BY <1>1, <1>2, PTL DEF Spec

\* Rows, mails and requests have their types; a request never makes a third attempt.
THEOREM OnboardingTypes == Spec => []TypeOK
  BY WelcomeInvariant, PTL DEF WelcomeInv

\* Whoever is between updateMany and the row's unlocking holds the lock, alone.
THEOREM WelcomeLocked == Spec => []LockExplained
  BY WelcomeInvariant, PTL DEF WelcomeInv

\* Of all the welcome mails at most one came from an attempt without an error.
THEOREM WelcomedOnce == Spec => []MailsExplained
  BY WelcomeInvariant, PTL DEF WelcomeInv

\* A registration gets a second dealership only after an attempt has failed.
THEOREM SecondAccountsExplained == Spec => []AccountsExplained
  BY WelcomeInvariant, PTL DEF WelcomeInv

\* Marked means that the owner can sign in with what was mailed.
THEOREM WelcomedCanSignIn == Spec => []CredentialsWork
  BY WelcomeInvariant, PTL DEF WelcomeInv

\* After the mark nobody mails or overwrites a password.
THEOREM WelcomedIsFinal == Spec => WelcomedStays
  <1> DEFINE Kept == reg.sent =>
        /\ mails' = mails
        /\ \A d \in Requests : password'[d] \in {password[d], Own}
  <1>1. WelcomeInv /\ [Next]_vars => [Kept]_vars
    <2> SUFFICES ASSUME WelcomeInv, [Next]_vars, reg.sent
                 PROVE  /\ mails' = mails
                        /\ \A d \in Requests : password'[d] \in {password[d], Own}
      OBVIOUS
    <2>1. TypeOK /\ AttemptsCounted /\ LockExplained /\ SentUnlocked
      BY DEF WelcomeInv
    <2>2. \A r \in Requests : pc[r] \notin Locked
      BY <2>1, OnboardingAssumption DEF LockExplained, SentUnlocked
    <2>3. \A r \in Requests : ~OpenAccount(r) /\ ~MintPassword(r) /\ ~SendMail(r)
      BY <2>2 DEF OpenAccount, MintPassword, SendMail, Locked
    <2>4. CASE \E r \in Requests : ChangePassword(r)
      BY <2>1, <2>4 DEF ChangePassword, TypeOK
    <2>5. CASE ~\E r \in Requests : ChangePassword(r)
      <3>1. UNCHANGED <<mails, password>>
        BY <2>1, <2>3, <2>5, OutsideStep
           DEF Next, Proceed, Outside, vars, Lock, MarkSent, Fail, Unlock, Crash
      <3>2. QED
        BY <3>1
    <2>6. QED
      BY <2>4, <2>5
  <1>2. QED
    BY <1>1, WelcomeInvariant, PTL DEF Spec, WelcomedStays
=============================================================================

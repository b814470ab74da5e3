----------------------------- MODULE HashPool -----------------------------
(***************************************************************************)
(* The pool of threads that hash and compare passwords                     *)
(* (password-hash.js, password-hash.worker.js).  The main thread queues    *)
(* the tasks and hands them out; a thread takes a message, answers it, or  *)
(* stops.  What a thread sends waits until the main thread's event loop    *)
(* takes it, and then runs a listener to its end.                          *)
(***************************************************************************)
EXTENDS Requests, SequencesExt

CONSTANTS
  PoolSize,   \* POOL_SIZE
  MaxStops    \* threads that stop in this instance

ASSUME HashPoolAssumption ==
  PoolSize \in Nat \ {0} /\ MaxStops \in Nat /\ None \notin 1..MaxRequests

VARIABLES
  workers,   \* pool.workers: the worker in each slot
  pending,   \* pool.pending: the ids of the tasks nobody has taken
  worker,    \* the workers spawned so far, as the main thread knows them
  hasher,    \* their threads: running, with messages to take and events underway
  promise    \* what became of each task's promise

poolVars == <<workers, pending, worker, hasher, promise>>

\* The task ids, given out in turn: seq.
Tasks == 1..MaxRequests
Spawned == DOMAIN worker
NewWorker == [idle |-> TRUE, current |-> None, dead |-> FALSE]
NewHasher == [runs |-> TRUE, inbox |-> {}, events |-> {}]

\* A promise takes the first call and ignores the others; here they show.
Settled(promises, t, outcome) ==
  [promises EXCEPT ![t] = IF @ = "waiting" THEN outcome ELSE "twice"]

-----------------------------------------------------------------------------
(* dispatch: the queue's tasks go to the idle workers, in order, until none *)
(* is idle.  A task whose message cannot be posted is rejected.             *)

IdleSlots(s) == {i \in DOMAIN s.workers :
                   s.worker[s.workers[i]].idle /\ ~s.worker[s.workers[i]].dead}

HandOut(s, t, refused) ==
  IF IdleSlots(s) = {} THEN [s EXCEPT !.pending = Append(@, t)]
  ELSE IF t \in refused THEN [s EXCEPT !.promise = Settled(@, t, "refused")]
  ELSE LET w == s.workers[Min(IdleSlots(s))] IN
       [s EXCEPT !.worker[w].idle = FALSE, !.worker[w].current = t, !.hasher[w].inbox = @ \cup {t}]

\* Mutant: a listener leaves the queue to the next request.
DispatchNot(s) ==
  /\ workers' = s.workers /\ pending' = s.pending
  /\ worker' = s.worker /\ hasher' = s.hasher /\ promise' = s.promise

Dispatch(s) == \E refused \in SUBSET ToSet(s.pending) :
  LET after == FoldLeft(LAMBDA acc, t : HandOut(acc, t, refused), [s EXCEPT !.pending = <<>>], s.pending) IN
  /\ workers' = after.workers /\ pending' = after.pending
  /\ worker' = after.worker /\ hasher' = after.hasher /\ promise' = after.promise

Here == [workers |-> workers, pending |-> pending, worker |-> worker,
         hasher |-> hasher, promise |-> promise]

-----------------------------------------------------------------------------
\* runOnPool: the first task makes the pool.
EnsurePool(s) ==
  IF s.workers # <<>> THEN s
  ELSE [s EXCEPT !.workers = [i \in 1..PoolSize |-> i],
                 !.worker = [i \in 1..PoolSize |-> NewWorker],
                 !.hasher = [i \in 1..PoolSize |-> NewHasher]]

RunOnPool ==
  /\ begun < MaxRequests /\ begun' = begun + 1
  /\ Dispatch([EnsurePool(Here) EXCEPT !.pending = Append(@, begun'), !.promise[begun'] = "waiting"])
  /\ UNCHANGED <<pc, local>>

\* The listener for messages; a worker without a task has nothing to settle.
OnMessage(w) == \E m \in hasher[w].events : LET t == worker[w].current IN
  /\ m.kind = "message"
  /\ LET heard == [Here EXCEPT !.worker[w].current = None, !.worker[w].idle = TRUE,
                               !.hasher[w].events = @ \ {m}]
     IN IF t = None THEN DispatchNot(heard)
        ELSE Dispatch([heard EXCEPT !.promise = Settled(@, t,
               IF m.id # t THEN "stale" ELSE IF m.ok THEN "hashed" ELSE "failed")])
  /\ UNCHANGED handlerVars

\* failAndRespawn: of the error and the exit of a worker the first one counts.
FailAndRespawn(w, heard) ==
  LET t == worker[w].current
      new == Cardinality(Spawned) + 1
      failed == [heard EXCEPT
        !.worker = [v \in Spawned \cup {new} |->
                      IF v = new THEN NewWorker
                      ELSE IF v = w THEN [idle |-> TRUE, current |-> None, dead |-> TRUE] ELSE @[v]],
        !.hasher = [v \in Spawned \cup {new} |-> IF v = new THEN NewHasher ELSE @[v]],
        !.workers = [i \in DOMAIN @ |-> IF @[i] = w THEN new ELSE @[i]],
        !.promise = IF t = None THEN @ ELSE Settled(@, t, "failed")]
  IN IF worker[w].dead THEN DispatchNot(heard) ELSE Dispatch(failed)

\* What the thread sent is heard before its exit, but not before its error.
OnFailure(w) == \E e \in hasher[w].events :
  /\ e.kind = "error" \/ (e.kind = "exit" /\ hasher[w].events = {e})
  /\ FailAndRespawn(w, [Here EXCEPT !.hasher[w].events = @ \ {e}])
  /\ UNCHANGED handlerVars

-----------------------------------------------------------------------------
\* A thread's listener is asynchronous: of several messages any may be ready first.
HasherAnswers(w) == \E t \in hasher[w].inbox, ok \in BOOLEAN :
  /\ hasher[w].runs
  /\ hasher' = [hasher EXCEPT ![w].inbox = @ \ {t},
                              ![w].events = @ \cup {[kind |-> "message", id |-> t, ok |-> ok]}]
  /\ UNCHANGED <<workers, pending, worker, promise, handlerVars>>

\* It throws, or ends without a word; its messages are lost.
HasherStops(w) == \E throws \in BOOLEAN :
  /\ hasher[w].runs
  /\ Cardinality({v \in Spawned : ~hasher[v].runs}) < MaxStops
  /\ hasher' = [hasher EXCEPT ![w] =
       [runs |-> FALSE, inbox |-> {},
        events |-> @.events \cup {[kind |-> "exit"]} \cup (IF throws THEN {[kind |-> "error"]} ELSE {})]]
  /\ UNCHANGED <<workers, pending, worker, promise, handlerVars>>

-----------------------------------------------------------------------------
PoolInit ==
  /\ workers = <<>> /\ pending = <<>>
  /\ worker = <<>> /\ hasher = <<>>
  /\ promise = [t \in Tasks |-> "none"]

PoolNext ==
  \/ RunOnPool
  \/ \E w \in Spawned : OnMessage(w) \/ OnFailure(w) \/ HasherAnswers(w) \/ HasherStops(w)

PoolSpec == PoolInit /\ RequestsInit /\ [][PoolNext]_<<poolVars, handlerVars>>

-----------------------------------------------------------------------------
Waiting == {t \in Tasks : promise[t] = "waiting"}
HeldBy(t) == {w \in Spawned : worker[w].current = t}

\* No password check hangs, and none gets another's answer.  A task that waits
\* is in the queue, once, or with one worker, whose thread has its message or
\* has sent the answer, or the news that it stopped.  While tasks are queued no
\* worker is idle, though workers fail and are replaced.  No promise is settled
\* twice or by the answer to another task (runOnPool, dispatch, failAndRespawn
\* and the listeners of spawnWorker).
PoolSound ==
  /\ \A t \in Waiting :
       Cardinality({i \in DOMAIN pending : pending[i] = t}) + Cardinality(HeldBy(t)) = 1
  /\ \A t \in Tasks, w \in Spawned : w \in HeldBy(t) =>
       t \in Waiting /\ (t \in hasher[w].inbox \/ hasher[w].events # {})
  /\ pending # <<>> => \A i \in DOMAIN workers : ~worker[workers[i]].idle
  /\ \A t \in Tasks : promise[t] \notin {"stale", "twice"}

=============================================================================

------------------------------ MODULE Requests ------------------------------
(***************************************************************************)
(* How the backend serves requests: an Express handler, a socket callback  *)
(* or a worker's job is an async function, and anything may run between    *)
(* two of its awaits.  pc says which await a handler is at, local what it  *)
(* carries across it.  The components that extend this module say what the *)
(* awaits are.                                                             *)
(***************************************************************************)
EXTENDS Integers, FiniteSets, TLC

CONSTANTS
  Handlers,     \* the requests the backend serves at a time
  None,         \* SQL NULL
  MaxRequests   \* how many requests are made in this instance

ASSUME RequestsAssumption == MaxRequests \in Nat

VARIABLES pc, local, begun
handlerVars == <<pc, local, begun>>

Nothing == [on |-> None]

RequestsInit ==
  /\ pc = [h \in Handlers |-> "idle"]
  /\ local = [h \in Handlers |-> Nothing]
  /\ begun = 0

RequestsTypeOK(awaits) ==
  /\ pc \in [Handlers -> awaits \cup {"idle"}]
  /\ begun \in 0..MaxRequests
  /\ \A h \in Handlers : pc[h] = "idle" => local[h] = Nothing

InFlight == {h \in Handlers : pc[h] # "idle"}

Begin(h, await, carry) ==
  /\ pc[h] = "idle" /\ begun < MaxRequests
  /\ pc' = [pc EXCEPT ![h] = await]
  /\ local' = [local EXCEPT ![h] = carry]
  /\ begun' = begun + 1

Goto(h, await) == pc' = [pc EXCEPT ![h] = await] /\ UNCHANGED <<local, begun>>

\* What was carried, with something more.
With(more, carried) ==
  [f \in DOMAIN more \cup DOMAIN carried |-> IF f \in DOMAIN more THEN more[f] ELSE carried[f]]

\* On to the next await, with something more to carry.
Carry(h, await, more) ==
  /\ pc' = [pc EXCEPT ![h] = await]
  /\ local' = [local EXCEPT ![h] = With(more, @)]
  /\ UNCHANGED begun

\* The handler answers, or throws: it carries nothing any more.
Answer(h) ==
  /\ pc' = [pc EXCEPT ![h] = "idle"]
  /\ local' = [local EXCEPT ![h] = Nothing]
  /\ UNCHANGED begun

=============================================================================

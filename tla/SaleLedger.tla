----------------------------- MODULE SaleLedger -----------------------------
(***************************************************************************)
(* What the deal desk promises about a sale, without requests, tables or   *)
(* races.  A vehicle's sale is opened once, booked once and may then earn  *)
(* its sales rep one commission; nothing undoes any of it.                 *)
(***************************************************************************)
CONSTANT Vehicles

VARIABLES
  sale,    \* how far the sale of each vehicle has come
  earned   \* the vehicles whose booked sale has a commission

Stage == {"none", "opened", "booked"}

LedgerInit ==
  /\ sale = [v \in Vehicles |-> "none"]
  /\ earned = {}

\* The sale is on record: customer, date and amounts.
Open(v) ==
  /\ sale[v] = "none"
  /\ sale' = [sale EXCEPT ![v] = "opened"]
  /\ UNCHANGED earned

\* The sale's paperwork is filed, and final.
Book(v) ==
  /\ sale[v] = "opened"
  /\ sale' = [sale EXCEPT ![v] = "booked"]
  /\ UNCHANGED earned

Earn(v) ==
  /\ sale[v] = "booked"
  /\ v \notin earned
  /\ earned' = earned \cup {v}
  /\ UNCHANGED sale

LedgerNext == \E v \in Vehicles : Open(v) \/ Book(v) \/ Earn(v)

LedgerSpec == LedgerInit /\ [][LedgerNext]_<<sale, earned>>
=============================================================================

----------------------------- MODULE MCDealDesk -----------------------------
(***************************************************************************)
(* DealDesk for TLC: symmetric requests, and the mixes of operations the   *)
(* runs send.                                                              *)
(***************************************************************************)
EXTENDS DealDesk, TLC

Symmetry == Permutations(Requests) \cup Permutations(Vehicles)

\* Everything that can touch a sale while it is being written.
SaleOps == {"sell", "import", "draft", "approve", "reject", "set_status", "archive_rep"}

\* Losses and deletions only take a vehicle away from the desk.
SerialOps == AllOps \ {"loss", "delete"}

\* A sale for a rep who is paid, or for none.
AllOrNothing == {{}, {"rep", "commission"}}

\* A sale that completes another one may give a commission and leave the rep out.
PartlyGiven == {{"commission"}, Optional}
=============================================================================

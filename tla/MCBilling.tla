----------------------------- MODULE MCBilling -----------------------------
(***************************************************************************)
(* Billing for TLC: handlers and subscriptions are symmetric.              *)
(***************************************************************************)
EXTENDS Billing, TLC

Symmetry == Permutations(Handlers) \cup Permutations(Subs)
=============================================================================

---------------------------- MODULE MCInventory -----------------------------
(* Inventory on a small instance.  Its requests, vehicles, VINs, expenses
   and prices are interchangeable. *)
EXTENDS Inventory

Symmetry == Permutations(Handlers) \cup Permutations(Vehicles) \cup Permutations(Vins)
              \cup Permutations(Expenses) \cup Permutations(Prices)

=============================================================================

------------------------------ MODULE MCOwnership ------------------------------
(* Instances of Ownership for TLC. *)
EXTENDS Ownership, TLC

Symmetry == Permutations(Managers) \cup Permutations(Stores)
              \cup Permutations(Customers) \cup Permutations(Requests)
=============================================================================

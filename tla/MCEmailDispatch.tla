--------------------------- MODULE MCEmailDispatch ---------------------------
(* Instances of EmailDispatch for TLC. *)
EXTENDS EmailDispatch, TLC

AllOutcomes == {"accepted", "unconfirmed", "deferred", "refused"}
ConfirmedOutcomes == {"accepted", "deferred", "refused"}

Symmetry == Permutations(Customers) \cup Permutations(Instances) \cup Permutations(Requests)
=============================================================================

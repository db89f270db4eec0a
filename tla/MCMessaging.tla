----------------------------- MODULE MCMessaging -----------------------------
(* Instances of Messaging for TLC. *)
EXTENDS Messaging, TLC

Symmetry == Permutations(Staff) \cup Permutations(Messages) \cup Permutations(Requests)
=============================================================================

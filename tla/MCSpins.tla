------------------------------- MODULE MCSpins -------------------------------
(* Instances of Spins for TLC. *)
EXTENDS Spins, TLC
=============================================================================

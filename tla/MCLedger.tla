------------------------------- MODULE MCLedger -------------------------------
(* Instances of Ledger for TLC. *)
EXTENDS Ledger, TLC

Debits == {"debit"}
DebitsAndCredits == {"debit", "credit"}
OneUnit == {1}
Units == {1, 2}

Symmetry == Permutations(Customers) \cup Permutations(Entries) \cup Permutations(Requests)
=============================================================================

----------------------------- MODULE MCReferrals -----------------------------
(* Instances of Referrals for TLC. *)
EXTENDS Referrals, TLC

Fixed(minDebit, cap) ==
  [kind |-> "fixed", referrerBonus |-> 2, refereeBonus |-> 1,
   minDebit |-> minDebit, cap |-> cap]
Percentage(minDebit, cap) ==
  [kind |-> "percentage", referrerBonus |-> 50, refereeBonus |-> 0,
   minDebit |-> minDebit, cap |-> cap]

CappedTerms == {Fixed(1, 1)}
EditableTerms == {Fixed(1, 1), Fixed(2, 0)}
ShareTerms == {Percentage(1, 2), Percentage(3, 0)}
NoCorrections == {}
Unlimited == {0}
OneUse == {1}
OneUnit == {1}
Units == {1, 2}

Symmetry == Permutations(Customers) \cup Permutations(Evaluators)
=============================================================================

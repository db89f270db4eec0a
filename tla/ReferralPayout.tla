---------------------------- MODULE ReferralPayout ----------------------------
(***************************************************************************)
(* What the referral component promises about money: a redemption is       *)
(* settled at most once, by paying both sides in one step or by refusing,  *)
(* and what was paid never changes afterwards.                             *)
(***************************************************************************)
EXTENDS Naturals

CONSTANTS Referees, Sides

VARIABLES
  stage,  \* how far each referee's redemption has come
  paid    \* what each side of it was paid

Nothing == [s \in Sides |-> 0]

Init ==
  /\ stage = [r \in Referees |-> "none"]
  /\ paid = [r \in Referees |-> Nothing]

Redeem(r) ==
  /\ stage[r] = "none"
  /\ stage' = [stage EXCEPT ![r] = "open"]
  /\ UNCHANGED paid

Pay(r) ==
  /\ stage[r] = "open"
  /\ stage' = [stage EXCEPT ![r] = "paid"]
  /\ paid'[r] \in [Sides -> Nat]
  /\ paid' = [paid EXCEPT ![r] = paid'[r]]

Refuse(r) ==
  /\ stage[r] = "open"
  /\ stage' = [stage EXCEPT ![r] = "refused"]
  /\ UNCHANGED paid

Next == \E r \in Referees : Redeem(r) \/ Pay(r) \/ Refuse(r)

Spec == Init /\ [][Next]_<<stage, paid>>
=============================================================================

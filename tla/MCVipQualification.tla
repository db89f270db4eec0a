-------------------------- MODULE MCVipQualification --------------------------
(* Instances of VipQualification for TLC. *)
EXTENDS VipQualification, TLC

Deposits == {1}
=============================================================================

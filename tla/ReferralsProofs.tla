--------------------------- MODULE ReferralsProofs ---------------------------
(* Theorems about Referrals for every set of customers, programs, terms    *)
(* and concurrent handlers.                                                *)
EXTENDS Referrals, Sums, FiniteSetTheorems, TLAPS

(* A reward computed from configured terms and a sum of deposits is a      *)
(* natural number of minor units (rewardAmount).                           *)
LEMMA RewardsType ==
  ASSUME NEW t \in Terms \cup {NoTerms}, NEW d \in Nat
  PROVE  Rewards(t, d) \in [Sides -> Nat]
<1>1. t.referrerBonus \in Nat /\ t.refereeBonus \in Nat
  BY ReferralsAssumption DEF NoTerms
<1>2. ASSUME NEW b \in Nat PROVE RewardAmount(b, t.kind, d) \in Nat
  <2>1. d * b \in Nat
    OBVIOUS
  <2>2. ASSUME NEW n \in Nat PROVE (n + 50) \div 100 \in Nat
    OBVIOUS
  <2> QED BY <2>1, <2>2 DEF RewardAmount
<1> QED BY <1>1, <1>2 DEF Rewards

LEMMA CodesType ==
  ASSUME NEW k \in Codes
  PROVE  k[1] \in Customers /\ k[2] \in Programs
BY DEF Codes

LEMMA InitTypeOK == Init => TypeOK
<1> SUFFICES ASSUME Init PROVE TypeOK
  OBVIOUS
<1>1. NoProgram \in ProgramRow /\ NoCode \in CodeRow
  BY DEF NoProgram, NoCode, NoTerms, ProgramRow, CodeRow, Windows
<1>2. NoReferral \in ReferralRow
  BY DEF NoReferral, ReferralRow
<1>3. [pc |-> "absent", code |-> None] \in Request
  BY DEF Request
<1>4. Idle \in Handler /\ Idle.pc = "idle"
  BY DEF Idle, Handler
<1> QED BY <1>1, <1>2, <1>3, <1>4 DEF Init, TypeOK

(* A request that goes on, or gives up, keeps its code.                    *)
LEMMA RequestMoves ==
  ASSUME NEW s \in Request, NEW pc \in {"attach", "done"},
         pc = "attach" => s.code \in Codes
  PROVE  [s EXCEPT !.pc = pc] \in Request
BY DEF Request

(* A handler that goes on keeps its referee.                               *)
LEMMA HandlerMoves ==
  ASSUME NEW h \in Handler, h.pc # "idle",
         NEW pc \in {"valid", "cap", "grant", "reject"}
  PROVE  /\ [h EXCEPT !.pc = pc] \in Handler
         /\ [h EXCEPT !.pc = pc].referee = h.referee
         /\ \A d \in Nat : /\ [h EXCEPT !.pc = pc, !.deposited = d] \in Handler
                           /\ [h EXCEPT !.pc = pc, !.deposited = d].referee = h.referee
BY DEF Handler

LEMMA IdleType == Idle \in Handler /\ Idle.pc = "idle"
BY DEF Idle, Handler

(* A handler that only goes on, reading, disturbs no type.                 *)
LEMMA HandlerStep ==
  ASSUME TypeOK, NEW e \in Evaluators, eval[e].pc # "idle",
         NEW pc \in {"valid", "cap", "grant", "reject"},
         eval' = [eval EXCEPT ![e].pc = pc],
         UNCHANGED <<tables, signup, feed, failures>>
  PROVE  TypeOK'
<1> DEFINE h == [eval[e] EXCEPT !.pc = pc]
<1>1. h \in Handler /\ h.referee = eval[e].referee
  BY HandlerMoves DEF TypeOK
<1>2. eval' = [eval EXCEPT ![e] = h]
  OBVIOUS
<1> HIDE DEF h
<1> QED BY <1>1, <1>2 DEF TypeOK, tables, feed

LEMMA NextTypeOK == TypeOK /\ [Next]_vars => TypeOK'
<1> SUFFICES ASSUME TypeOK, [Next]_vars PROVE TypeOK'
  OBVIOUS
<1> USE DEF tables, feed
<1>1. CASE \E p \in Programs, t \in Terms, w \in Windows : CreateProgram(p, t, w)
  BY <1>1 DEF CreateProgram, TypeOK, ProgramRow
<1>2. CASE \E p \in Programs, t \in Terms, w \in Windows, on \in BOOLEAN :
             UpdateProgram(p, t, on, w)
  BY <1>2 DEF UpdateProgram, TypeOK, ProgramRow
<1>3. CASE \E k \in Codes, limit \in UseLimits : AssignCode(k, limit)
  BY <1>3, ReferralsAssumption DEF AssignCode, TypeOK, CodeRow
<1>4. CASE \E c \in Customers : CreateCustomer(c)
  <2> PICK c \in Customers : CreateCustomer(c)
    BY <1>4
  <2>1. \A k \in Codes : [pc |-> "lookup", code |-> k] \in Request
    BY DEF Request
  <2>2. [signup[c] EXCEPT !.pc = "done"] \in Request
    BY RequestMoves DEF TypeOK
  <2>3. signup' \in [Customers -> Request]
    BY <2>1, <2>2 DEF CreateCustomer, TypeOK
  <2> QED BY <2>3 DEF CreateCustomer, TypeOK
<1>5. CASE \E c \in Customers, a \in Amounts : RecordDeposit(c, a) \/ RemoveDeposit(c, a)
  <2> PICK c \in Customers, a \in Amounts : RecordDeposit(c, a) \/ RemoveDeposit(c, a)
    BY <1>5
  <2>1. a \in Nat /\ MaxDeposit \in Nat
    BY ReferralsAssumption
  <2>2. CASE RecordDeposit(c, a)
    BY <2>1, <2>2 DEF RecordDeposit, TypeOK
  <2>3. CASE RemoveDeposit(c, a)
    BY <2>1, <2>3 DEF RemoveDeposit, TypeOK
  <2> QED BY <2>2, <2>3
<1>6. CASE \E c \in Customers, a \in Corrections :
             RecordCorrection(c, a) \/ RemoveCorrection(c, a)
  <2> PICK c \in Customers, a \in Corrections :
             RecordCorrection(c, a) \/ RemoveCorrection(c, a)
    BY <1>6
  <2>1. a \in Nat
    BY ReferralsAssumption
  <2>2. CASE RecordCorrection(c, a)
    BY <2>1, <2>2 DEF RecordCorrection, TypeOK
  <2>3. CASE RemoveCorrection(c, a)
    BY <2>1, <2>3 DEF RemoveCorrection, TypeOK
  <2> QED BY <2>2, <2>3
<1>7. CASE \E c \in Customers : RecordWithdrawal(c)
  BY <1>7 DEF RecordWithdrawal, TypeOK
<1>8. CASE \E p \in Programs : WindowPasses(p)
  <2> PICK p \in Programs : WindowPasses(p)
    BY <1>8
  <2>1. \A w \in Windows : [program[p] EXCEPT !.window = w] \in ProgramRow
    BY DEF TypeOK, ProgramRow
  <2> QED BY <2>1 DEF WindowPasses, TypeOK, Windows
<1>9. CASE \E k \in Codes : CodeExpires(k)
  <2> PICK k \in Codes : CodeExpires(k)
    BY <1>9
  <2>1. [code[k] EXCEPT !.expired = TRUE] \in CodeRow
    BY DEF TypeOK, CodeRow
  <2> QED BY <2>1 DEF CodeExpires, TypeOK
<1>10. CASE \E c \in Customers : AttachLookup(c)
  <2> PICK c \in Customers : AttachLookup(c)
    BY <1>10
  <2>1. signup[c] \in Request /\ signup[c].code \in Codes
    BY DEF AttachLookup, TypeOK, Request
  <2> QED BY <2>1, RequestMoves DEF AttachLookup, TypeOK
<1>11. CASE \E c \in Customers : AttachReferral(c)
  <2> PICK c \in Customers : AttachReferral(c)
    BY <1>11
  <2> DEFINE k == signup[c].code
  <2>1. k \in Codes /\ k[1] \in Customers
    BY CodesType DEF AttachReferral, TypeOK, Request
  <2>2. [NoReferral EXCEPT !.status = "pending", !.code = k] \in ReferralRow
    BY <2>1 DEF NoReferral, ReferralRow, Claimable
  <2>3. [NoReferral EXCEPT !.status = "pending", !.code = k].status # "none"
    BY DEF NoReferral
  <2>4. \A row \in CodeRow : [row EXCEPT !.uses = @ + 1] \in CodeRow
    BY DEF CodeRow
  <2>5. [signup[c] EXCEPT !.pc = "done"] \in Request
    BY RequestMoves DEF TypeOK
  <2> HIDE DEF k
  <2>6. referral' \in [Customers -> ReferralRow] /\ code' \in [Codes -> CodeRow]
    BY <2>2, <2>4 DEF AttachReferral, TypeOK, k
  <2>7. \A e \in Evaluators :
           eval'[e].pc # "idle" => referral'[eval'[e].referee].status # "none"
    BY <2>3 DEF AttachReferral, TypeOK, Handler, k
  <2> QED BY <2>1, <2>5, <2>6, <2>7 DEF AttachReferral, TypeOK, k
<1>12. CASE \E e \in Evaluators, r \in Customers : LoadReferral(e, r)
  <2> PICK e \in Evaluators, r \in Customers : LoadReferral(e, r)
    BY <1>12
  <2>1. CASE referral[r].status \in Claimable
    <3>1. ProgramOf(r) \in Programs
      BY <2>1, CodesType DEF TypeOK, ProgramOf, Claimable, ReferralRow
    <3>2. program[ProgramOf(r)].terms \in Terms \cup {NoTerms}
      BY <3>1 DEF TypeOK, ProgramRow
    <3> DEFINE h == [pc |-> "sum", referee |-> r, deposited |-> 0,
                     terms |-> program[ProgramOf(r)].terms]
    <3>3. h \in Handler /\ h.referee = r
      BY <3>2 DEF Handler
    <3>4. eval' = [eval EXCEPT ![e] = h]
      BY <2>1 DEF LoadReferral
    <3> HIDE DEF h
    <3> QED BY <2>1, <3>3, <3>4 DEF LoadReferral, TypeOK, Claimable
  <2>2. CASE referral[r].status \notin Claimable
    BY <2>2 DEF LoadReferral, TypeOK
  <2> QED BY <2>1, <2>2
<1>13. CASE \E e \in Evaluators : SumDebits(e)
  <2> PICK e \in Evaluators : SumDebits(e)
    BY <1>13
  <2> DEFINE d == deposits[eval[e].referee]
             h == [eval[e] EXCEPT !.pc = "valid", !.deposited = d]
  <2>1. eval[e] \in Handler /\ d \in Nat
    BY DEF SumDebits, TypeOK, Handler
  <2>2. h \in Handler /\ h.referee = eval[e].referee
    BY <2>1, HandlerMoves DEF SumDebits
  <2>3. eval' = [eval EXCEPT ![e] = Idle] \/ eval' = [eval EXCEPT ![e] = h]
    BY DEF SumDebits
  <2> HIDE DEF h
  <2> QED BY <2>2, <2>3, IdleType DEF SumDebits, TypeOK
<1>14. CASE \E e \in Evaluators : CheckValidity(e)
  <2> PICK e \in Evaluators : CheckValidity(e)
    BY <1>14
  <2>1. \E pc \in {"cap", "reject"} : eval' = [eval EXCEPT ![e].pc = pc]
    BY DEF CheckValidity
  <2> QED BY <2>1, HandlerStep DEF CheckValidity
<1>15. CASE \E e \in Evaluators : CheckCap(e)
  <2> PICK e \in Evaluators : CheckCap(e)
    BY <1>15
  <2>1. \E pc \in {"grant", "reject"} : eval' = [eval EXCEPT ![e].pc = pc]
    BY DEF CheckCap
  <2> QED BY <2>1, HandlerStep DEF CheckCap
<1>16. CASE \E e \in Evaluators : Reject(e)
  <2> PICK e \in Evaluators : Reject(e)
    BY <1>16
  <2> DEFINE r == eval[e].referee
  <2>1. r \in Customers /\ referral[r].status # "none"
    BY DEF Reject, TypeOK, Handler
  <2>2. [referral[r] EXCEPT !.status = "rejected"] \in ReferralRow
    BY <2>1 DEF TypeOK, ReferralRow, Settled
  <2>3. [referral[r] EXCEPT !.status = "rejected"].status # "none"
    BY <2>1 DEF TypeOK, ReferralRow
  <2> QED BY <2>1, <2>2, <2>3, IdleType DEF Reject, TypeOK
<1>17. CASE \E e \in Evaluators : GrantReward(e)
  <2> PICK e \in Evaluators : GrantReward(e)
    BY <1>17
  <2> DEFINE r == eval[e].referee
             rewards == Rewards(eval[e].terms, eval[e].deposited)
  <2>1. r \in Customers /\ rewards \in [Sides -> Nat]
    BY RewardsType DEF GrantReward, TypeOK, Handler
  <2>2. CASE CanClaim(r) /\ ~LedgerConflict(r, rewards)
    <3>1. Credited(r, rewards) \in [Customers -> Nat]
      <4>1. rewards["referral_referrer"] \in Nat /\ rewards["referral_referee"] \in Nat
        BY <2>1 DEF Sides
      <4> QED BY <4>1 DEF Credited, TypeOK
    <3>2. [s \in Sides |-> IF rewards[s] > 0 THEN rewards[s] ELSE ledger[r][s]]
             \in [Sides -> Nat]
      BY <2>1 DEF TypeOK
    <3> DEFINE row == [referral[r] EXCEPT !.status = "rewarded", !.rewards = rewards]
    <3>3. row \in ReferralRow /\ row.status # "none"
      BY <2>1, <2>2 DEF TypeOK, ReferralRow, Settled, CanClaim, Claimable
    <3>4. referral' = [referral EXCEPT ![r] = row]
      BY <2>1, <2>2 DEF GrantReward, TypeOK
    <3> HIDE DEF row
    <3>5. /\ referral' \in [Customers -> ReferralRow]
          /\ \A c \in Customers :
               referral[c].status # "none" => referral'[c].status # "none"
      BY <2>1, <3>3, <3>4 DEF TypeOK
    <3>6. /\ eval' \in [Evaluators -> Handler]
          /\ \A f \in Evaluators : eval'[f].pc # "idle" => eval'[f] = eval[f]
      BY IdleType DEF GrantReward, TypeOK
    <3>7. ledger' \in [Customers -> [Sides -> Nat]] /\ bonus' \in [Customers -> Nat]
      BY <2>1, <2>2, <3>1, <3>2 DEF GrantReward, TypeOK
    <3>8. \A f \in Evaluators : eval[f].pc # "idle" => eval[f].referee \in Customers
      BY DEF TypeOK, Handler
    <3> QED BY <3>5, <3>6, <3>7, <3>8 DEF GrantReward, TypeOK
  <2>3. CASE ~(CanClaim(r) /\ ~LedgerConflict(r, rewards))
    BY <2>1, <2>3, IdleType DEF GrantReward, TypeOK
  <2> QED BY <2>2, <2>3
<1>18. CASE \E e \in Evaluators : EvaluationFails(e)
  BY <1>18, IdleType DEF EvaluationFails, TypeOK
<1>19. CASE \E c \in Customers : SignupFails(c)
  <2> PICK c \in Customers : SignupFails(c)
    BY <1>19
  <2>1. [signup[c] EXCEPT !.pc = "done"] \in Request
    BY RequestMoves DEF TypeOK
  <2> QED BY <2>1 DEF SignupFails, TypeOK
<1>20. CASE Crash
  <2>1. \A c \in Customers : [signup[c] EXCEPT !.pc = "done"] \in Request
    BY RequestMoves DEF TypeOK
  <2>2. signup' \in [Customers -> Request]
    BY <1>20, <2>1 DEF Crash, TypeOK
  <2> QED BY <1>20, <2>2, IdleType DEF Crash, TypeOK
<1>21. CASE UNCHANGED vars
  BY <1>21 DEF vars, TypeOK
<1> QED
  BY <1>1, <1>2, <1>3, <1>4, <1>5, <1>6, <1>7, <1>8, <1>9, <1>10, <1>11, <1>12,
     <1>13, <1>14, <1>15, <1>16, <1>17, <1>18, <1>19, <1>20, <1>21
  DEF Next, Staff, Calendar, Signup, Evaluate, Failure

(* Every row and every handler keeps its type (referrals.schema.ts).       *)
THEOREM TypeCorrect == Spec => []TypeOK
BY InitTypeOK, NextTypeOK, PTL DEF Spec

-----------------------------------------------------------------------------
(* Redemption, refusal and payout are the only steps that write a referral *)
(* row or a ledger entry.                                                  *)
LEMMA ReferralWriters ==
  ASSUME [Next]_vars
  PROVE  \/ UNCHANGED <<referral, ledger, bonus>>
         \/ \E c \in Customers : AttachReferral(c)
         \/ \E e \in Evaluators : Reject(e) \/ GrantReward(e)
BY DEF Next, Staff, Calendar, Signup, Evaluate, Failure, CreateProgram, UpdateProgram,
       AssignCode, CreateCustomer, RecordDeposit, RemoveDeposit, RecordCorrection,
       RemoveCorrection, RecordWithdrawal, WindowPasses, CodeExpires, AttachLookup,
       LoadReferral, SumDebits, CheckValidity, CheckCap, EvaluationFails,
       SignupFails, Crash, vars, tables, feed

(* A payout: the claim, the ledger entries and the balances.               *)
Pays(r, rewards) ==
  /\ CanClaim(r)
  /\ referral' = [referral EXCEPT ![r].status = "rewarded", ![r].rewards = rewards]
  /\ ledger' = [ledger EXCEPT ![r] = rewards]
  /\ bonus' = Credited(r, rewards)

(* A payout pays a claimed referral, in full, or does nothing: the unique  *)
(* index of the ledger never makes it fail halfway.                        *)
LEMMA GrantPays ==
  ASSUME TypeOK, PaidIffRewarded, NEW e \in Evaluators, GrantReward(e)
  PROVE  \/ UNCHANGED <<referral, ledger, bonus>>
         \/ \E r \in Customers, rewards \in [Sides -> Nat] :
              r = eval[e].referee /\ Pays(r, rewards)
<1> DEFINE r == eval[e].referee
           rewards == Rewards(eval[e].terms, eval[e].deposited)
<1>1. r \in Customers /\ rewards \in [Sides -> Nat]
  BY RewardsType DEF GrantReward, TypeOK, Handler
<1>2. CASE CanClaim(r) /\ ~LedgerConflict(r, rewards)
  <2>1. \A s \in Sides : ledger[r][s] = 0
    BY <1>1, <1>2 DEF PaidIffRewarded, CanClaim, Claimable
  <2>2. [s \in Sides |-> IF rewards[s] > 0 THEN rewards[s] ELSE ledger[r][s]] = rewards
    BY <1>1, <2>1
  <2>3. ledger' = [ledger EXCEPT ![r] = rewards]
    BY <1>2, <2>2 DEF GrantReward
  <2>4. /\ referral' = [referral EXCEPT ![r].status = "rewarded", ![r].rewards = rewards]
        /\ bonus' = Credited(r, rewards)
    BY <1>2 DEF GrantReward
  <2> QED BY <1>1, <1>2, <2>3, <2>4 DEF Pays
<1>3. CASE ~(CanClaim(r) /\ ~LedgerConflict(r, rewards))
  BY <1>3 DEF GrantReward
<1> QED BY <1>2, <1>3

LEMMA NextPaid == TypeOK /\ PaidIffRewarded /\ [Next]_vars => PaidIffRewarded'
<1> SUFFICES ASSUME TypeOK, PaidIffRewarded, [Next]_vars PROVE PaidIffRewarded'
  OBVIOUS
<1>1. CASE UNCHANGED <<referral, ledger>>
  BY <1>1 DEF PaidIffRewarded
<1>2. CASE \E c \in Customers : AttachReferral(c)
  <2> PICK c \in Customers : AttachReferral(c)
    BY <1>2
  <2>1. \A s \in Sides : referral'[c].rewards[s] = 0 /\ ledger'[c][s] = 0
    BY DEF AttachReferral, NoReferral, TypeOK, PaidIffRewarded
  <2>2. \A r \in Customers \ {c} : referral'[r] = referral[r] /\ ledger'[r] = ledger[r]
    BY DEF AttachReferral, TypeOK
  <2> QED BY <2>1, <2>2 DEF PaidIffRewarded
<1>3. CASE \E e \in Evaluators : Reject(e)
  <2> PICK e \in Evaluators : Reject(e)
    BY <1>3
  <2>1. \A r \in Customers :
          /\ referral'[r].rewards = referral[r].rewards
          /\ referral[r].status = "rewarded" => referral'[r].status = "rewarded"
    BY DEF Reject, CanReject, TypeOK, ReferralRow
  <2>2. ledger' = ledger
    BY DEF Reject
  <2>3. \A r \in Customers : referral'[r] = referral[r] \/ referral[r].status # "rewarded"
    BY DEF Reject, CanReject, TypeOK, ReferralRow
  <2> QED BY <2>1, <2>2, <2>3 DEF PaidIffRewarded
<1>4. CASE \E e \in Evaluators : GrantReward(e)
  <2> PICK e \in Evaluators : GrantReward(e)
    BY <1>4
  <2>1. CASE UNCHANGED <<referral, ledger, bonus>>
    BY <2>1 DEF PaidIffRewarded
  <2>2. CASE \E r \in Customers, rewards \in [Sides -> Nat] : Pays(r, rewards)
    BY <2>2 DEF Pays, PaidIffRewarded, TypeOK, ReferralRow
  <2> QED BY <2>1, <2>2, GrantPays
<1> QED BY <1>1, <1>2, <1>3, <1>4, ReferralWriters

(* However many handlers, events and crashes race for a referral, each     *)
(* side of it is paid exactly what the referral row says, once.            *)
THEOREM PaidOnce == Spec => []PaidIffRewarded
<1>1. Init => PaidIffRewarded
  BY DEF Init, PaidIffRewarded, NoReferral
<1> QED BY <1>1, NextPaid, TypeCorrect, PTL DEF Spec

(* The status updates of reject and grantReward are guarded so that a      *)
(* settled referral is never written again.                                *)
LEMMA NextSettled ==
  TypeOK /\ PaidIffRewarded /\ [Next]_vars =>
    \A r \in Customers : referral[r].status \in Settled => referral'[r] = referral[r]
<1> SUFFICES ASSUME TypeOK, PaidIffRewarded, [Next]_vars,
                    NEW r \in Customers, referral[r].status \in Settled
             PROVE  referral'[r] = referral[r]
  OBVIOUS
<1>1. CASE UNCHANGED <<referral, ledger>>
  BY <1>1
<1>2. CASE \E c \in Customers : AttachReferral(c)
  BY <1>2 DEF AttachReferral, Settled, TypeOK
<1>3. CASE \E e \in Evaluators : Reject(e)
  BY <1>3 DEF Reject, CanReject, Settled, TypeOK, ReferralRow
<1>4. CASE \E e \in Evaluators : GrantReward(e)
  BY <1>4, GrantPays DEF Pays, CanClaim, Claimable, Settled, TypeOK
<1> QED BY <1>1, <1>2, <1>3, <1>4, ReferralWriters

(* A referral that was rewarded or rejected stays as it is for ever.       *)
THEOREM SettledStays == Spec => SettledIsFinal
<1>1. TypeOK /\ PaidIffRewarded /\ [Next]_vars =>
        [\A r \in Customers :
           referral[r].status \in Settled => referral'[r] = referral[r]]_vars
  BY NextSettled
<1> QED BY <1>1, TypeCorrect, PaidOnce, PTL DEF Spec, SettledIsFinal

-----------------------------------------------------------------------------
(* The referral tables implement ReferralPayout.                           *)
LEMMA PayoutInit == Init => Payout!Init
BY DEF Init, Payout!Init, Payout!Nothing, Mapped, NoReferral, Claimable

LEMMA PayoutStep ==
  TypeOK /\ PaidIffRewarded /\ [Next]_vars => [Payout!Next]_<<Mapped, ledger>>
<1> SUFFICES ASSUME TypeOK, PaidIffRewarded, [Next]_vars
             PROVE  Payout!Next \/ UNCHANGED <<Mapped, ledger>>
  OBVIOUS
<1>1. CASE UNCHANGED <<referral, ledger>>
  BY <1>1 DEF Mapped
<1>2. CASE \E c \in Customers : AttachReferral(c)
  <2> PICK c \in Customers : AttachReferral(c)
    BY <1>2
  <2>1. /\ referral[c].status = "none" /\ referral'[c].status = "pending"
        /\ \A r \in Customers \ {c} : referral'[r] = referral[r]
    BY DEF AttachReferral, NoReferral, TypeOK
  <2>2. Mapped[c] = "none" /\ Mapped' = [Mapped EXCEPT ![c] = "open"]
    BY <2>1 DEF Mapped, Claimable
  <2>3. ledger' = ledger
    BY DEF AttachReferral
  <2>4. Payout!Redeem(c)
    BY <2>2, <2>3 DEF Payout!Redeem
  <2> QED BY <2>4 DEF Payout!Next
<1>3. CASE \E e \in Evaluators : Reject(e)
  <2> PICK e \in Evaluators : Reject(e)
    BY <1>3
  <2> DEFINE r == eval[e].referee
  <2>1. r \in Customers /\ referral[r].status # "none" /\ ledger' = ledger
    BY DEF Reject, TypeOK, Handler
  <2>2. CASE referral[r].status \in Settled
    <3>1. \A q \in Customers : referral'[q].status = referral[q].status
      BY <2>1, <2>2 DEF Reject, CanReject, Settled, TypeOK, ReferralRow
    <3> QED BY <2>1, <3>1 DEF Mapped
  <2>3. CASE referral[r].status \in Claimable
    <3>1. /\ referral'[r].status = "rejected"
          /\ \A q \in Customers \ {r} : referral'[q] = referral[q]
      BY <2>1, <2>3 DEF Reject, CanReject, Claimable, TypeOK, ReferralRow
    <3>2. Mapped[r] = "open" /\ Mapped' = [Mapped EXCEPT ![r] = "refused"]
      BY <2>1, <2>3, <3>1 DEF Mapped, Claimable
    <3>3. Payout!Refuse(r)
      BY <2>1, <3>2 DEF Payout!Refuse
    <3> QED BY <2>1, <3>3 DEF Payout!Next
  <2> QED BY <2>1, <2>2, <2>3 DEF TypeOK, ReferralRow
<1>4. CASE \E e \in Evaluators : GrantReward(e)
  <2>1. CASE UNCHANGED <<referral, ledger>>
    BY <2>1 DEF Mapped
  <2>2. ASSUME NEW r \in Customers, NEW rewards \in [Sides -> Nat], Pays(r, rewards)
        PROVE  Payout!Next
    <3>1. /\ referral'[r].status = "rewarded"
          /\ \A q \in Customers \ {r} : referral'[q] = referral[q]
      BY <2>2 DEF Pays, TypeOK, ReferralRow
    <3>2. Mapped[r] = "open" /\ Mapped' = [Mapped EXCEPT ![r] = "paid"]
      BY <2>2, <3>1 DEF Pays, Mapped, CanClaim, Claimable
    <3>3. ledger'[r] = rewards
      BY <2>2 DEF Pays, TypeOK
    <3>4. Payout!Pay(r)
      BY <2>2, <3>2, <3>3 DEF Pays, Payout!Pay
    <3> QED BY <3>4 DEF Payout!Next
  <2> QED BY <1>4, <2>1, <2>2, GrantPays
<1> QED BY <1>1, <1>2, <1>3, <1>4, ReferralWriters

(* Concurrent handlers settle a redemption at most once, paying both sides *)
(* in one step or neither.                                                 *)
THEOREM ImplementsPayout == Spec => PaysOnce
BY PayoutInit, PayoutStep, TypeCorrect, PaidOnce, PTL DEF Spec, PaysOnce, Payout!Spec

-----------------------------------------------------------------------------
(* Who a customer was, or may yet be, referred by: the owner of the code   *)
(* the request that created them carried.                                  *)
InvitedBy(c) == IF signup[c].code = None THEN None ELSE signup[c].code[1]

(* Only existing customers own codes, only existing codes are carried by a *)
(* request, referredBy is taken from the request, and invitations have no  *)
(* cycle.                                                                  *)
InvitationOrder ==
  /\ \A k \in Codes : code[k].exists => Exists(k[1])
  /\ \A c \in Customers : signup[c].code # None =>
       /\ signup[c].code \in Codes
       /\ code[signup[c].code].exists
       /\ Exists(c)
  /\ \A c \in Customers : referredBy[c] \in {None, InvitedBy(c)}
  /\ \A ring \in (SUBSET Customers) \ {{}} : \E c \in ring : InvitedBy(c) \notin ring

LEMMA InvitationInit == Init => InvitationOrder
<1> SUFFICES ASSUME Init PROVE InvitationOrder
  OBVIOUS
<1>1. \A c \in Customers : InvitedBy(c) = None /\ None \notin Customers
  BY ReferralsAssumption DEF Init, InvitedBy
<1> QED BY <1>1 DEF Init, InvitationOrder, NoCode

LEMMA InvitationKept ==
  ASSUME TypeOK, InvitationOrder,
         \A c \in Customers : signup'[c].code = signup[c].code,
         \A c \in Customers : Exists(c) => Exists(c)',
         \A k \in Codes : code'[k].exists = code[k].exists,
         \A c \in Customers : referredBy'[c] \in {referredBy[c], InvitedBy(c)}
  PROVE  InvitationOrder'
<1>1. \A c \in Customers : InvitedBy(c)' = InvitedBy(c)
  BY DEF InvitedBy
<1>2. \A k \in Codes : k[1] \in Customers
  BY CodesType
<1> HIDE DEF InvitedBy, Exists
<1> QED BY <1>1, <1>2 DEF InvitationOrder

(* A customer who is created with a code is no one's referrer yet, so no   *)
(* cycle can close through them.                                           *)
LEMMA InvitationGrows ==
  ASSUME TypeOK, InvitationOrder, NEW c \in Customers, CreateCustomer(c)
  PROVE  InvitationOrder'
<1>1. /\ ~Exists(c) /\ signup[c].code = None
      /\ UNCHANGED <<code, referredBy>>
      /\ \A q \in Customers \ {c} : signup'[q] = signup[q]
      /\ signup'[c].pc # "absent"
      /\ signup'[c].code # None => signup'[c].code \in Codes /\ code[signup'[c].code].exists
  BY DEF CreateCustomer, InvitationOrder, TypeOK, Request, tables
<1>2. \A q \in Customers \ {c} : InvitedBy(q)' = InvitedBy(q)
  BY <1>1 DEF InvitedBy
<1>3. \A q \in Customers : InvitedBy(q) # c
  BY <1>1, ReferralsAssumption DEF InvitedBy, InvitationOrder
<1>4. InvitedBy(c)' # c
  <2>1. CASE signup'[c].code = None
    BY <2>1, ReferralsAssumption DEF InvitedBy
  <2>2. CASE signup'[c].code # None
    BY <1>1, <2>2 DEF InvitedBy, InvitationOrder
  <2> QED BY <2>1, <2>2
<1>5. ASSUME NEW ring \in (SUBSET Customers) \ {{}}
      PROVE  \E q \in ring : InvitedBy(q)' \notin ring
  <2>1. CASE ring \ {c} = {}
    <3>1. ring = {c}
      BY <2>1
    <3> QED BY <1>4, <3>1
  <2>2. CASE ring \ {c} # {}
    <3>1. PICK q \in ring \ {c} : InvitedBy(q) \notin ring \ {c}
      BY <2>2 DEF InvitationOrder
    <3>2. InvitedBy(q) \notin ring
      BY <1>3, <3>1
    <3> QED BY <1>2, <3>1, <3>2
  <2> QED BY <2>1, <2>2
<1>6. \A q \in Customers : Exists(q) => Exists(q)'
  BY <1>1 DEF Exists
<1>7. \A q \in Customers : referredBy'[q] \in {None, InvitedBy(q)'}
  <2>1. referredBy[c] = None
    BY <1>1 DEF InvitationOrder, InvitedBy
  <2> QED BY <1>1, <1>2, <2>1 DEF InvitationOrder
<1>8. \A k \in Codes : code'[k].exists => Exists(k[1])'
  BY <1>1, <1>6, CodesType DEF InvitationOrder
<1>9. \A q \in Customers : signup'[q].code # None =>
        signup'[q].code \in Codes /\ code'[signup'[q].code].exists /\ Exists(q)'
  BY <1>1, <1>6 DEF InvitationOrder, Exists
<1> QED BY <1>5, <1>7, <1>8, <1>9 DEF InvitationOrder

LEMMA NextInvitation == TypeOK /\ InvitationOrder /\ [Next]_vars => InvitationOrder'
<1> SUFFICES ASSUME TypeOK, InvitationOrder, [Next]_vars PROVE InvitationOrder'
  OBVIOUS
<1>1. CASE \E c \in Customers : CreateCustomer(c)
  BY <1>1, InvitationGrows
<1>2. CASE \E k \in Codes, limit \in UseLimits : AssignCode(k, limit)
  <2> PICK k \in Codes, limit \in UseLimits : AssignCode(k, limit)
    BY <1>2
  <2>1. /\ Exists(k[1]) /\ UNCHANGED <<signup, referredBy>>
        /\ \A j \in Codes : code'[j].exists <=> code[j].exists \/ j = k
    BY DEF AssignCode, TypeOK
  <2>2. \A c \in Customers : InvitedBy(c)' = InvitedBy(c) /\ Exists(c)' = Exists(c)
    BY <2>1 DEF InvitedBy, Exists
  <2> HIDE DEF InvitedBy
  <2> QED BY <2>1, <2>2, CodesType DEF InvitationOrder
<1>3. CASE \E c \in Customers : AttachReferral(c)
  <2> PICK c \in Customers : AttachReferral(c)
    BY <1>3
  <2>1. signup[c].code \in Codes /\ signup[c].code # None
    BY ReferralsAssumption DEF AttachReferral, TypeOK, Request
  <2>2. /\ \A q \in Customers : signup'[q].code = signup[q].code
        /\ \A q \in Customers : Exists(q) => Exists(q)'
        /\ \A k \in Codes : code'[k].exists = code[k].exists
        /\ \A q \in Customers : referredBy'[q] \in {referredBy[q], InvitedBy(q)}
    BY <2>1 DEF AttachReferral, TypeOK, Request, CodeRow, Exists, InvitedBy
  <2> QED BY <2>2, InvitationKept
<1>4. CASE UNCHANGED <<code, referredBy, signup>>
  BY <1>4, InvitationKept DEF Exists
<1>5. CASE \E k \in Codes : CodeExpires(k)
  <2>1. /\ \A k \in Codes : code'[k].exists = code[k].exists
        /\ UNCHANGED <<referredBy, signup>>
    BY <1>5 DEF CodeExpires, TypeOK, CodeRow
  <2> QED BY <2>1, InvitationKept DEF Exists
<1>6. CASE (\E c \in Customers : AttachLookup(c) \/ SignupFails(c)) \/ Crash
  <2>1. \A c \in Customers :
           /\ signup'[c].code = signup[c].code
           /\ signup[c].pc # "absent" => signup'[c].pc # "absent"
    <3>1. CASE Crash
      BY <3>1 DEF Crash, Exists, TypeOK, Request
    <3>2. ASSUME NEW c \in Customers, AttachLookup(c)
          PROVE  \E pc \in {"attach", "done"} : signup' = [signup EXCEPT ![c].pc = pc]
      BY <3>2 DEF AttachLookup
    <3>3. ASSUME NEW c \in Customers, SignupFails(c)
          PROVE  signup' = [signup EXCEPT ![c].pc = "done"]
      BY <3>3 DEF SignupFails
    <3>4. ASSUME NEW c \in Customers, NEW pc \in {"attach", "done"},
                 signup' = [signup EXCEPT ![c].pc = pc]
          PROVE  \A q \in Customers :
                   /\ signup'[q].code = signup[q].code
                   /\ signup[q].pc # "absent" => signup'[q].pc # "absent"
      BY <3>4 DEF TypeOK, Request
    <3>5. CASE \E c \in Customers : AttachLookup(c)
      BY <3>2, <3>4, <3>5
    <3>6. CASE \E c \in Customers : SignupFails(c)
      BY <3>3, <3>4, <3>6
    <3> QED BY <1>6, <3>1, <3>5, <3>6
  <2>2. UNCHANGED <<code, referredBy>>
    BY <1>6 DEF AttachLookup, SignupFails, Crash, tables
  <2> QED BY <2>1, <2>2, InvitationKept DEF Exists
<1> QED
  BY <1>1, <1>2, <1>3, <1>4, <1>5, <1>6
  DEF Next, Staff, Calendar, Signup, Evaluate, Failure, CreateProgram, UpdateProgram,
      RecordDeposit, RemoveDeposit, RecordCorrection, RemoveCorrection,
      RecordWithdrawal, WindowPasses, LoadReferral, SumDebits, CheckValidity, CheckCap,
      Reject, GrantReward, EvaluationFails, vars, tables, feed

(* No group of customers, however large, can be each other's referrers.    *)
THEOREM ReferralsAcyclic == Spec => []NoReferralCycle
<1>1. InvitationOrder => NoReferralCycle
  BY ReferralsAssumption DEF InvitationOrder, NoReferralCycle
<1> QED BY <1>1, InvitationInit, NextInvitation, TypeCorrect, PTL DEF Spec

-----------------------------------------------------------------------------
(* Rejecting and paying a referral leave it redeemed through its code.     *)
LEMMA RedemptionsKept ==
  ASSUME TypeOK, NEW k \in Codes,
         \/ UNCHANGED referral
         \/ \E e \in Evaluators : Reject(e) \/ GrantReward(e)
  PROVE  Redemptions(k)' = Redemptions(k)
<1>1. ASSUME NEW r \in Customers
      PROVE  /\ referral'[r].code = referral[r].code
             /\ referral'[r].status = "none" <=> referral[r].status = "none"
  <2>1. CASE UNCHANGED referral
    BY <2>1
  <2>2. CASE \E e \in Evaluators : Reject(e)
    BY <2>2 DEF Reject, TypeOK, ReferralRow
  <2>3. CASE \E e \in Evaluators : GrantReward(e)
    <3> PICK e \in Evaluators : GrantReward(e)
      BY <2>3
    <3> DEFINE rewards == Rewards(eval[e].terms, eval[e].deposited)
    <3>1. CASE UNCHANGED referral
      BY <3>1
    <3>2. CASE ~UNCHANGED referral
      <4>1. /\ referral[eval[e].referee].status # "none"
            /\ referral' = [referral EXCEPT ![eval[e].referee].status = "rewarded",
                                            ![eval[e].referee].rewards = rewards]
        BY <3>2 DEF GrantReward, TypeOK
      <4> HIDE DEF rewards
      <4> QED BY <4>1 DEF TypeOK, ReferralRow
    <3> QED BY <3>1, <3>2
  <2> QED BY <2>1, <2>2, <2>3
<1> QED BY <1>1 DEF Redemptions

LEMMA CodeWriters ==
  ASSUME [Next]_vars
  PROVE  \/ UNCHANGED code
         \/ \E k \in Codes, limit \in UseLimits : AssignCode(k, limit)
         \/ \E k \in Codes : CodeExpires(k)
         \/ \E c \in Customers : AttachReferral(c)
BY DEF Next, Staff, Calendar, Signup, Evaluate, Failure, CreateProgram, UpdateProgram,
       CreateCustomer, RecordDeposit, RemoveDeposit, RecordCorrection,
       RemoveCorrection, RecordWithdrawal, WindowPasses, AttachLookup, LoadReferral,
       SumDebits, CheckValidity, CheckCap, Reject, GrantReward, EvaluationFails,
       SignupFails, Crash, vars, tables, feed

(* UsesMatchRedemptions is inductive once codes not issued are known to be *)
(* unused; that only issued ones are redeemed is part of InvitationOrder.  *)
UsesInvariant ==
  /\ UsesMatchRedemptions
  /\ \A k \in Codes : ~code[k].exists => code[k].uses = 0

LEMMA NextUses ==
  TypeOK /\ InvitationOrder /\ UsesInvariant /\ [Next]_vars => UsesInvariant'
<1> SUFFICES ASSUME TypeOK, InvitationOrder, UsesInvariant, [Next]_vars, NEW k \in Codes
             PROVE  /\ code'[k].uses = Cardinality(Redemptions(k)')
                    /\ ~code'[k].exists => code'[k].uses = 0
  BY DEF UsesMatchRedemptions, UsesInvariant
<1>0. /\ code[k].uses = Cardinality(Redemptions(k))
      /\ ~code[k].exists => code[k].uses = 0
  BY DEF UsesMatchRedemptions, UsesInvariant
<1>1. CASE \E c \in Customers : AttachReferral(c)
  <2> PICK c \in Customers : AttachReferral(c)
    BY <1>1
  <2> DEFINE j == signup[c].code
  <2>1. /\ referral[c].status = "none" /\ j \in Codes
        /\ referral'[c].status # "none" /\ referral'[c].code = j
        /\ \A r \in Customers \ {c} : referral'[r] = referral[r]
    BY DEF AttachReferral, NoReferral, TypeOK, Request
  <2>2. code[j].exists
    BY <2>1, ReferralsAssumption DEF InvitationOrder
  <2>3. /\ code'[k].uses = IF k = j THEN code[k].uses + 1 ELSE code[k].uses
        /\ code'[k].exists = code[k].exists
    BY <2>1 DEF AttachReferral, TypeOK, CodeRow
  <2> HIDE DEF j
  <2>4. CASE k = j
    <3>1. c \notin Redemptions(k) /\ Redemptions(k)' = Redemptions(k) \cup {c}
      BY <2>1, <2>4 DEF Redemptions
    <3>2. IsFiniteSet(Redemptions(k))
      BY FS_Subset, ReferralsAssumption DEF Redemptions
    <3>3. Cardinality(Redemptions(k)') = Cardinality(Redemptions(k)) + 1
      BY <3>1, <3>2, FS_AddElement
    <3> QED BY <1>0, <2>2, <2>3, <2>4, <3>3
  <2>5. CASE k # j
    <3>1. Redemptions(k)' = Redemptions(k)
      BY <2>1, <2>5 DEF Redemptions
    <3> QED BY <1>0, <2>3, <2>5, <3>1
  <2> QED BY <2>4, <2>5
<1>2. CASE ~\E c \in Customers : AttachReferral(c)
  <2>1. Redemptions(k)' = Redemptions(k)
    BY <1>2, RedemptionsKept, ReferralWriters
  <2>2. CASE \E j \in Codes, limit \in UseLimits : AssignCode(j, limit)
    <3> PICK j \in Codes, limit \in UseLimits : AssignCode(j, limit)
      BY <2>2
    <3>1. /\ ~code[j].exists /\ code'[j].uses = 0 /\ code'[j].exists
          /\ \A i \in Codes \ {j} : code'[i] = code[i]
      BY DEF AssignCode, TypeOK
    <3> QED BY <1>0, <2>1, <3>1
  <2>3. CASE \E j \in Codes : CodeExpires(j)
    <3>1. code'[k].uses = code[k].uses /\ code'[k].exists = code[k].exists
      BY <2>3 DEF CodeExpires, TypeOK, CodeRow
    <3> QED BY <1>0, <2>1, <3>1
  <2>4. CASE UNCHANGED code
    BY <1>0, <2>1, <2>4
  <2> QED BY <1>2, <2>2, <2>3, <2>4, CodeWriters
<1> QED BY <1>1, <1>2

(* usageCount counts the redemptions exactly: concurrent signups lose no   *)
(* increment and a failed one leaves none behind.                          *)
THEOREM UsesCounted == Spec => []UsesMatchRedemptions
<1>1. Init => UsesInvariant
  <2> SUFFICES ASSUME Init PROVE UsesInvariant
    OBVIOUS
  <2>1. \A k \in Codes : Redemptions(k) = {} /\ code[k].uses = 0
    BY DEF Init, Redemptions, NoReferral, NoCode
  <2> QED BY <2>1, FS_EmptySet DEF UsesInvariant, UsesMatchRedemptions
<1>2. UsesInvariant => UsesMatchRedemptions
  BY DEF UsesInvariant
<1> QED
  BY <1>1, <1>2, InvitationInit, NextInvitation, NextUses, TypeCorrect, PTL DEF Spec

-----------------------------------------------------------------------------
(* The bonus a customer's ledger entries add up to, as a function of the   *)
(* tables, so that it can be compared before and after a step.             *)
EnteredIn(led) == [entry \in Customers \X Sides |-> led[entry[1]][entry[2]]]

ReceiverIn(ref, entry) ==
  IF entry[2] = "referral_referrer" THEN ref[entry[1]].code[1] ELSE entry[1]

EntriesIn(ref, c) ==
  {entry \in Customers \X Sides : /\ ref[entry[1]].status # "none"
                                  /\ ReceiverIn(ref, entry) = c}

BonusIn(ref, led, c) == SumFunctionOnSet(EnteredIn(led), EntriesIn(ref, c))

LEMMA BonusNow ==
  /\ BonusBalanceMatchesLedger
       <=> \A c \in Customers : bonus[c] = BonusIn(referral, ledger, c)
  /\ BonusBalanceMatchesLedger'
       <=> \A c \in Customers : bonus'[c] = BonusIn(referral', ledger', c)
BY DEF BonusBalanceMatchesLedger, Entered, Entries, Beneficiary, ReferrerOf,
       BonusIn, EnteredIn, EntriesIn, ReceiverIn

LEMMA EntriesFinite ==
  ASSUME NEW ref, NEW c
  PROVE  IsFiniteSet(EntriesIn(ref, c)) /\ EntriesIn(ref, c) \in SUBSET (Customers \X Sides)
<1>1. IsFiniteSet(Sides)
  <2>1. Sides = ({} \cup {"referral_referrer"}) \cup {"referral_referee"}
    BY DEF Sides
  <2> QED BY <2>1, FS_EmptySet, FS_AddElement
<1>2. IsFiniteSet(Customers \X Sides)
  BY <1>1, FS_Product, ReferralsAssumption
<1>3. EntriesIn(ref, c) \in SUBSET (Customers \X Sides)
  BY DEF EntriesIn
<1> QED BY <1>2, <1>3, FS_Subset

(* A new referral has no ledger entries, so nobody's sum changes.          *)
LEMMA AttachBonus ==
  ASSUME TypeOK, PaidIffRewarded, NEW q \in Customers, AttachReferral(q), NEW c \in Customers
  PROVE  BonusIn(referral', ledger', c) = BonusIn(referral, ledger, c)
<1> DEFINE f == EnteredIn(ledger)
           S == EntriesIn(referral, c)
           T == EntriesIn(referral', c)
<1>1. /\ referral[q].status = "none" /\ ledger' = ledger
      /\ \A r \in Customers \ {q} : referral'[r] = referral[r]
  BY DEF AttachReferral, TypeOK
<1>2. S \subseteq T /\ T \subseteq Customers \X Sides /\ \A x \in T \ S : x[1] = q
  BY <1>1 DEF EntriesIn, ReceiverIn
<1>3. \A x \in Customers \X Sides : f[x] = ledger[x[1]][x[2]] /\ f[x] \in Int
  BY DEF EnteredIn, TypeOK
<1>4. \A s \in Sides : ledger[q][s] = 0
  BY <1>1 DEF PaidIffRewarded
<1>5. \A x \in T \ S : f[x] = 0
  BY <1>2, <1>3, <1>4
<1>6. IsFiniteSet(T)
  BY EntriesFinite
<1>7. ledger' = ledger
  BY <1>1
<1> HIDE DEF f, S, T
<1>8. SumFunctionOnSet(f, T) = SumFunctionOnSet(f, S)
  BY <1>2, <1>3, <1>5, <1>6, SumZeros
<1> QED BY <1>7, <1>8 DEF BonusIn, f, S, T

(* A payout adds each side to the sum of its beneficiary.                  *)
LEMMA PaysBonus ==
  ASSUME TypeOK, PaidIffRewarded, NEW r \in Customers, NEW rewards \in [Sides -> Nat],
         Pays(r, rewards), NEW c \in Customers
  PROVE  BonusIn(referral', ledger', c) =
           BonusIn(referral, ledger, c)
           + (IF c = ReferrerOf(r) THEN rewards["referral_referrer"] ELSE 0)
           + (IF c = r THEN rewards["referral_referee"] ELSE 0)
<1> DEFINE x == <<r, "referral_referrer">>
           y == <<r, "referral_referee">>
           f == EnteredIn(ledger)
           g == EnteredIn(ledger')
           h == [f EXCEPT ![x] = g[x]]
           S == EntriesIn(referral, c)
<1>1. EntriesIn(referral', c) = S
  <2>1. \A q \in Customers : /\ referral'[q].status = "none" <=> referral[q].status = "none"
                             /\ referral'[q].code = referral[q].code
    BY DEF Pays, CanClaim, Claimable, TypeOK, ReferralRow
  <2> QED BY <2>1 DEF EntriesIn, ReceiverIn
<1>2. /\ x \in S <=> c = ReferrerOf(r)
      /\ y \in S <=> c = r
  BY DEF EntriesIn, ReceiverIn, ReferrerOf, Sides, Pays, CanClaim, Claimable
<1>3. \A s \in Sides : ledger[r][s] = 0 /\ ledger'[r][s] = rewards[s]
  BY DEF Pays, CanClaim, Claimable, PaidIffRewarded, TypeOK
<1>4. \A q \in Customers \ {r} : ledger'[q] = ledger[q]
  BY DEF Pays, TypeOK
<1>5. x \in Customers \X Sides /\ y \in Customers \X Sides /\ x # y
      /\ \A z \in Customers \X Sides : z # x /\ z # y => z[1] # r
  BY DEF Sides
<1>6. /\ f \in [Customers \X Sides -> Int] /\ g \in [Customers \X Sides -> Int]
      /\ f[x] = 0 /\ f[y] = 0
      /\ g[x] = rewards["referral_referrer"] /\ g[y] = rewards["referral_referee"]
      /\ \A z \in Customers \X Sides : z # x /\ z # y => g[z] = f[z]
  <2>1. \A z \in Customers \X Sides : f[z] = ledger[z[1]][z[2]] /\ g[z] = ledger'[z[1]][z[2]]
    BY DEF EnteredIn
  <2>2. \A z \in Customers \X Sides : z # x /\ z # y => g[z] = f[z]
    BY <1>4, <1>5, <2>1
  <2>3. /\ f[x] = 0 /\ f[y] = 0
        /\ g[x] = rewards["referral_referrer"] /\ g[y] = rewards["referral_referee"]
    BY <1>3, <1>5, <2>1 DEF Sides
  <2>4. f \in [Customers \X Sides -> Int]
    BY DEF EnteredIn, TypeOK
  <2>5. g \in [Customers \X Sides -> Int]
    <3>1. ledger' \in [Customers -> [Sides -> Nat]]
      BY DEF Pays, TypeOK
    <3> QED BY <3>1 DEF EnteredIn
  <2> QED BY <2>2, <2>3, <2>4, <2>5
<1>7. IsFiniteSet(S) /\ S \in SUBSET (Customers \X Sides)
  BY EntriesFinite
<1> HIDE DEF x, y, f, g, S
<1>8. /\ h \in [Customers \X Sides -> Int]
      /\ h[x] = g[x] /\ \A z \in Customers \X Sides : z # x => h[z] = f[z]
  BY <1>5, <1>6
<1> HIDE DEF h
<1>9. SumFunctionOnSet(h, S) =
        SumFunctionOnSet(f, S) + (IF x \in S THEN h[x] - f[x] ELSE 0)
  <2>1. \A z \in S : f[z] \in Int /\ h[z] \in Int
    BY <1>6, <1>7, <1>8
  <2>2. \A z \in S \ {x} : f[z] = h[z]
    BY <1>7, <1>8
  <2> QED BY <1>7, <2>1, <2>2, SumChangeIf
<1>10. SumFunctionOnSet(g, S) =
         SumFunctionOnSet(h, S) + (IF y \in S THEN g[y] - h[y] ELSE 0)
  <2>1. \A z \in S : h[z] \in Int /\ g[z] \in Int
    BY <1>6, <1>7, <1>8
  <2>2. \A z \in S \ {y} : h[z] = g[z]
    BY <1>6, <1>7, <1>8
  <2> QED BY <1>7, <2>1, <2>2, SumChangeIf
<1>11. SumFunctionOnSet(f, S) \in Int
  BY <1>6, <1>7, SumInt
<1>12. h[y] = 0 /\ h[x] = rewards["referral_referrer"]
  BY <1>5, <1>6, <1>8
<1>13. /\ rewards["referral_referrer"] \in Nat /\ rewards["referral_referee"] \in Nat
  BY DEF Sides
<1>14. SumFunctionOnSet(g, S) =
         SumFunctionOnSet(f, S)
         + (IF c = ReferrerOf(r) THEN rewards["referral_referrer"] ELSE 0)
         + (IF c = r THEN rewards["referral_referee"] ELSE 0)
  BY <1>2, <1>6, <1>9, <1>10, <1>11, <1>12, <1>13
<1> QED BY <1>1, <1>14 DEF BonusIn, f, g, S

LEMMA NextBonus ==
  TypeOK /\ PaidIffRewarded /\ BonusBalanceMatchesLedger /\ [Next]_vars
    => BonusBalanceMatchesLedger'
<1> SUFFICES ASSUME TypeOK, PaidIffRewarded, BonusBalanceMatchesLedger, [Next]_vars,
                    NEW c \in Customers
             PROVE  bonus'[c] = BonusIn(referral', ledger', c)
  BY BonusNow
<1>0. bonus[c] = BonusIn(referral, ledger, c)
  BY BonusNow
<1>1. CASE UNCHANGED <<referral, ledger, bonus>>
  BY <1>0, <1>1
<1>2. ASSUME NEW q \in Customers, AttachReferral(q)
      PROVE  bonus'[c] = BonusIn(referral', ledger', c)
  <2>1. bonus' = bonus
    BY <1>2 DEF AttachReferral
  <2> QED BY <1>0, <1>2, <2>1, AttachBonus
<1>3. ASSUME NEW e \in Evaluators, Reject(e)
      PROVE  bonus'[c] = BonusIn(referral', ledger', c)
  <2>1. bonus' = bonus /\ ledger' = ledger
    BY <1>3 DEF Reject
  <2>2. \A q \in Customers : /\ referral'[q].status = "none" <=> referral[q].status = "none"
                             /\ referral'[q].code = referral[q].code
    BY <1>3 DEF Reject, TypeOK, ReferralRow
  <2>3. EntriesIn(referral', c) = EntriesIn(referral, c)
    BY <2>2 DEF EntriesIn, ReceiverIn
  <2> QED BY <1>0, <2>1, <2>3 DEF BonusIn
<1>4. ASSUME NEW e \in Evaluators, GrantReward(e)
      PROVE  bonus'[c] = BonusIn(referral', ledger', c)
  <2>1. CASE UNCHANGED <<referral, ledger, bonus>>
    BY <1>0, <2>1
  <2>2. ASSUME NEW r \in Customers, NEW rewards \in [Sides -> Nat], Pays(r, rewards)
        PROVE  bonus'[c] = BonusIn(referral', ledger', c)
    <3>1. bonus'[c] = bonus[c]
            + (IF c = ReferrerOf(r) THEN rewards["referral_referrer"] ELSE 0)
            + (IF c = r THEN rewards["referral_referee"] ELSE 0)
      BY <2>2 DEF Pays, Credited
    <3> QED BY <1>0, <2>2, <3>1, PaysBonus
  <2> QED BY <1>4, <2>1, <2>2, GrantPays
<1> QED BY <1>1, <1>2, <1>3, <1>4, ReferralWriters

(* However many handlers race, a customer's bonus balance is what the      *)
(* ledger credited to them, as referrer and as referee.                    *)
THEOREM BonusMatches == Spec => []BonusBalanceMatchesLedger
<1>1. Init => BonusBalanceMatchesLedger
  <2> SUFFICES ASSUME Init, NEW c \in Customers PROVE bonus[c] = BonusIn(referral, ledger, c)
    BY BonusNow
  <2>1. EntriesIn(referral, c) = {}
    BY DEF Init, EntriesIn, NoReferral
  <2> QED BY <2>1, SumEmpty DEF Init, BonusIn
<1> QED BY <1>1, NextBonus, TypeCorrect, PaidOnce, PTL DEF Spec

-----------------------------------------------------------------------------
(* Codes belong to programs there are, and referrals to codes there are;   *)
(* a program that is not there has no cap.                                 *)
Issued ==
  /\ \A k \in Codes : code[k].exists => program[k[2]].exists
  /\ \A p \in Programs : ~program[p].exists => program[p].terms.cap = 0
  /\ \A r \in Customers : referral[r].status # "none" => code[referral[r].code].exists

(* Rows once made stay, and a referral keeps its code.                     *)
RowsStay ==
  /\ \A p \in Programs : program[p].exists => program'[p].exists
  /\ \A k \in Codes : code[k].exists => code'[k].exists
  /\ \A r \in Customers : referral[r].status # "none" =>
       referral'[r].status # "none" /\ referral'[r].code = referral[r].code

LEMMA ProgramWriters ==
  ASSUME [Next]_vars
  PROVE  \/ UNCHANGED program
         \/ \E p \in Programs, t \in Terms, w \in Windows : CreateProgram(p, t, w)
         \/ \E p \in Programs, t \in Terms, w \in Windows, on \in BOOLEAN :
              UpdateProgram(p, t, on, w)
         \/ \E p \in Programs : WindowPasses(p)
BY DEF Next, Staff, Calendar, Signup, Evaluate, Failure,
       AssignCode, CreateCustomer, RecordDeposit, RemoveDeposit, RecordCorrection,
       RemoveCorrection, RecordWithdrawal, CodeExpires, AttachLookup, AttachReferral,
       LoadReferral, SumDebits, CheckValidity, CheckCap, Reject, GrantReward,
       EvaluationFails, SignupFails, Crash, vars, tables, feed

LEMMA ProgramsStay ==
  ASSUME TypeOK, [Next]_vars, NEW p \in Programs
  PROVE  /\ program[p].exists => program'[p].exists
         /\ ~program'[p].exists => program'[p] = program[p]
<1>1. CASE UNCHANGED program
  BY <1>1
<1>2. CASE \E q \in Programs, t \in Terms, w \in Windows : CreateProgram(q, t, w)
  BY <1>2 DEF CreateProgram, TypeOK
<1>3. CASE \E q \in Programs, t \in Terms, w \in Windows, on \in BOOLEAN :
             UpdateProgram(q, t, on, w)
  BY <1>3 DEF UpdateProgram, TypeOK
<1>4. CASE \E q \in Programs : WindowPasses(q)
  <2> PICK q \in Programs : WindowPasses(q)
    BY <1>4
  <2>1. /\ program[q].exists /\ program'[q].exists
        /\ \A o \in Programs \ {q} : program'[o] = program[o]
    BY DEF WindowPasses, TypeOK, ProgramRow
  <2> QED BY <2>1
<1> QED BY <1>1, <1>2, <1>3, <1>4, ProgramWriters

LEMMA CodesStay ==
  ASSUME TypeOK, [Next]_vars, NEW k \in Codes
  PROVE  /\ code[k].exists => code'[k].exists
         /\ code'[k].exists => code[k].exists \/ program[k[2]].exists
<1>1. CASE UNCHANGED code
  BY <1>1
<1>2. CASE \E j \in Codes, limit \in UseLimits : AssignCode(j, limit)
  BY <1>2 DEF AssignCode, TypeOK
<1>3. CASE \E j \in Codes : CodeExpires(j)
  BY <1>3 DEF CodeExpires, TypeOK, CodeRow
<1>4. CASE \E c \in Customers : AttachReferral(c)
  <2> PICK c \in Customers : AttachReferral(c)
    BY <1>4
  <2>1. code'[k].exists = code[k].exists
    BY DEF AttachReferral, TypeOK, CodeRow
  <2> QED BY <2>1
<1> QED BY <1>1, <1>2, <1>3, <1>4, CodeWriters

LEMMA NextRowsStay ==
  ASSUME TypeOK, PaidIffRewarded, [Next]_vars
  PROVE  RowsStay
<1>1. \A p \in Programs : program[p].exists => program'[p].exists
  BY ProgramsStay
<1>2. \A k \in Codes : code[k].exists => code'[k].exists
  BY CodesStay
<1>3. ASSUME NEW r \in Customers, referral[r].status # "none"
      PROVE  referral'[r].status # "none" /\ referral'[r].code = referral[r].code
  <2>1. CASE UNCHANGED <<referral, ledger, bonus>>
    BY <1>3, <2>1
  <2>2. CASE \E c \in Customers : AttachReferral(c)
    BY <1>3, <2>2 DEF AttachReferral, TypeOK
  <2>3. CASE \E e \in Evaluators : Reject(e)
    BY <1>3, <2>3 DEF Reject, TypeOK, ReferralRow
  <2>4. ASSUME NEW e \in Evaluators, GrantReward(e)
        PROVE  referral'[r].status # "none" /\ referral'[r].code = referral[r].code
    <3>1. CASE UNCHANGED <<referral, ledger, bonus>>
      BY <1>3, <3>1
    <3>2. ASSUME NEW q \in Customers, NEW rewards \in [Sides -> Nat], Pays(q, rewards)
          PROVE  referral'[r].status # "none" /\ referral'[r].code = referral[r].code
      BY <1>3, <3>2 DEF Pays, TypeOK, ReferralRow
    <3> QED BY <2>4, <3>1, <3>2, GrantPays
  <2> QED BY <2>1, <2>2, <2>3, <2>4, ReferralWriters
<1> QED BY <1>1, <1>2, <1>3 DEF RowsStay

LEMMA NextIssued ==
  ASSUME TypeOK, PaidIffRewarded, InvitationOrder, Issued, [Next]_vars
  PROVE  Issued'
<1>0. RowsStay
  BY NextRowsStay
<1>1. ASSUME NEW k \in Codes, code'[k].exists PROVE program'[k[2]].exists
  <2>0. k[2] \in Programs
    BY CodesType
  <2>1. program[k[2]].exists
    BY <1>1, CodesStay DEF Issued
  <2> QED BY <1>0, <2>0, <2>1 DEF RowsStay
<1>2. \A p \in Programs : ~program'[p].exists => program'[p].terms.cap = 0
  BY ProgramsStay DEF Issued
<1>3. ASSUME NEW r \in Customers, referral'[r].status # "none"
      PROVE  code'[referral'[r].code].exists
  <2>1. CASE referral[r].status # "none"
    <3>1. referral[r].code \in Codes
      BY <2>1 DEF TypeOK, ReferralRow
    <3> QED BY <1>0, <2>1, <3>1 DEF Issued, RowsStay
  <2>2. CASE referral[r].status = "none"
    <3>1. AttachReferral(r)
      <4>1. CASE UNCHANGED <<referral, ledger, bonus>>
        BY <1>3, <2>2, <4>1
      <4>2. CASE \E c \in Customers : AttachReferral(c)
        BY <1>3, <2>2, <4>2 DEF AttachReferral, TypeOK
      <4>3. CASE \E e \in Evaluators : Reject(e)
        BY <1>3, <2>2, <4>3 DEF Reject, TypeOK
      <4>4. ASSUME NEW e \in Evaluators, GrantReward(e) PROVE FALSE
        <5>1. CASE UNCHANGED <<referral, ledger, bonus>>
          BY <1>3, <2>2, <5>1
        <5>2. ASSUME NEW q \in Customers, NEW rewards \in [Sides -> Nat], Pays(q, rewards)
              PROVE  FALSE
          BY <1>3, <2>2, <5>2 DEF Pays, CanClaim, Claimable, TypeOK
        <5> QED BY <4>4, <5>1, <5>2, GrantPays
      <4> QED BY <4>1, <4>2, <4>3, <4>4, ReferralWriters
    <3>2. signup[r].code \in Codes /\ referral'[r].code = signup[r].code
      BY <3>1 DEF AttachReferral, NoReferral, TypeOK, Request
    <3>3. code[signup[r].code].exists
      BY <3>2, ReferralsAssumption DEF InvitationOrder
    <3> QED BY <1>0, <3>2, <3>3 DEF RowsStay
  <2> QED BY <2>1, <2>2
<1> QED BY <1>1, <1>2, <1>3 DEF Issued

-----------------------------------------------------------------------------
(* Only a payout moves a referral among the rewarded ones of its referrer. *)
RewardedIn(ref, a, p) ==
  {r \in Customers : ref[r].status = "rewarded" /\ ref[r].code[1] = a /\ ref[r].code[2] = p}

LEMMA RewardedNow ==
  /\ \A a, p : RewardedUnder(a, p) = RewardedIn(referral, a, p)
  /\ CapRespected <=>
       \A a \in Customers, p \in Programs :
         program[p].terms.cap # 0 =>
           Cardinality(RewardedIn(referral, a, p)) <= program[p].terms.cap
  /\ CapRespected' <=>
       \A a \in Customers, p \in Programs :
         program'[p].terms.cap # 0 =>
           Cardinality(RewardedIn(referral', a, p)) <= program'[p].terms.cap
BY DEF CapRespected, RewardedUnder, RewardedIn, ReferrerOf, ProgramOf

LEMMA RewardedCount ==
  ASSUME NEW ref, NEW a, NEW p
  PROVE  IsFiniteSet(RewardedIn(ref, a, p)) /\ Cardinality(RewardedIn(ref, a, p)) \in Nat
<1>1. IsFiniteSet(RewardedIn(ref, a, p))
  BY FS_Subset, ReferralsAssumption DEF RewardedIn
<1> QED BY <1>1, FS_CardinalityType

LEMMA RewardedKept ==
  ASSUME TypeOK, [Next]_vars, ~\E e \in Evaluators : GrantReward(e), NEW a, NEW p
  PROVE  RewardedIn(referral', a, p) = RewardedIn(referral, a, p)
<1>1. CASE UNCHANGED <<referral, ledger, bonus>>
  BY <1>1
<1>2. CASE \E c \in Customers : AttachReferral(c)
  <2> PICK c \in Customers : AttachReferral(c)
    BY <1>2
  <2>1. /\ referral[c].status = "none" /\ referral'[c].status = "pending"
        /\ \A r \in Customers \ {c} : referral'[r] = referral[r]
    BY DEF AttachReferral, NoReferral, TypeOK
  <2> QED BY <2>1 DEF RewardedIn
<1>3. CASE \E e \in Evaluators : Reject(e)
  <2>1. \A r \in Customers :
          \/ referral'[r] = referral[r]
          \/ referral[r].status # "rewarded" /\ referral'[r].status # "rewarded"
    BY <1>3 DEF Reject, CanReject, TypeOK, ReferralRow
  <2> QED BY <2>1 DEF RewardedIn
<1> QED BY <1>1, <1>2, <1>3, ReferralWriters

LEMMA RewardedGrows ==
  ASSUME TypeOK, NEW r \in Customers, NEW rewards, Pays(r, rewards), NEW a, NEW p
  PROVE  Cardinality(RewardedIn(referral', a, p)) =
           Cardinality(RewardedIn(referral, a, p))
           + (IF a = ReferrerOf(r) /\ p = ProgramOf(r) THEN 1 ELSE 0)
<1> DEFINE S == RewardedIn(referral, a, p)
<1>1. /\ referral[r].status # "rewarded" /\ referral'[r].status = "rewarded"
      /\ referral'[r].code = referral[r].code
      /\ \A q \in Customers \ {r} : referral'[q] = referral[q]
  BY DEF Pays, CanClaim, Claimable, TypeOK, ReferralRow
<1>2. r \notin S
  BY <1>1 DEF RewardedIn
<1>3. IsFiniteSet(S) /\ Cardinality(S) \in Nat
  BY RewardedCount
<1>4. RewardedIn(referral', a, p) =
        IF a = ReferrerOf(r) /\ p = ProgramOf(r) THEN S \cup {r} ELSE S
  BY <1>1 DEF RewardedIn, ReferrerOf, ProgramOf
<1> HIDE DEF S
<1>5. Cardinality(S \cup {r}) = Cardinality(S) + 1
  BY <1>2, <1>3, FS_AddElement
<1> QED BY <1>3, <1>4, <1>5 DEF S

(* What one handler does to its own state.                                 *)
LEMMA HandlerSteps ==
  ASSUME TypeOK, [Next]_vars, NEW e \in Evaluators
  PROVE  \/ eval'[e] = eval[e]
         \/ eval'[e] = Idle
         \/ \E r \in Customers : LoadReferral(e, r)
         \/ SumDebits(e) \/ CheckValidity(e) \/ CheckCap(e)
<1>1. CASE Staff \/ Calendar \/ (\E c \in Customers : Signup(c)) \/ UNCHANGED vars
  BY <1>1 DEF Staff, Calendar, Signup, CreateProgram, UpdateProgram, AssignCode,
     CreateCustomer, RecordDeposit, RemoveDeposit, RecordCorrection, RemoveCorrection,
     RecordWithdrawal, WindowPasses, CodeExpires, AttachLookup, AttachReferral, vars
<1>2. ASSUME NEW f \in Evaluators, NEW r \in Customers, LoadReferral(f, r)
      PROVE  LoadReferral(e, r) \/ eval'[e] = eval[e]
  BY <1>2 DEF LoadReferral, TypeOK
<1>3. ASSUME NEW f \in Evaluators, f # e, Evaluate(f) \/ EvaluationFails(f)
      PROVE  eval'[e] = eval[e]
  BY <1>3 DEF Evaluate, SumDebits, CheckValidity, CheckCap, Reject, GrantReward,
     EvaluationFails, TypeOK
<1>4. CASE Reject(e) \/ GrantReward(e) \/ EvaluationFails(e) \/ Crash
  BY <1>4 DEF Reject, GrantReward, EvaluationFails, Crash, TypeOK
<1>5. ASSUME NEW c \in Customers, SignupFails(c) PROVE eval'[e] = eval[e]
  BY <1>5 DEF SignupFails
<1> QED BY <1>1, <1>2, <1>3, <1>4, <1>5 DEF Next, Evaluate, Failure

-----------------------------------------------------------------------------
(* Nobody edits the cap of a program there is.                             *)
CapStays(p) == program[p].exists => program'[p].terms.cap = program[p].terms.cap
CapsKept == [][\A p \in Programs : CapStays(p)]_vars

(* The cap a handler loaded with the referral is the program's still, and  *)
(* once the handler has found room under it there is room.                 *)
CapOf(e) == program[ProgramOf(eval[e].referee)].terms.cap

RoomFor(e) ==
  LET r == eval[e].referee IN
  eval[e].terms.cap # 0 =>
    Cardinality(RewardedIn(referral, ReferrerOf(r), ProgramOf(r))) < eval[e].terms.cap

CapInvariant ==
  /\ \A e \in Evaluators : eval[e].pc # "idle" => eval[e].terms.cap = CapOf(e)
  /\ \A e \in Evaluators : eval[e].pc = "grant" => RoomFor(e)
  /\ CapRespected

(* The referral a handler works on keeps its code, its program and its cap. *)
LEMMA HandlerCap ==
  ASSUME TypeOK, PaidIffRewarded, Issued, [Next]_vars,
         \A p \in Programs : CapStays(p),
         NEW r \in Customers, referral[r].status # "none"
  PROVE  /\ referral'[r].code = referral[r].code
         /\ referral[r].code \in Codes
         /\ program'[referral[r].code[2]].terms.cap = program[referral[r].code[2]].terms.cap
<1>1. referral'[r].code = referral[r].code
  BY NextRowsStay DEF RowsStay
<1>2. referral[r].code \in Codes
  BY DEF TypeOK, ReferralRow
<1>3. referral[r].code[2] \in Programs
  BY <1>2, CodesType
<1>4. program[referral[r].code[2]].exists
  BY <1>2 DEF Issued
<1> QED BY <1>1, <1>2, <1>3, <1>4 DEF CapStays

LEMMA NextHandlerCap ==
  ASSUME TypeOK, TypeOK', PaidIffRewarded, Issued, CapInvariant, [Next]_vars,
         \A p \in Programs : CapStays(p),
         NEW e \in Evaluators, eval'[e].pc # "idle"
  PROVE  eval'[e].terms.cap = program'[referral'[eval'[e].referee].code[2]].terms.cap
<1>1. eval[e].pc # "idle" => /\ eval[e].referee \in Customers
                             /\ referral[eval[e].referee].status # "none"
                             /\ eval[e].terms.cap = program[referral[eval[e].referee].code[2]].terms.cap
  BY DEF CapInvariant, CapOf, ProgramOf, TypeOK, Handler
<1>2. CASE eval[e].pc # "idle" /\ eval'[e].referee = eval[e].referee
                               /\ eval'[e].terms = eval[e].terms
  BY <1>1, <1>2, HandlerCap
<1>3. ASSUME NEW r \in Customers, LoadReferral(e, r)
      PROVE  eval'[e].terms.cap = program'[referral'[eval'[e].referee].code[2]].terms.cap
  <2>1. CASE referral[r].status \in Claimable
    <3>1. eval'[e] = [pc |-> "sum", referee |-> r, deposited |-> 0,
                      terms |-> program[ProgramOf(r)].terms]
      BY <1>3, <2>1 DEF LoadReferral, TypeOK
    <3>2. program' = program /\ referral' = referral
      BY <1>3 DEF LoadReferral, tables
    <3> QED BY <3>1, <3>2 DEF ProgramOf
  <2>2. CASE referral[r].status \notin Claimable
    BY <1>3, <2>2 DEF LoadReferral
  <2> QED BY <2>1, <2>2
<1>4. CASE SumDebits(e) \/ CheckValidity(e) \/ CheckCap(e)
  <2>1. eval[e].pc # "idle" /\ eval[e] \in Handler
    BY <1>4 DEF SumDebits, CheckValidity, CheckCap, TypeOK
  <2>2. eval'[e].referee = eval[e].referee /\ eval'[e].terms = eval[e].terms
    <3>1. CASE SumDebits(e)
      BY <2>1, <3>1 DEF SumDebits, TypeOK, Idle, Handler
    <3>2. CASE CheckValidity(e)
      BY <2>1, <3>2 DEF CheckValidity, TypeOK, Handler
    <3>3. CASE CheckCap(e)
      BY <2>1, <3>3 DEF CheckCap, TypeOK, Handler
    <3> QED BY <1>4, <3>1, <3>2, <3>3
  <2> QED BY <1>2, <2>1, <2>2
<1>5. CASE eval'[e] = eval[e]
  BY <1>2, <1>5
<1>6. CASE eval'[e] = Idle
  BY <1>6 DEF Idle
<1> QED BY <1>3, <1>4, <1>5, <1>6, HandlerSteps

(* With one handler, nothing is paid between its look at the cap and its   *)
(* payout.                                                                 *)
LEMMA NextRoom ==
  ASSUME TypeOK, TypeOK', PaidIffRewarded, Issued, CapInvariant, [Next]_vars,
         \A e, f \in Evaluators : e = f,
         NEW e \in Evaluators, eval'[e].pc = "grant", NEW r, r = eval'[e].referee,
         eval'[e].terms.cap # 0
  PROVE  Cardinality(RewardedIn(referral', referral'[r].code[1], referral'[r].code[2]))
           < eval'[e].terms.cap
<1>1. ~\E f \in Evaluators : GrantReward(f)
  <2> SUFFICES ASSUME NEW f \in Evaluators, GrantReward(f) PROVE FALSE
    OBVIOUS
  <2>1. eval' = [eval EXCEPT ![f] = Idle] /\ eval \in [Evaluators -> Handler]
    BY DEF GrantReward, TypeOK
  <2>2. eval'[f].pc = "idle" /\ f = e
    BY <2>1 DEF Idle
  <2> QED BY <2>2
<1>2. \A a, p : RewardedIn(referral', a, p) = RewardedIn(referral, a, p)
  BY <1>1, RewardedKept
<1>3. CASE eval'[e] = eval[e]
  <2>1. r \in Customers /\ referral[r].status # "none"
    BY <1>3 DEF TypeOK, Handler
  <2>2. referral'[r].code = referral[r].code
    BY <2>1, NextRowsStay DEF RowsStay
  <2>3. Cardinality(RewardedIn(referral, referral[r].code[1], referral[r].code[2]))
          < eval[e].terms.cap
    BY <1>3 DEF CapInvariant, RoomFor, ReferrerOf, ProgramOf
  <2> QED BY <1>2, <1>3, <2>2, <2>3
<1>4. CASE CheckCap(e)
  <2>1. eval[e] \in Handler
    BY DEF TypeOK
  <2>2. eval'[e].referee = eval[e].referee /\ eval'[e].terms = eval[e].terms
    BY <1>4, <2>1 DEF CheckCap, TypeOK, Handler
  <2>3. UnderRewardCap(ReferrerOf(r), ProgramOf(r), eval[e].terms.cap)
    BY <1>4, <2>1, <2>2 DEF CheckCap, TypeOK, Handler
  <2>4. referral' = referral
    BY <1>4 DEF CheckCap, tables
  <2> QED BY <2>2, <2>3, <2>4, RewardedNow DEF UnderRewardCap, ReferrerOf, ProgramOf
<1>5. CASE \E q \in Customers : LoadReferral(e, q)
  BY <1>5 DEF LoadReferral, TypeOK
<1>6. CASE SumDebits(e)
  BY <1>6 DEF SumDebits, TypeOK, Idle, Handler
<1>7. CASE CheckValidity(e)
  BY <1>7 DEF CheckValidity, TypeOK, Handler
<1>8. CASE eval'[e] = Idle
  BY <1>8 DEF Idle
<1> QED BY <1>3, <1>4, <1>5, <1>6, <1>7, <1>8, HandlerSteps

LEMMA NextCapRespected ==
  ASSUME TypeOK, TypeOK', PaidIffRewarded, Issued, CapInvariant, [Next]_vars,
         \A p \in Programs : CapStays(p)
  PROVE  CapRespected'
<1> SUFFICES ASSUME NEW a \in Customers, NEW p \in Programs, program'[p].terms.cap # 0
             PROVE  Cardinality(RewardedIn(referral', a, p)) <= program'[p].terms.cap
  BY RewardedNow
<1>0. /\ Cardinality(RewardedIn(referral, a, p)) \in Nat
      /\ program'[p].terms.cap \in Nat
  <2>1. program'[p].terms \in Terms \cup {NoTerms}
    BY DEF TypeOK, ProgramRow
  <2>2. program'[p].terms.cap \in Nat
    BY <2>1, ReferralsAssumption DEF NoTerms
  <2> QED BY <2>2, RewardedCount
<1>1. program[p].terms.cap # 0 =>
        Cardinality(RewardedIn(referral, a, p)) <= program[p].terms.cap
  BY RewardedNow DEF CapInvariant
<1>2. CASE ~\E e \in Evaluators : GrantReward(e)
  <2>1. RewardedIn(referral', a, p) = RewardedIn(referral, a, p)
    BY <1>2, RewardedKept
  <2>2. CASE program[p].exists
    BY <1>1, <2>1, <2>2 DEF CapStays
  <2>3. CASE ~program[p].exists
    <3>1. RewardedIn(referral, a, p) = {}
      <4>1. ASSUME NEW r \in Customers, referral[r].status = "rewarded",
                   referral[r].code[2] = p
            PROVE  FALSE
        <5>1. referral[r].code \in Codes
          BY <4>1 DEF TypeOK, ReferralRow
        <5> QED BY <2>3, <4>1, <5>1 DEF Issued
      <4> QED BY <4>1 DEF RewardedIn
    <3>2. Cardinality(RewardedIn(referral', a, p)) = 0
      BY <2>1, <3>1, FS_EmptySet
    <3> QED BY <1>0, <3>2
  <2> QED BY <2>2, <2>3
<1>3. ASSUME NEW e \in Evaluators, GrantReward(e)
      PROVE  Cardinality(RewardedIn(referral', a, p)) <= program'[p].terms.cap
  <2>1. program' = program
    BY <1>3 DEF GrantReward
  <2>2. CASE UNCHANGED <<referral, ledger, bonus>>
    BY <1>1, <2>1, <2>2
  <2>3. ASSUME NEW r \in Customers, NEW rewards \in [Sides -> Nat],
               r = eval[e].referee, Pays(r, rewards)
        PROVE  Cardinality(RewardedIn(referral', a, p)) <= program'[p].terms.cap
    <3>1. Cardinality(RewardedIn(referral', a, p)) =
            Cardinality(RewardedIn(referral, a, p))
            + (IF a = ReferrerOf(r) /\ p = ProgramOf(r) THEN 1 ELSE 0)
      BY <2>3, RewardedGrows
    <3>2. CASE a = ReferrerOf(r) /\ p = ProgramOf(r)
      <4>1. eval[e].pc = "grant" /\ eval[e].terms.cap = program[p].terms.cap
        BY <1>3, <2>3, <3>2 DEF GrantReward, CapInvariant, CapOf
      <4>2. Cardinality(RewardedIn(referral, a, p)) < program[p].terms.cap
        BY <2>1, <2>3, <3>2, <4>1 DEF CapInvariant, RoomFor
      <4> QED BY <1>0, <2>1, <3>1, <3>2, <4>2
    <3>3. CASE ~(a = ReferrerOf(r) /\ p = ProgramOf(r))
      BY <1>0, <1>1, <2>1, <3>1, <3>3
    <3> QED BY <3>2, <3>3
  <2> QED BY <1>3, <2>2, <2>3, GrantPays
<1> QED BY <1>2, <1>3

LEMMA NextCap ==
  ASSUME \A e, f \in Evaluators : e = f
  PROVE  TypeOK /\ TypeOK' /\ PaidIffRewarded /\ Issued /\ CapInvariant /\ [Next]_vars
         /\ [\A p \in Programs : CapStays(p)]_vars
           => CapInvariant'
<1> SUFFICES ASSUME TypeOK, TypeOK', PaidIffRewarded, Issued, CapInvariant, [Next]_vars,
                    [\A p \in Programs : CapStays(p)]_vars
             PROVE  CapInvariant'
  OBVIOUS
<1>1. \A p \in Programs : CapStays(p)
  BY DEF vars, CapStays
<1>2. \A e \in Evaluators : eval'[e].pc # "idle" =>
        eval'[e].terms.cap = program'[referral'[eval'[e].referee].code[2]].terms.cap
  BY <1>1, NextHandlerCap
<1>3. \A e \in Evaluators : (eval'[e].pc = "grant" /\ eval'[e].terms.cap # 0) =>
        LET r == eval'[e].referee IN
        Cardinality(RewardedIn(referral', referral'[r].code[1], referral'[r].code[2]))
          < eval'[e].terms.cap
  BY NextRoom
<1>4. CapRespected'
  BY <1>1, NextCapRespected
<1> QED BY <1>2, <1>3, <1>4 DEF CapInvariant, CapOf, RoomFor, ReferrerOf, ProgramOf

(* One handler at a time never rewards a referrer beyond the cap of a      *)
(* program whose cap is not edited. (Two can both find the last place.)    *)
THEOREM SerialCapRespected ==
  ASSUME \A e, f \in Evaluators : e = f
  PROVE  Spec /\ CapsKept => []CapRespected
<1>1. Init => Issued /\ CapInvariant
  <2> SUFFICES ASSUME Init PROVE Issued /\ CapInvariant
    OBVIOUS
  <2>1. Issued
    BY DEF Init, Issued, NoCode, NoProgram, NoTerms, NoReferral
  <2>2. \A e \in Evaluators : eval[e].pc = "idle"
    BY DEF Init, Idle
  <2>3. \A p \in Programs : program[p].terms.cap = 0
    BY DEF Init, NoProgram, NoTerms
  <2> QED BY <2>1, <2>2, <2>3 DEF CapInvariant, CapRespected
<1>2. TypeOK /\ PaidIffRewarded /\ InvitationOrder /\ Issued /\ [Next]_vars => Issued'
  BY NextIssued
<1>3. CapInvariant => CapRespected
  BY DEF CapInvariant
<1> QED
  BY <1>1, <1>2, <1>3, InvitationInit, NextInvitation, NextCap, TypeCorrect, PaidOnce,
     PTL DEF Spec, CapsKept

=============================================================================

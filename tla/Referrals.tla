------------------------------ MODULE Referrals ------------------------------
(***************************************************************************)
(* Referral programs, codes, redemptions and the payout of rewards.        *)
(*                                                                         *)
(* Every SQL statement or committed db.transaction of the services is one  *)
(* action; what a handler read before is kept in its local record, so the  *)
(* handlers of concurrent requests and events interleave between any two   *)
(* statements as they do under READ COMMITTED.                             *)
(***************************************************************************)
EXTENDS Integers, FiniteSets, Functions

CONSTANTS
  Customers,   \* customer accounts; a referral is keyed by its referee
  Programs,    \* referral programs
  Evaluators,  \* concurrently running TransactionCreated handlers
  Terms,       \* what a master may enter for a program
  UseLimits,   \* what staff may enter as a code's maxUses
  Amounts,     \* amounts of a deposit, in minor units
  Corrections, \* amounts of a correction
  MaxDeposit,  \* bound: most a customer's live debits add up to
  MaxPending,  \* bound: undelivered TransactionCreated events per customer
  MaxFailures, \* bound: database errors and crashes in a behaviour
  None         \* SQL NULL in a column that names a customer or a code

Windows == {"upcoming", "open", "closed"}
Kinds == {"fixed", "percentage"}
Sides == {"referral_referrer", "referral_referee"}
Codes == Customers \X Programs

(* A cap or a use limit of 0 is SQL NULL: the schema's checks rule 0 out.  *)
ASSUME ReferralsAssumption ==
  /\ IsFiniteSet(Customers)
  /\ Terms \subseteq [kind: Kinds, referrerBonus: Nat, refereeBonus: Nat,
                      minDebit: Nat, cap: Nat]
  /\ UseLimits \subseteq Nat
  /\ Amounts \cup Corrections \subseteq Nat \ {0}
  /\ {MaxDeposit, MaxPending, MaxFailures} \subseteq Nat
  /\ None \notin Customers /\ None \notin Codes

VARIABLES
  program,    \* referral_programs: terms, isActive, validity window
  code,       \* referral_codes, unique per customer and program
  referral,   \* referrals, unique per referee
  ledger,     \* bonus_ledger, unique per referral and reason
  bonus,      \* customers.bonusBalance
  referredBy, \* customers.referredByCustomerId
  signup,     \* progress of the request that creates each customer
  deposits,   \* per customer: sum of the debits that are not deleted
  corrected,  \* per customer: how much of those debits was corrected
  pending,    \* TransactionCreated events emitted and not yet handled
  eval,       \* local state of each running event handler
  failures    \* database errors and crashes so far

vars == <<program, code, referral, ledger, bonus, referredBy, signup,
          deposits, corrected, pending, eval, failures>>
tables == <<program, code, referral, ledger, bonus, referredBy>>
feed == <<deposits, corrected, pending>>

NoTerms == [kind |-> "fixed", referrerBonus |-> 0, refereeBonus |-> 0,
            minDebit |-> 0, cap |-> 0]
NoProgram == [exists |-> FALSE, terms |-> NoTerms, active |-> FALSE,
              window |-> "upcoming"]
NoCode == [exists |-> FALSE, uses |-> 0, maxUses |-> 0, expired |-> FALSE]
NoReferral == [status |-> "none", code |-> None,
               rewards |-> [s \in Sides |-> 0]]
Idle == [pc |-> "idle", referee |-> None, terms |-> NoTerms, deposited |-> 0]

Settled == {"rewarded", "rejected"}
Claimable == {"pending", "qualified"}

ReferrerOf(r) == referral[r].code[1]
ProgramOf(r) == referral[r].code[2]

(* The customer a bonus entry of referee r's referral credits. *)
Beneficiary(r, side) == IF side = "referral_referrer" THEN ReferrerOf(r) ELSE r

(* programIsValid: active and today inside [validFrom, validTo]. *)
ProgramIsValid(p) == program[p].active /\ program[p].window = "open"

CodeIsUsable(k) ==
  /\ ProgramIsValid(k[2])
  /\ ~code[k].expired
  /\ code[k].maxUses # 0 => code[k].uses < code[k].maxUses

(* A fixed reward is the configured amount; a percentage is that share of  *)
(* the deposits, rounded to the minor unit by toFixed(2).                  *)
RewardAmount(configured, kind, deposited) ==
  IF kind = "fixed" THEN configured ELSE (deposited * configured + 50) \div 100

Rewards(terms, deposited) ==
  [s \in Sides |->
     RewardAmount(IF s = "referral_referrer" THEN terms.referrerBonus
                                             ELSE terms.refereeBonus,
                  terms.kind, deposited)]

RewardedUnder(referrer, p) ==
  {r \in Customers : /\ referral[r].status = "rewarded"
                     /\ ReferrerOf(r) = referrer
                     /\ ProgramOf(r) = p}

(* Mutation: off by one. *)
UnderOrAtRewardCap(referrer, p, cap) ==
  cap # 0 => Cardinality(RewardedUnder(referrer, p)) <= cap

UnderRewardCap(referrer, p, cap) ==
  cap # 0 => Cardinality(RewardedUnder(referrer, p)) < cap

Init ==
  /\ program = [p \in Programs |-> NoProgram]
  /\ code = [k \in Codes |-> NoCode]
  /\ referral = [r \in Customers |-> NoReferral]
  /\ ledger = [r \in Customers |-> [s \in Sides |-> 0]]
  /\ bonus = [c \in Customers |-> 0]
  /\ referredBy = [c \in Customers |-> None]
  /\ signup = [c \in Customers |-> [pc |-> "absent", code |-> None]]
  /\ deposits = [c \in Customers |-> 0]
  /\ corrected = [c \in Customers |-> 0]
  /\ pending = [c \in Customers |-> 0]
  /\ eval = [e \in Evaluators |-> Idle]
  /\ failures = 0

Exists(c) == signup[c].pc # "absent"

-----------------------------------------------------------------------------
(* Programs and codes: staff requests and the calendar.                    *)

CreateProgram(p, t, w) ==
  /\ ~program[p].exists
  /\ program' = [program EXCEPT ![p] =
                   [exists |-> TRUE, terms |-> t, active |-> TRUE, window |-> w]]
  /\ UNCHANGED <<code, referral, ledger, bonus, referredBy, signup, feed, eval,
                 failures>>

(* The reward type and validFrom cannot be edited; validTo can, so a       *)
(* started program may be closed or reopened.                              *)
UpdateProgram(p, t, active, w) ==
  /\ program[p].exists
  /\ t.kind = program[p].terms.kind
  /\ (w = "upcoming") <=> (program[p].window = "upcoming")
  /\ program' = [program EXCEPT ![p] =
                   [exists |-> TRUE, terms |-> t, active |-> active, window |-> w]]
  /\ UNCHANGED <<code, referral, ledger, bonus, referredBy, signup, feed, eval,
                 failures>>

WindowPasses(p) ==
  /\ program[p].exists
  /\ program[p].window # "closed"
  /\ program' = [program EXCEPT ![p].window =
                   IF @ = "upcoming" THEN "open" ELSE "closed"]
  /\ UNCHANGED <<code, referral, ledger, bonus, referredBy, signup, feed, eval,
                 failures>>

(* A customer who already has a code for the program is skipped; a lost    *)
(* race hits uq_referral_codes_customer_program and inserts nothing.       *)
AssignCode(k, limit) ==
  /\ Exists(k[1])
  /\ program[k[2]].exists
  /\ ~code[k].exists
  /\ code' = [code EXCEPT ![k] = [exists |-> TRUE, uses |-> 0,
                                  maxUses |-> limit, expired |-> FALSE]]
  /\ UNCHANGED <<program, referral, ledger, bonus, referredBy, signup, feed,
                 eval, failures>>

CodeExpires(k) ==
  /\ code[k].exists /\ ~code[k].expired
  /\ code' = [code EXCEPT ![k].expired = TRUE]
  /\ UNCHANGED <<program, referral, ledger, bonus, referredBy, signup, feed,
                 eval, failures>>

-----------------------------------------------------------------------------
(* Creating a customer, with or without a code, and attachReferral. A code *)
(* nobody was issued is found by no lookup: the same as giving none.       *)

(* Mutation: a customer there is already can give a code as well. *)
CreateCustomerAgain(c) ==
  /\ \/ signup' = [signup EXCEPT ![c].pc = "done"]
     \/ \E k \in Codes :
          /\ code[k].exists
          /\ signup' = [signup EXCEPT ![c] = [pc |-> "lookup", code |-> k]]
  /\ UNCHANGED <<tables, feed, eval, failures>>

CreateCustomer(c) ==
  /\ ~Exists(c)
  /\ \/ signup' = [signup EXCEPT ![c].pc = "done"]
     \/ \E k \in Codes :
          /\ code[k].exists
          /\ signup' = [signup EXCEPT ![c] = [pc |-> "lookup", code |-> k]]
  /\ UNCHANGED <<tables, feed, eval, failures>>

(* Unusable: the signup proceeds without it. Own code: refused. *)
AttachLookup(c) ==
  LET k == signup[c].code IN
  /\ signup[c].pc = "lookup"
  /\ signup' = [signup EXCEPT ![c].pc =
       IF CodeIsUsable(k) /\ k[1] # c THEN "attach" ELSE "done"]
  /\ UNCHANGED <<tables, feed, eval, failures>>

(* Mutation: only codes with a limit are counted. *)
AttachReferralUncounted(c) ==
  LET k == signup[c].code IN
  /\ signup[c].pc = "attach"
  /\ referral[c].status = "none"
  /\ referral' = [referral EXCEPT ![c] =
                    [NoReferral EXCEPT !.status = "pending", !.code = k]]
  /\ code' = [code EXCEPT ![k].uses = IF code[k].maxUses = 0 THEN @ ELSE @ + 1]
  /\ referredBy' = [referredBy EXCEPT ![c] = k[1]]
  /\ signup' = [signup EXCEPT ![c].pc = "done"]
  /\ UNCHANGED <<program, ledger, bonus, feed, eval, failures>>

AttachReferral(c) ==
  LET k == signup[c].code IN
  /\ signup[c].pc = "attach"
  /\ referral[c].status = "none"
  /\ referral' = [referral EXCEPT ![c] =
                    [NoReferral EXCEPT !.status = "pending", !.code = k]]
  /\ code' = [code EXCEPT ![k].uses = @ + 1]
  /\ referredBy' = [referredBy EXCEPT ![c] = k[1]]
  /\ signup' = [signup EXCEPT ![c].pc = "done"]
  /\ UNCHANGED <<program, ledger, bonus, feed, eval, failures>>

-----------------------------------------------------------------------------
(* The feed from the transactions service.                                 *)

(* A committed debit; its event is emitted after the commit. *)
RecordDeposit(c, a) ==
  /\ Exists(c)
  /\ deposits[c] + a <= MaxDeposit
  /\ pending[c] < MaxPending
  /\ deposits' = [deposits EXCEPT ![c] = @ + a]
  /\ pending' = [pending EXCEPT ![c] = @ + 1]
  /\ UNCHANGED <<tables, signup, corrected, eval, failures>>

(* A withdrawal is an event too, although the sum of debits stays.         *)
RecordWithdrawal(c) ==
  /\ Exists(c)
  /\ pending[c] < MaxPending
  /\ pending' = [pending EXCEPT ![c] = @ + 1]
  /\ UNCHANGED <<tables, signup, deposits, corrected, eval, failures>>

(* A correction of a debit is a credit with a parent. The debit stays in   *)
(* the sum, and the handler of its event returns at once (isCorrection).   *)
RecordCorrection(c, a) ==
  /\ corrected[c] + a <= deposits[c]
  /\ corrected' = [corrected EXCEPT ![c] = @ + a]
  /\ UNCHANGED <<tables, signup, deposits, pending, eval, failures>>

(* Mutation: a deposit that was deleted is deleted again. *)
RemoveDepositTwice(c, a) ==
  /\ Exists(c)
  /\ deposits' = [deposits EXCEPT ![c] = @ - a]
  /\ UNCHANGED <<tables, signup, corrected, pending, eval, failures>>

(* A master deletes a debit that has no corrections; no event is emitted. *)
RemoveDeposit(c, a) ==
  /\ corrected[c] + a <= deposits[c]
  /\ deposits' = [deposits EXCEPT ![c] = @ - a]
  /\ UNCHANGED <<tables, signup, corrected, pending, eval, failures>>

(* A deleted correction no longer counts against its debit. *)
RemoveCorrection(c, a) ==
  /\ a <= corrected[c]
  /\ corrected' = [corrected EXCEPT ![c] = @ - a]
  /\ UNCHANGED <<tables, signup, deposits, pending, eval, failures>>

-----------------------------------------------------------------------------
(* evaluateForCustomer, one statement at a time.                           *)

LoadReferral(e, r) ==
  /\ eval[e].pc = "idle"
  /\ pending[r] > 0
  /\ pending' = [pending EXCEPT ![r] = @ - 1]
  /\ eval' = IF referral[r].status \in Claimable
             THEN [eval EXCEPT ![e] =
                     [pc |-> "sum", referee |-> r, deposited |-> 0,
                      terms |-> program[ProgramOf(r)].terms]]
             ELSE eval
  /\ UNCHANGED <<tables, signup, deposits, corrected, failures>>

SumDebits(e) ==
  LET d == deposits[eval[e].referee] IN
  /\ eval[e].pc = "sum"
  /\ eval' = [eval EXCEPT ![e] =
       IF d < eval[e].terms.minDebit THEN Idle
       ELSE [@ EXCEPT !.pc = "valid", !.deposited = d]]
  /\ UNCHANGED <<tables, signup, feed, failures>>

CheckValidity(e) ==
  /\ eval[e].pc = "valid"
  /\ eval' = [eval EXCEPT ![e].pc =
       IF ProgramIsValid(ProgramOf(eval[e].referee)) THEN "cap" ELSE "reject"]
  /\ UNCHANGED <<tables, signup, feed, failures>>

CheckCap(e) ==
  LET r == eval[e].referee IN
  /\ eval[e].pc = "cap"
  /\ eval' = [eval EXCEPT ![e].pc =
       IF UnderRewardCap(ReferrerOf(r), ProgramOf(r), eval[e].terms.cap)
       THEN "grant" ELSE "reject"]
  /\ UNCHANGED <<tables, signup, feed, failures>>

(* Mutation: the update is not conditional on the status. *)
CanRejectAny(r) == TRUE

CanReject(r) == referral[r].status # "rewarded"

Reject(e) ==
  LET r == eval[e].referee IN
  /\ eval[e].pc = "reject"
  /\ referral' = IF CanReject(r)
                 THEN [referral EXCEPT ![r].status = "rejected"] ELSE referral
  /\ eval' = [eval EXCEPT ![e] = Idle]
  /\ UNCHANGED <<program, code, ledger, bonus, referredBy, signup, feed, failures>>

(* Mutations: a rejected referral is claimed; a pending one is not.        *)
CanClaimUnpaid(r) == referral[r].status # "rewarded"
CanClaimQualified(r) == referral[r].status = "qualified"

CanClaim(r) == referral[r].status \in Claimable

(* uq_bonus_ledger_referral_reason: a second entry for a side conflicts.   *)
LedgerConflict(r, rewards) ==
  \E s \in Sides : rewards[s] > 0 /\ ledger[r][s] # 0

(* Adds each positive reward to its beneficiary's bonus balance. *)
Credited(r, rewards) ==
  [c \in Customers |->
     bonus[c] + (IF c = ReferrerOf(r) THEN rewards["referral_referrer"] ELSE 0)
              + (IF c = r THEN rewards["referral_referee"] ELSE 0)]

(* Mutation: the balances are credited whether the claim is won or not.    *)
GrantRewardToAll(e) ==
  LET r == eval[e].referee
      rewards == Rewards(eval[e].terms, eval[e].deposited) IN
  /\ eval[e].pc = "grant"
  /\ IF CanClaim(r) /\ ~LedgerConflict(r, rewards)
     THEN /\ referral' = [referral EXCEPT ![r].status = "rewarded",
                                          ![r].rewards = rewards]
          /\ ledger' = [ledger EXCEPT ![r] =
               [s \in Sides |-> IF rewards[s] > 0 THEN rewards[s] ELSE @[s]]]
     ELSE UNCHANGED <<referral, ledger>>
  /\ bonus' = Credited(r, rewards)
  /\ eval' = [eval EXCEPT ![e] = Idle]
  /\ UNCHANGED <<program, code, referredBy, signup, feed, failures>>

(* The claim, the ledger entries and the bonus updates commit together;    *)
(* a lost claim or a conflicting entry leaves everything as it was.        *)
GrantReward(e) ==
  LET r == eval[e].referee
      rewards == Rewards(eval[e].terms, eval[e].deposited) IN
  /\ eval[e].pc = "grant"
  /\ IF CanClaim(r) /\ ~LedgerConflict(r, rewards)
     THEN /\ referral' = [referral EXCEPT ![r].status = "rewarded",
                                          ![r].rewards = rewards]
          /\ ledger' = [ledger EXCEPT ![r] =
               [s \in Sides |-> IF rewards[s] > 0 THEN rewards[s] ELSE @[s]]]
          /\ bonus' = Credited(r, rewards)
     ELSE UNCHANGED <<referral, ledger, bonus>>
  /\ eval' = [eval EXCEPT ![e] = Idle]
  /\ UNCHANGED <<program, code, referredBy, signup, feed, failures>>

-----------------------------------------------------------------------------
(* Failures. A handler swallows its error; a signup's becomes a 500.       *)

EvaluationFails(e) ==
  /\ failures < MaxFailures
  /\ eval[e].pc # "idle"
  /\ eval' = [eval EXCEPT ![e] = Idle]
  /\ failures' = failures + 1
  /\ UNCHANGED <<tables, signup, feed>>

SignupFails(c) ==
  /\ failures < MaxFailures
  /\ signup[c].pc \in {"lookup", "attach"}
  /\ signup' = [signup EXCEPT ![c].pc = "done"]
  /\ failures' = failures + 1
  /\ UNCHANGED <<tables, feed, eval>>

(* The process dies: events and requests in memory are gone, tables stay.  *)
Crash ==
  /\ failures < MaxFailures
  /\ pending' = [c \in Customers |-> 0]
  /\ eval' = [e \in Evaluators |-> Idle]
  /\ signup' = [c \in Customers |->
                  IF Exists(c) THEN [signup[c] EXCEPT !.pc = "done"] ELSE signup[c]]
  /\ failures' = failures + 1
  /\ UNCHANGED <<tables, deposits, corrected>>

-----------------------------------------------------------------------------
Staff ==
  \/ \E p \in Programs, t \in Terms, w \in Windows : CreateProgram(p, t, w)
  \/ \E p \in Programs, t \in Terms, w \in Windows, on \in BOOLEAN :
       UpdateProgram(p, t, on, w)
  \/ \E k \in Codes, limit \in UseLimits : AssignCode(k, limit)
  \/ \E c \in Customers : CreateCustomer(c)
  \/ \E c \in Customers, a \in Amounts : RecordDeposit(c, a) \/ RemoveDeposit(c, a)
  \/ \E c \in Customers, a \in Corrections :
       RecordCorrection(c, a) \/ RemoveCorrection(c, a)
  \/ \E c \in Customers : RecordWithdrawal(c)

Calendar ==
  \/ \E p \in Programs : WindowPasses(p)
  \/ \E k \in Codes : CodeExpires(k)

Signup(c) == AttachLookup(c) \/ AttachReferral(c)

Evaluate(e) ==
  \/ SumDebits(e) \/ CheckValidity(e) \/ CheckCap(e) \/ Reject(e) \/ GrantReward(e)

Failure ==
  \/ \E e \in Evaluators : EvaluationFails(e)
  \/ \E c \in Customers : SignupFails(c)
  \/ Crash

Next ==
  \/ Staff
  \/ Calendar
  \/ \E c \in Customers : Signup(c)
  \/ \E e \in Evaluators, r \in Customers : LoadReferral(e, r)
  \/ \E e \in Evaluators : Evaluate(e)
  \/ Failure

Spec == Init /\ [][Next]_vars

(* Node's event loop runs what is queued: a started request or handler     *)
(* goes on, and a queued event is handled. Staff and calendar are free.    *)
Fairness ==
  /\ \A c \in Customers : WF_vars(Signup(c))
  /\ \A e \in Evaluators : WF_vars(Evaluate(e))
  /\ \A r \in Customers : WF_vars(\E e \in Evaluators : LoadReferral(e, r))

FairSpec == Spec /\ Fairness

-----------------------------------------------------------------------------
(* Properties.                                                             *)

ProgramRow == [exists: BOOLEAN, terms: Terms \cup {NoTerms}, active: BOOLEAN,
               window: Windows]
CodeRow == [exists: BOOLEAN, uses: Nat, maxUses: Nat, expired: BOOLEAN]
ReferralRow ==
  {row \in [status: {"none"} \cup Claimable \cup Settled,
            code: Codes \cup {None}, rewards: [Sides -> Nat]] :
     row.status # "none" => row.code \in Codes}
Request ==
  {s \in [pc: {"absent", "lookup", "attach", "done"}, code: Codes \cup {None}] :
     s.pc \in {"lookup", "attach"} => s.code \in Codes}
Handler ==
  {h \in [pc: {"idle", "sum", "valid", "cap", "grant", "reject"},
          referee: Customers \cup {None}, terms: Terms \cup {NoTerms},
          deposited: Nat] :
     h.pc # "idle" => h.referee \in Customers}

(* Every table holds rows of its schema; a row of referrals names a code   *)
(* and a running handler works for a customer whose code was redeemed.     *)
TypeOK ==
  /\ program \in [Programs -> ProgramRow]
  /\ code \in [Codes -> CodeRow]
  /\ referral \in [Customers -> ReferralRow]
  /\ ledger \in [Customers -> [Sides -> Nat]]
  /\ bonus \in [Customers -> Nat]
  /\ referredBy \in [Customers -> Customers \cup {None}]
  /\ signup \in [Customers -> Request]
  /\ deposits \in [Customers -> Nat]
  /\ corrected \in [Customers -> Nat]
  /\ pending \in [Customers -> Nat]
  /\ eval \in [Evaluators -> Handler]
  /\ \A e \in Evaluators :
       eval[e].pc # "idle" => referral[eval[e].referee].status # "none"
  /\ failures \in Nat

(* The bonus ledger holds, for each side of a referral, exactly what the   *)
(* referral row says it was rewarded, and nothing before or without a      *)
(* reward: a bonus is paid once, however many handlers, retries and late   *)
(* rejections raced for the referral (grantReward, reject).                *)
PaidIffRewarded ==
  \A r \in Customers, s \in Sides :
    /\ ledger[r][s] = referral[r].rewards[s]
    /\ referral[r].status # "rewarded" => referral[r].rewards[s] = 0

(* The bonus ledger, and the rows of it that credit customer c.            *)
Entered == [entry \in Customers \X Sides |-> ledger[entry[1]][entry[2]]]
Entries(c) ==
  {entry \in Customers \X Sides : /\ referral[entry[1]].status # "none"
                                  /\ Beneficiary(entry[1], entry[2]) = c}

(* customers.bonusBalance is the sum of the customer's ledger entries, in  *)
(* either role: of several handlers that are about to pay one referral     *)
(* only the one that claims it credits anybody, and none that fails        *)
(* half-way leaves an increment.                                           *)
BonusBalanceMatchesLedger ==
  \A c \in Customers : bonus[c] = SumFunctionOnSet(Entered, Entries(c))

Redemptions(k) == {r \in Customers : referral[r].status # "none" /\ referral[r].code = k}

(* A code's usageCount is the number of referrals redeemed through it,     *)
(* whatever signups, crashes and rejections happened (attachReferral).     *)
UsesMatchRedemptions ==
  \A k \in Codes : code[k].uses = Cardinality(Redemptions(k))

(* Who referred whom has no cycle, so no group of customers earns bonuses  *)
(* by referring itself: a code can only be redeemed while its redeemer is  *)
(* being created, however late that request attaches it (attachReferral).  *)
NoReferralCycle ==
  \A ring \in (SUBSET Customers) \ {{}} : \E c \in ring : referredBy[c] \notin ring

(* A referral that was rewarded or rejected never changes again: a stale   *)
(* handler neither pays a rejected one nor rejects a paid one.             *)
SettledIsFinal ==
  [][\A r \in Customers :
       referral[r].status \in Settled => referral'[r] = referral[r]]_vars

(* No referrer earns more rewards under a program than its cap, as long as *)
(* one handler runs at a time and the cap itself is not edited             *)
(* (maxRewardsPerReferrer).  The rewards are counted before the referral   *)
(* is claimed: two handlers can both find the last place free, and the     *)
(* cap is exceeded (README, section 6).                                    *)
CapRespected ==
  \A a \in Customers, p \in Programs :
    program[p].terms.cap # 0 =>
      Cardinality(RewardedUnder(a, p)) <= program[p].terms.cap

Qualifies(r) ==
  /\ referral[r].status \in Claimable
  /\ deposits[r] >= program[ProgramOf(r)].terms.minDebit

(* A transaction of a referee whose deposits meet the threshold settles    *)
(* the referral, unless the deposits or the terms change under it.         *)
QualifiedIsSettled ==
  \A r \in Customers :
    (Qualifies(r) /\ pending[r] > 0) ~> ~Qualifies(r)

Mapped ==
  [r \in Customers |->
     CASE referral[r].status \in Claimable  -> "open"
       [] referral[r].status = "rewarded"   -> "paid"
       [] referral[r].status = "rejected"   -> "refused"
       [] OTHER                             -> "none"]

(* The component keeps the promise of ReferralPayout: the bonus ledger is  *)
(* what was paid, the status of the referral row its stage.                *)
Payout == INSTANCE ReferralPayout WITH
            Referees <- Customers, stage <- Mapped, paid <- ledger
PaysOnce == Payout!Spec
=============================================================================

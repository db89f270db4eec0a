-------------------------- MODULE VipQualification --------------------------
(***************************************************************************)
(* VIP criteria and the list of customers who reached them.                *)
(*                                                                         *)
(* vip_qualifications is derived from the ledger from three directions: a  *)
(* TransactionCreated handler adds one customer, a request that changes a  *)
(* criteria rebuilds its list, and a nightly job rebuilds those that are   *)
(* current. All of them read the terms of a criteria in one statement and  *)
(* write the list in later ones.                                           *)
(***************************************************************************)
EXTENDS VipList, FiniteSets, Functions

CONSTANTS
  Movements,   \* what a new transaction may add to the metric
  MaxMetric,   \* bound: a customer's metric of one day is in 0..MaxMetric
  Evaluators,  \* concurrently running TransactionCreated handlers
  Requests,    \* concurrently running create, update and recompute requests
  Nightly,     \* the drift job
  MaxFailures, \* bound: database errors and crashes in a behaviour
  None

(* A criteria with the terms it was read with.                            *)
Task == [criteria: Criteria, terms: Terms \cup {NoTerms}]

ASSUME VipAssumption ==
  /\ IsFiniteSet(Customers)
  /\ LastDay \in Nat \ {0} /\ Thresholds \subseteq Nat \ {0}
  /\ Movements \subseteq Int
  /\ {MaxMetric, MaxFailures} \subseteq Nat
  /\ Nightly \notin Requests
  /\ None \notin Customers /\ None \notin Criteria /\ None \notin Task

Jobs == Requests \cup {Nightly}

VARIABLES
  metric,    \* what a customer's live transactions of a day add to the metric
  pending,   \* TransactionCreated events emitted and not yet handled
  eval,      \* local state of each running event handler
  job,       \* local state of each running recompute
  drift,     \* history: something changed that the list was not told of
  failures   \* database errors and crashes so far

vars == <<today, metric, criteria, qualified, pending, eval, job, drift, failures>>

NoEvaluation == [customer |-> None, todo |-> {}]
(* todo holds the criteria a job read, with their terms; older the rows    *)
(* whose computed_at precedes startedAt, the watermark of the current one. *)
NoJob == [pc |-> "idle", todo |-> {}, current |-> None, older |-> {}]
Row(k) == [criteria |-> k, terms |-> criteria[k].terms]

Achieved(c, terms) == SumFunctionOnSet(metric[c], terms.first..terms.last)
Reaching(terms) == {c \in Customers : Achieved(c, terms) >= terms.threshold}

Init ==
  /\ ListInit
  /\ metric = [c \in Customers |-> [d \in Days |-> 0]]
  /\ pending = {}
  /\ eval = [e \in Evaluators |-> NoEvaluation]
  /\ job = [j \in Jobs |-> NoJob]
  /\ drift = FALSE
  /\ failures = 0

-----------------------------------------------------------------------------
(* The feed from the transactions service. An entry may be backdated.      *)

EnterTransaction(c, d, movement) ==
  /\ metric[c][d] + movement \in 0..MaxMetric
  /\ metric' = [metric EXCEPT ![c][d] = @ + movement]
  /\ pending' = pending \cup {<<c, d>>}
  /\ UNCHANGED <<today, criteria, qualified, eval, job, drift, failures>>

(* Deleting an entry, or editing its date, emits no event. *)
RemoveTransaction(c, d, movement) ==
  /\ metric[c][d] # 0 /\ metric[c][d] - movement \in 0..MaxMetric
  /\ metric' = [metric EXCEPT ![c][d] = @ - movement]
  /\ drift' = TRUE
  /\ UNCHANGED <<today, criteria, qualified, pending, eval, job, failures>>

MoveTransaction(c, d, to, movement) ==
  /\ metric[c][d] # 0 /\ metric[c][d] - movement \in 0..MaxMetric
  /\ metric[c][to] + movement \in 0..MaxMetric
  /\ metric' = [metric EXCEPT ![c][d] = @ - movement, ![c][to] = @ + movement]
  /\ drift' = TRUE
  /\ UNCHANGED <<today, criteria, qualified, pending, eval, job, failures>>

Midnight ==
  /\ NewDay
  /\ UNCHANGED <<metric, pending, eval, job, drift, failures>>

-----------------------------------------------------------------------------
(* Masters: requests that write a criteria and go on to rebuild its list.  *)

StartRebuild(j, k, terms) ==
  job' = [job EXCEPT ![j] = [NoJob EXCEPT !.pc = "mark",
                             !.todo = {[criteria |-> k, terms |-> terms]}]]

CreateCriteria(q, k, terms) ==
  /\ job[q].pc = "idle"
  /\ Create(k, terms)
  /\ StartRebuild(q, k, terms)
  /\ UNCHANGED <<metric, pending, eval, drift, failures>>

(* updateCriteria writes after it has looked the criteria up. *)
StartUpdate(q, k) ==
  /\ job[q].pc = "idle"
  /\ Listed(k)
  /\ job' = [job EXCEPT ![q] = [NoJob EXCEPT !.pc = "update",
                                !.current = [criteria |-> k, terms |-> NoTerms]]]
  /\ UNCHANGED <<today, metric, criteria, qualified, pending, eval, drift, failures>>

(* Terms are given, the same ones or others, and the list is rebuilt. *)
UpdateTerms(q, terms, active) ==
  /\ job[q].pc = "update"
  /\ Edit(job[q].current.criteria, terms, active)
  /\ StartRebuild(q, job[q].current.criteria, terms)
  /\ drift' = TRUE
  /\ UNCHANGED <<metric, pending, eval, failures>>

(* isActive alone does not trigger a rebuild. *)
UpdateActive(q, active) ==
  LET k == job[q].current.criteria IN
  /\ job[q].pc = "update"
  /\ Edit(k, criteria[k].terms, active)
  /\ job' = [job EXCEPT ![q] = NoJob]
  /\ drift' = TRUE
  /\ UNCHANGED <<metric, pending, eval, failures>>

(* Mutation: the list of a removed criteria goes with it. *)
RemoveCriteriaAndList(k) ==
  /\ Listed(k)
  /\ criteria' = [criteria EXCEPT ![k].status = "removed"]
  /\ qualified' = [qualified EXCEPT ![k] = {}]
  /\ UNCHANGED <<today, metric, pending, eval, job, drift, failures>>

RemoveCriteria(k) ==
  /\ Remove(k)
  /\ UNCHANGED <<metric, pending, eval, job, drift, failures>>

Recompute(q, k) ==
  /\ job[q].pc = "idle"
  /\ Listed(k)
  /\ StartRebuild(q, k, criteria[k].terms)
  /\ UNCHANGED <<today, metric, criteria, qualified, pending, eval, drift, failures>>

-----------------------------------------------------------------------------
(* recomputeActiveCriteria: only windows that cover today.                 *)
RecomputeActiveCriteria ==
  /\ job[Nightly].pc = "idle"
  /\ \E k \in Criteria : Current(k)
  /\ job' = [job EXCEPT ![Nightly] =
       [NoJob EXCEPT !.pc = "mark", !.todo = {Row(k) : k \in {l \in Criteria : Current(l)}}]]
  /\ UNCHANGED <<today, metric, criteria, qualified, pending, eval, drift, failures>>

-----------------------------------------------------------------------------
(* recomputeCriteria, for a request or for each criteria of the nightly    *)
(* job. NOW() of the database does not precede new Date() of the backend:  *)
(* see the README.                                                         *)

Mark(j, todo) ==
  /\ job[j].pc = "mark"
  /\ todo \in job[j].todo
  /\ job' = [job EXCEPT ![j].pc = "upsert", ![j].current = todo,
                        ![j].older = qualified[todo.criteria]]
  /\ UNCHANGED <<today, metric, criteria, qualified, pending, eval, drift, failures>>

(* Mutation: ON CONFLICT leaves computed_at as it was. *)
StampedOnInsert(k, customers) ==
  [j \in Jobs |-> IF job[j].current # None /\ job[j].current.criteria = k
                  THEN [job[j] EXCEPT !.older = @ \ (customers \ qualified[k])] ELSE job[j]]

(* Every upsert stamps its rows with a computed_at later than the          *)
(* watermarks there are: they are older for no running job any more.       *)
Stamped(k, customers) ==
  [j \in Jobs |-> IF job[j].current # None /\ job[j].current.criteria = k
                  THEN [job[j] EXCEPT !.older = @ \ customers] ELSE job[j]]

Upsert(j) ==
  LET w == job[j].current
      reaching == Reaching(w.terms) IN
  /\ job[j].pc = "upsert"
  /\ qualified' = [qualified EXCEPT ![w.criteria] = @ \cup reaching]
  /\ job' = [Stamped(w.criteria, reaching) EXCEPT ![j].pc = "cleanup"]
  /\ UNCHANGED <<today, metric, criteria, pending, eval, drift, failures>>

(* Mutation: the loop goes on with the criteria it has just done. *)
NextJobAgain(j) ==
  LET left == job[j].todo \ {job[j].current} IN
  IF left = {} THEN [job[j] EXCEPT !.pc = "upsert", !.todo = left]
  ELSE [NoJob EXCEPT !.pc = "mark", !.todo = left]

NextJob(j) ==
  LET left == job[j].todo \ {job[j].current} IN
  IF left = {} THEN NoJob ELSE [NoJob EXCEPT !.pc = "mark", !.todo = left]

(* Mutation: the upsert is taken to be enough. *)
CleanupNothing(j) ==
  /\ job[j].pc = "cleanup"
  /\ qualified' = qualified
  /\ job' = [job EXCEPT ![j] = NextJob(j)]
  /\ UNCHANGED <<today, metric, criteria, pending, eval, drift, failures>>

Cleanup(j) ==
  LET w == job[j].current IN
  /\ job[j].pc = "cleanup"
  /\ qualified' = [qualified EXCEPT ![w.criteria] = @ \ job[j].older]
  /\ job' = [job EXCEPT ![j] = NextJob(j)]
  /\ UNCHANGED <<today, metric, criteria, pending, eval, drift, failures>>

-----------------------------------------------------------------------------
(* evaluateCustomer: one statement reads the criteria, one for each of     *)
(* them sums and upserts. It never deletes.                                *)

Evaluation(c, todo) ==
  IF todo = {} THEN NoEvaluation ELSE [customer |-> c, todo |-> todo]

LoadCriteria(e, c, d) ==
  /\ eval[e].todo = {}
  /\ <<c, d>> \in pending
  /\ pending' = pending \ {<<c, d>>}
  /\ eval' = [eval EXCEPT ![e] = Evaluation(c, {Row(k) : k \in
       {l \in Criteria : Listed(l) /\ criteria[l].active /\ Covers(criteria[l].terms, d)}})]
  /\ UNCHANGED <<today, metric, criteria, qualified, job, drift, failures>>

EvaluateCustomer(e, todo) ==
  LET reaching == Reaching(todo.terms) \cap {eval[e].customer} IN
  /\ todo \in eval[e].todo
  /\ qualified' = [qualified EXCEPT ![todo.criteria] = @ \cup reaching]
  /\ job' = Stamped(todo.criteria, reaching)
  /\ eval' = [eval EXCEPT ![e] = Evaluation(@.customer, @.todo \ {todo})]
  /\ UNCHANGED <<today, metric, criteria, pending, drift, failures>>

-----------------------------------------------------------------------------
(* Failures. A handler swallows its error; the nightly job goes on with    *)
(* the next criteria, a request ends.                                      *)

EvaluationFails(e) ==
  /\ failures < MaxFailures
  /\ eval[e].todo # {}
  /\ eval' = [eval EXCEPT ![e] = NoEvaluation]
  /\ failures' = failures + 1 /\ drift' = TRUE
  /\ UNCHANGED <<today, metric, criteria, qualified, pending, job>>

RecomputeFails(j) ==
  /\ failures < MaxFailures
  /\ job[j].pc \in {"update", "upsert", "cleanup"}
  /\ job' = [job EXCEPT ![j] = NextJob(j)]
  /\ failures' = failures + 1 /\ drift' = TRUE
  /\ UNCHANGED <<today, metric, criteria, qualified, pending, eval>>

(* The process dies: what was in memory is gone. *)
Crash ==
  /\ failures < MaxFailures
  /\ pending' = {}
  /\ eval' = [e \in Evaluators |-> NoEvaluation]
  /\ job' = [j \in Jobs |-> NoJob]
  /\ failures' = failures + 1 /\ drift' = TRUE
  /\ UNCHANGED <<today, metric, criteria, qualified>>

-----------------------------------------------------------------------------
Books ==
  \E c \in Customers, d \in Days, m \in Movements :
    \/ EnterTransaction(c, d, m)
    \/ RemoveTransaction(c, d, m)
    \/ \E to \in Days \ {d} : MoveTransaction(c, d, to, m)

Masters ==
  \/ \E k \in Criteria :
       \/ RemoveCriteria(k)
       \/ \E q \in Requests :
            \/ \E terms \in Terms : CreateCriteria(q, k, terms)
            \/ StartUpdate(q, k) \/ Recompute(q, k)
  \/ \E q \in Requests, active \in BOOLEAN :
       UpdateActive(q, active) \/ \E terms \in Terms : UpdateTerms(q, terms, active)

RecomputeCriteria(j) ==
  (\E todo \in job[j].todo : Mark(j, todo)) \/ Upsert(j) \/ Cleanup(j)

Handle(e) == \E todo \in eval[e].todo : EvaluateCustomer(e, todo)

Errors == (\E e \in Evaluators : EvaluationFails(e)) \/ (\E j \in Jobs : RecomputeFails(j))

Next ==
  \/ Books \/ Masters \/ Midnight \/ Errors \/ Crash
  \/ RecomputeActiveCriteria
  \/ \E j \in Jobs : RecomputeCriteria(j)
  \/ \E e \in Evaluators, c \in Customers, d \in Days : LoadCriteria(e, c, d)
  \/ \E e \in Evaluators : Handle(e)

Spec == Init /\ [][Next]_vars

(* Started requests and handlers go on, events are handled, and the cron   *)
(* job fires every night. Staff, calendar and failures are free.           *)
Fairness ==
  /\ WF_vars(RecomputeActiveCriteria)
  /\ \A j \in Jobs : WF_vars(RecomputeCriteria(j))
  /\ \A e \in Evaluators : WF_vars(Handle(e))
  /\ \A c \in Customers, d \in Days : WF_vars(\E e \in Evaluators : LoadCriteria(e, c, d))

FairSpec == Spec /\ Fairness

-----------------------------------------------------------------------------
(* Properties.                                                             *)

Job ==
  {w \in [pc: {"idle", "update", "mark", "upsert", "cleanup"}, todo: SUBSET Task,
          current: Task \cup {None}, older: SUBSET Customers] :
     w.pc \in {"upsert", "cleanup"} => w.current \in w.todo}

(* Rows keep the schema; a job works on criteria it has read.              *)
TypeOK ==
  /\ today \in Days
  /\ metric \in [Customers -> [Days -> Int]]
  /\ criteria \in [Criteria -> [status: {"none", "listed", "removed"}, active: BOOLEAN,
                                terms: Terms \cup {NoTerms}]]
  /\ qualified \in [Criteria -> SUBSET Customers]
  /\ pending \subseteq Customers \X Days
  /\ eval \in [Evaluators -> [customer: Customers \cup {None}, todo: SUBSET Task]]
  /\ job \in [Jobs -> Job]
  /\ drift \in BOOLEAN
  /\ failures \in Nat

(* Customers whose event, evaluation or rebuild for criteria k is under    *)
(* way and will still add them.                                            *)
OnTheWay(k) ==
  LET terms == criteria[k].terms IN
  {c \in Customers :
     \/ \E d \in Days : <<c, d>> \in pending /\ Covers(terms, d)
     \/ \E e \in Evaluators : eval[e].customer = c /\ Row(k) \in eval[e].todo
     \/ \E j \in Jobs : job[j].pc \in {"mark", "upsert"} /\ Row(k) \in job[j].todo}

(* Until something changes behind its back (an entry deleted or moved, a   *)
(* criteria edited, an error), the list follows the ledger: whoever        *)
(* reaches an active criteria is on it or about to be, and, when entries   *)
(* only add to the metric, nobody else is. Rebuilds and evaluations that   *)
(* overlap take nobody off who was put on meanwhile (the watermark).       *)
ListFollowsLedger ==
  \A k \in Criteria : (Listed(k) /\ criteria[k].active /\ ~drift) =>
    LET reaching == Reaching(criteria[k].terms) IN
    /\ reaching \subseteq qualified[k] \cup OnTheWay(k)
    /\ Movements \subseteq Nat => qualified[k] \subseteq reaching

(* The nightly job repairs everything: once ledger and criteria are left   *)
(* alone while a window is current, its list is and stays exactly who      *)
(* reaches it, whatever was edited, lost or computed from stale terms.     *)
NightlyRepairs ==
  \A k \in Criteria :
    (<>[][UNCHANGED <<metric, criteria>>]_vars /\ <>[]Current(k)) =>
      <>[](qualified[k] = Reaching(criteria[k].terms))

(* Whoever reads the component sees what VipList promises.                 *)
KeepsList == ListSpec
=============================================================================

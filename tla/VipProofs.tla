------------------------------ MODULE VipProofs ------------------------------
(* Theorems about the VIP component, about the spins that read it, and     *)
(* about the two of them together: VipQualification and Spins for every    *)
(* set of customers, criteria, events and requests, any metric and any     *)
(* calendar.  They meet in VipList, whose steps come first.                *)
EXTENDS VipQualification, Spins, Sums, FiniteSetTheorems, TLAPS

CriteriaRow ==
  [status: {"none", "listed", "removed"}, active: BOOLEAN, terms: Terms \cup {NoTerms}]
Introduced(k) == k \in Criteria /\ criteria[k].status # "none"
ListTypeOK ==
  /\ criteria \in [Criteria -> CriteriaRow]
  /\ \A k \in Criteria : Introduced(k) => criteria[k].terms \in Terms
  /\ qualified \in [Criteria -> SUBSET Customers]

(* Rows of criteria are never given back.                                  *)
CriteriaStay == \A k \in Criteria : Introduced(k) => criteria'[k].status # "none"

LEMMA ListMoves ==
  ASSUME ListTypeOK, ListNext
  PROVE  ListTypeOK' /\ CriteriaStay
<1>1. CASE NewDay
  BY <1>1 DEF NewDay, ListTypeOK, CriteriaStay, Introduced
<1>2. ASSUME NEW k \in Criteria, NEW terms \in Terms, Create(k, terms)
      PROVE  ListTypeOK' /\ CriteriaStay
  <2>1. /\ [status |-> "listed", active |-> TRUE, terms |-> terms] \in CriteriaRow
        /\ [status |-> "listed", active |-> TRUE, terms |-> terms].terms \in Terms
    BY DEF CriteriaRow
  <2> QED BY <1>2, <2>1 DEF Create, ListTypeOK, CriteriaStay, Introduced
<1>3. ASSUME NEW k \in Criteria, NEW terms \in Terms, NEW active \in BOOLEAN,
             Edit(k, terms, active)
      PROVE  ListTypeOK' /\ CriteriaStay
  <2>1. criteria' = [criteria EXCEPT ![k] =
                       [criteria[k] EXCEPT !.terms = terms, !.active = active]]
    BY <1>3 DEF Edit, ListTypeOK
  <2>2. criteria[k] \in CriteriaRow
    BY DEF ListTypeOK
  <2>3. /\ [criteria[k] EXCEPT !.terms = terms, !.active = active] \in CriteriaRow
        /\ [criteria[k] EXCEPT !.terms = terms, !.active = active].status # "none"
        /\ [criteria[k] EXCEPT !.terms = terms, !.active = active].terms \in Terms
    BY <1>3, <2>2 DEF CriteriaRow, Edit
  <2> QED BY <1>3, <2>1, <2>3 DEF Edit, ListTypeOK, CriteriaStay, Introduced
<1>4. ASSUME NEW k \in Criteria, Remove(k)
      PROVE  ListTypeOK' /\ CriteriaStay
  <2>1. criteria[k] \in CriteriaRow
    BY DEF ListTypeOK
  <2>2. /\ [criteria[k] EXCEPT !.status = "removed"] \in CriteriaRow
        /\ [criteria[k] EXCEPT !.status = "removed"].status # "none"
        /\ [criteria[k] EXCEPT !.status = "removed"].terms = criteria[k].terms
    BY <2>1 DEF CriteriaRow
  <2>3. Introduced(k)
    BY <1>4 DEF Remove, Listed, Introduced
  <2> QED BY <1>4, <2>2, <2>3 DEF Remove, ListTypeOK, CriteriaStay, Introduced
<1>5. ASSUME NEW k \in Criteria, NEW customers \in SUBSET Customers, Relist(k, customers)
      PROVE  ListTypeOK' /\ CriteriaStay
  BY <1>5 DEF Relist, ListTypeOK, CriteriaStay, Introduced
<1> QED BY <1>1, <1>2, <1>3, <1>4, <1>5 DEF ListNext

LEMMA ListInitTypeOK == ListInit => ListTypeOK
BY DEF ListInit, ListTypeOK, CriteriaRow, NoCriteria, Introduced

(* Whoever obeys the interface keeps the tables in their schema.           *)
THEOREM ListTypeCorrect == ListSpec => []ListTypeOK
<1>1. ListTypeOK /\ [ListNext]_listVars => ListTypeOK'
  BY ListMoves DEF listVars, ListTypeOK, Introduced
<1> QED BY <1>1, ListInitTypeOK, PTL DEF ListSpec

-----------------------------------------------------------------------------
(* VipQualification.                                                       *)

Known == {k \in Criteria : criteria[k].status # "none"}
Eval == [customer: Customers \cup {None}, todo: SUBSET Task]

(* Handlers and rebuilds work on criteria that were there when they were   *)
(* read, and rows of criteria are never given back.                        *)
GoodEval(r, known) == r \in Eval /\ \A w \in r.todo : w.criteria \in known
GoodJob(r, known) ==
  /\ r \in Job
  /\ \A w \in r.todo : w.criteria \in known
  /\ r.pc \in {"update", "upsert", "cleanup"} =>
       r.current \in Task /\ r.current.criteria \in known

TypeInvariant ==
  /\ TypeOK /\ ListTypeOK
  /\ \A e \in Evaluators : GoodEval(eval[e], Known)
  /\ \A j \in Jobs : GoodJob(job[j], Known)

LEMMA IdleIsGood ==
  ASSUME NEW known
  PROVE  GoodEval(NoEvaluation, known) /\ GoodJob(NoJob, known)
BY DEF GoodEval, GoodJob, NoEvaluation, NoJob, Job, Eval

LEMMA RowIsTask ==
  ASSUME ListTypeOK, NEW k \in Known
  PROVE  Row(k) \in Task /\ Row(k).criteria \in Known
BY DEF ListTypeOK, CriteriaRow, Row, Task, Known

LEMMA GoodGrows ==
  ASSUME NEW known, NEW more, known \subseteq more
  PROVE  /\ \A r : GoodEval(r, known) => GoodEval(r, more)
         /\ \A r : GoodJob(r, known) => GoodJob(r, more)
BY DEF GoodEval, GoodJob

LEMMA KnownGrows ==
  ASSUME ListTypeOK, [ListNext]_listVars
  PROVE  ListTypeOK' /\ Known \subseteq Known'
<1>1. CASE ListNext
  BY <1>1, ListMoves DEF CriteriaStay, Introduced, Known
<1>2. CASE UNCHANGED listVars
  BY <1>2 DEF listVars, ListTypeOK, Known, Introduced
<1> QED BY <1>1, <1>2

(* All that the list asks of a step is to be one of VipList's; all that is *)
(* asked of handlers and rebuilds is to be good.                           *)
LEMMA GoodStep ==
  ASSUME TypeInvariant, [ListNext]_listVars, today' \in Days,
         metric' \in [Customers -> [Days -> Int]], pending' \subseteq Customers \X Days,
         drift' \in BOOLEAN, failures' \in Nat,
         eval' \in [Evaluators -> Eval], job' \in [Jobs -> Job],
         \A e \in Evaluators : GoodEval(eval'[e], Known) \/ GoodEval(eval'[e], Known'),
         \A j \in Jobs : GoodJob(job'[j], Known) \/ GoodJob(job'[j], Known')
  PROVE  TypeInvariant'
<1>1. ListTypeOK' /\ Known \subseteq Known'
  BY KnownGrows DEF TypeInvariant
<1>2. TypeOK'
  BY <1>1 DEF TypeOK, ListTypeOK, CriteriaRow, Eval
<1>3. /\ \A e \in Evaluators : GoodEval(eval'[e], Known')
      /\ \A j \in Jobs : GoodJob(job'[j], Known')
  BY <1>1, GoodGrows
<1>4. /\ (\A e \in Evaluators : GoodEval(eval[e], Known))'
      /\ (\A j \in Jobs : GoodJob(job[j], Known))'
  BY <1>3
<1> QED BY <1>1, <1>2, <1>4 DEF TypeInvariant

(* One handler, or one rebuild, goes on or ends.                           *)
LEMMA OneEval ==
  ASSUME TypeInvariant, NEW e \in Evaluators, NEW r, GoodEval(r, Known),
         eval' = [eval EXCEPT ![e] = r]
  PROVE  /\ eval' \in [Evaluators -> Eval]
         /\ \A f \in Evaluators : GoodEval(eval'[f], Known)
<1>1. eval \in [Evaluators -> Eval] /\ r \in Eval
  BY DEF TypeInvariant, TypeOK, Eval, GoodEval
<1>2. \A f \in Evaluators : eval'[f] = IF f = e THEN r ELSE eval[f]
  BY <1>1
<1> QED BY <1>1, <1>2 DEF TypeInvariant

LEMMA OneJob ==
  ASSUME TypeInvariant, NEW j \in Jobs, NEW r,
         GoodJob(r, Known) \/ GoodJob(r, Known'),
         job' = [job EXCEPT ![j] = r]
  PROVE  /\ job' \in [Jobs -> Job]
         /\ \A i \in Jobs : GoodJob(job'[i], Known) \/ GoodJob(job'[i], Known')
<1>1. job \in [Jobs -> Job] /\ r \in Job
  BY DEF TypeInvariant, TypeOK, GoodJob
<1>2. \A i \in Jobs : job'[i] = IF i = j THEN r ELSE job[i]
  BY <1>1
<1> QED BY <1>1, <1>2 DEF TypeInvariant

(* Stamping rows disturbs no rebuild but in what it will delete.           *)
LEMMA StampedIsGood ==
  ASSUME TypeInvariant, NEW k, NEW customers
  PROVE  /\ Stamped(k, customers) \in [Jobs -> Job]
         /\ \A j \in Jobs :
              /\ GoodJob(Stamped(k, customers)[j], Known)
              /\ Stamped(k, customers)[j].pc = job[j].pc
              /\ Stamped(k, customers)[j].todo = job[j].todo
              /\ Stamped(k, customers)[j].current = job[j].current
<1>1. ASSUME NEW j \in Jobs, NEW older \in SUBSET Customers
      PROVE  LET r == [job[j] EXCEPT !.older = older] IN
             /\ GoodJob(r, Known)
             /\ r.pc = job[j].pc /\ r.todo = job[j].todo /\ r.current = job[j].current
  BY <1>1 DEF TypeInvariant, TypeOK, GoodJob, Job
<1>2. \A j \in Jobs : job[j].older \ customers \in SUBSET Customers
  BY DEF TypeInvariant, TypeOK, Job
<1>3. \A j \in Jobs : GoodJob(job[j], Known)
  BY DEF TypeInvariant
<1>4. \A j \in Jobs :
        \/ Stamped(k, customers)[j] = [job[j] EXCEPT !.older = job[j].older \ customers]
        \/ Stamped(k, customers)[j] = job[j]
  BY DEF Stamped
<1>5. \A j \in Jobs :
        /\ GoodJob(Stamped(k, customers)[j], Known)
        /\ Stamped(k, customers)[j].pc = job[j].pc
        /\ Stamped(k, customers)[j].todo = job[j].todo
        /\ Stamped(k, customers)[j].current = job[j].current
  BY <1>1, <1>2, <1>3, <1>4
<1>6. Stamped(k, customers) = [j \in Jobs |-> Stamped(k, customers)[j]]
  BY DEF Stamped
<1>7. \A j \in Jobs : Stamped(k, customers)[j] \in Job
  BY <1>5 DEF GoodJob
<1> QED BY <1>5, <1>6, <1>7

LEMMA NextJobIsGood ==
  ASSUME TypeInvariant, NEW j \in Jobs, job[j].pc \in {"update", "upsert", "cleanup"}
  PROVE  GoodJob(NextJob(j), Known)
<1> DEFINE left == job[j].todo \ {job[j].current}
<1>1. left \in SUBSET Task /\ \A w \in left : w.criteria \in Known
  BY DEF TypeInvariant, GoodJob, Job
<1>2. GoodJob([NoJob EXCEPT !.pc = "mark", !.todo = left], Known)
  BY <1>1 DEF GoodJob, Job, NoJob
<1> QED BY <1>2, IdleIsGood DEF NextJob
LEMMA InitTypeInvariant == Init => TypeInvariant
<1> SUFFICES ASSUME Init PROVE TypeInvariant
  OBVIOUS
<1>1. ListTypeOK /\ 1 \in Days
  BY VipAssumption, ListInitTypeOK DEF Init, Days
<1>2. NoEvaluation \in Eval /\ NoJob \in Job
  BY IdleIsGood DEF GoodEval, GoodJob
<1>3. metric \in [Customers -> [Days -> Int]]
  BY DEF Init
<1>4. TypeOK
  BY <1>1, <1>2, <1>3 DEF Init, ListInit, TypeOK, ListTypeOK, CriteriaRow, Eval
<1> QED BY <1>1, <1>4, IdleIsGood DEF Init, TypeInvariant

(* A change of one list is what VipList calls relisting.                   *)
LEMMA Relisting ==
  ASSUME NEW k \in Known, NEW customers \in SUBSET Customers,
         qualified' = [qualified EXCEPT ![k] = customers], UNCHANGED <<today, criteria>>
  PROVE  ListNext
<1>1. Relist(k, customers) /\ k \in Criteria
  BY DEF Relist, Known
<1> QED BY <1>1 DEF ListNext

(* The part of TypeInvariant that a step which is not about jobs leaves.   *)
LEMMA Unmoved ==
  ASSUME TypeInvariant
  PROVE  /\ today \in Days /\ drift \in BOOLEAN /\ failures \in Nat
         /\ metric \in [Customers -> [Days -> Int]]
         /\ pending \subseteq Customers \X Days
         /\ eval \in [Evaluators -> Eval] /\ job \in [Jobs -> Job]
         /\ qualified \in [Criteria -> SUBSET Customers]
         /\ \A e \in Evaluators : GoodEval(eval[e], Known)
         /\ \A j \in Jobs : GoodJob(job[j], Known)
BY DEF TypeInvariant, TypeOK, Eval

(* An entry or its removal changes one day's metric, a move two.           *)
LEMMA MetricType ==
  ASSUME NEW m \in [Customers -> [Days -> Int]], NEW c \in Customers,
         NEW d \in Days, NEW x \in Int
  PROVE  [m EXCEPT ![c][d] = x] \in [Customers -> [Days -> Int]]
<1>1. m[c] \in [Days -> Int]
  OBVIOUS
<1>2. [m[c] EXCEPT ![d] = x] \in [Days -> Int]
  BY <1>1
<1> QED BY <1>2

LEMMA BooksStep ==
  ASSUME TypeInvariant, Books \/ Midnight
  PROVE  TypeInvariant' /\ [ListNext]_listVars
<1>1. ASSUME NEW c \in Customers, NEW d \in Days, NEW m \in Movements,
             \/ EnterTransaction(c, d, m) \/ RemoveTransaction(c, d, m)
             \/ \E to \in Days \ {d} : MoveTransaction(c, d, to, m)
      PROVE  TypeInvariant' /\ [ListNext]_listVars
  <2>1. m \in Int /\ metric[c] \in [Days -> Int]
    BY <1>1, Unmoved, VipAssumption
  <2>0. metric \in [Customers -> [Days -> Int]]
    BY Unmoved
  <2>a. ASSUME EnterTransaction(c, d, m) \/ RemoveTransaction(c, d, m)
        PROVE  metric' \in [Customers -> [Days -> Int]]
    <3>1. metric[c][d] + m \in Int /\ metric[c][d] - m \in Int
      BY <2>1
    <3>2. \/ metric' = [metric EXCEPT ![c][d] = metric[c][d] + m]
          \/ metric' = [metric EXCEPT ![c][d] = metric[c][d] - m]
      BY <2>a DEF EnterTransaction, RemoveTransaction
    <3> QED BY <2>0, <3>1, <3>2, MetricType
  <2>b. ASSUME NEW to \in Days \ {d}, MoveTransaction(c, d, to, m)
        PROVE  metric' \in [Customers -> [Days -> Int]]
    <3>1. metric[c][d] - m \in Int /\ metric[c][to] + m \in Int
      BY <2>1
    <3>2. [metric EXCEPT ![c][d] = metric[c][d] - m] \in [Customers -> [Days -> Int]]
      BY <2>0, <3>1, MetricType
    <3>3. metric' = [[metric EXCEPT ![c][d] = metric[c][d] - m]
                       EXCEPT ![c][to] = metric[c][to] + m]
      BY <2>b DEF MoveTransaction
    <3> QED BY <3>1, <3>2, <3>3, MetricType
  <2>2. metric' \in [Customers -> [Days -> Int]]
    BY <1>1, <2>a, <2>b
  <2>3. UNCHANGED <<today, criteria, qualified, eval, job, failures>>
    BY <1>1 DEF EnterTransaction, RemoveTransaction, MoveTransaction
  <2>4. pending' \subseteq Customers \X Days
    <3>1. pending' \in {pending, pending \cup {<<c, d>>}}
      BY <1>1 DEF EnterTransaction, RemoveTransaction, MoveTransaction
    <3> QED BY <3>1, Unmoved
  <2>5. drift' \in BOOLEAN
    BY <1>1, Unmoved DEF EnterTransaction, RemoveTransaction, MoveTransaction
  <2>6. [ListNext]_listVars
    BY <2>3 DEF listVars
  <2> QED BY <2>2, <2>3, <2>4, <2>5, <2>6, Unmoved, GoodStep
<1>2. CASE Midnight
  <2>1. today' \in Days
    BY <1>2, Unmoved, VipAssumption DEF Midnight, NewDay, Days
  <2>2. UNCHANGED <<metric, pending, eval, job, drift, failures>> /\ ListNext
    BY <1>2 DEF Midnight, ListNext
  <2> QED BY <2>1, <2>2, Unmoved, GoodStep
<1> QED BY <1>1, <1>2 DEF Books

(* Starting to rebuild a list the request has just written, or read.       *)
LEMMA RebuildIsGood ==
  ASSUME NEW known, NEW k \in known, known \subseteq Criteria,
         NEW terms \in Terms \cup {NoTerms}
  PROVE  /\ GoodJob([NoJob EXCEPT !.pc = "mark",
                       !.todo = {[criteria |-> k, terms |-> terms]}], known)
         /\ GoodJob([NoJob EXCEPT !.pc = "update",
                       !.current = [criteria |-> k, terms |-> NoTerms]], known)
<1>1. /\ [criteria |-> k, terms |-> terms] \in Task
      /\ [criteria |-> k, terms |-> NoTerms] \in Task
  BY DEF Task
<1>2. ASSUME NEW w \in Task, w.criteria \in known
      PROVE  /\ GoodJob([NoJob EXCEPT !.pc = "mark", !.todo = {w}], known)
             /\ GoodJob([NoJob EXCEPT !.pc = "update", !.current = w], known)
  BY <1>2 DEF GoodJob, Job, NoJob
<1> QED BY <1>1, <1>2

LEMMA MastersStep ==
  ASSUME TypeInvariant, Masters
  PROVE  TypeInvariant' /\ [ListNext]_listVars
<1>k. Known \subseteq Criteria /\ Known' \subseteq Criteria
  BY DEF Known
<1>1. ASSUME NEW k \in Criteria, NEW q \in Requests, NEW terms \in Terms,
             CreateCriteria(q, k, terms)
      PROVE  TypeInvariant' /\ [ListNext]_listVars
  <2>1. ListNext
    BY <1>1 DEF CreateCriteria, ListNext
  <2>2. k \in Known'
    BY <1>1 DEF CreateCriteria, Create, Known, TypeInvariant, TypeOK
  <2>3. q \in Jobs /\ today' = today
    BY <1>1 DEF Jobs, CreateCriteria, Create
  <2> DEFINE r == [NoJob EXCEPT !.pc = "mark", !.todo = {[criteria |-> k, terms |-> terms]}]
  <2>4. GoodJob(r, Known') /\ job' = [job EXCEPT ![q] = r]
    BY <1>1, <1>k, <2>2, RebuildIsGood DEF CreateCriteria, StartRebuild
  <2> HIDE DEF r
  <2>5. /\ job' \in [Jobs -> Job]
        /\ \A i \in Jobs : GoodJob(job'[i], Known) \/ GoodJob(job'[i], Known')
    BY <2>3, <2>4, OneJob
  <2>6. UNCHANGED <<metric, pending, eval, drift, failures>>
    BY <1>1 DEF CreateCriteria
  <2> QED BY <2>1, <2>3, <2>5, <2>6, Unmoved, GoodStep
<1>2. ASSUME NEW k \in Criteria, NEW q \in Requests, StartUpdate(q, k) \/ Recompute(q, k)
      PROVE  TypeInvariant' /\ [ListNext]_listVars
  <2>1. k \in Known /\ criteria[k].terms \in Terms \cup {NoTerms}
    BY <1>2 DEF StartUpdate, Recompute, Listed, Known, TypeInvariant, ListTypeOK, CriteriaRow
  <2>2. PICK r : GoodJob(r, Known) /\ job' = [job EXCEPT ![q] = r]
    BY <1>2, <1>k, <2>1, RebuildIsGood DEF StartUpdate, Recompute, StartRebuild
  <2>3. q \in Jobs
    BY DEF Jobs
  <2>4. /\ job' \in [Jobs -> Job]
        /\ \A i \in Jobs : GoodJob(job'[i], Known) \/ GoodJob(job'[i], Known')
    BY <2>2, <2>3, OneJob
  <2>5. UNCHANGED <<today, metric, criteria, qualified, pending, eval, drift, failures>>
    BY <1>2 DEF StartUpdate, Recompute
  <2> QED BY <2>4, <2>5, Unmoved, GoodStep DEF listVars
<1>3. ASSUME NEW q \in Requests, NEW active \in BOOLEAN,
             \/ UpdateActive(q, active)
             \/ \E terms \in Terms : UpdateTerms(q, terms, active)
      PROVE  TypeInvariant' /\ [ListNext]_listVars
  <2>1. q \in Jobs
    BY DEF Jobs
  <2>2. PICK k \in Known : k = job[q].current.criteria
    BY <1>3, <2>1, Unmoved DEF UpdateActive, UpdateTerms, GoodJob
  <2>3. ASSUME NEW terms \in Terms, UpdateTerms(q, terms, active)
        PROVE  TypeInvariant' /\ [ListNext]_listVars
    <3>1. ListNext
      BY <1>k, <2>2, <2>3 DEF UpdateTerms, ListNext
    <3>2. k \in Known'
      BY <3>1, <2>2, KnownGrows DEF TypeInvariant
    <3>3. PICK r : GoodJob(r, Known') /\ job' = [job EXCEPT ![q] = r]
      BY <1>k, <2>2, <2>3, <3>2, RebuildIsGood DEF UpdateTerms, StartRebuild
    <3>4. /\ job' \in [Jobs -> Job]
          /\ \A i \in Jobs : GoodJob(job'[i], Known) \/ GoodJob(job'[i], Known')
      BY <2>1, <3>3, OneJob
    <3>5. UNCHANGED <<metric, pending, eval, failures, today>> /\ drift' \in BOOLEAN
      BY <2>3 DEF UpdateTerms, Edit
    <3> QED BY <3>1, <3>4, <3>5, Unmoved, GoodStep
  <2>4. ASSUME UpdateActive(q, active)
        PROVE  TypeInvariant' /\ [ListNext]_listVars
    <3>1. k \in Criteria /\ criteria[k].terms \in Terms
      BY <2>2 DEF TypeInvariant, ListTypeOK, Introduced, Known
    <3>2. ListNext
      BY <2>2, <2>4, <3>1 DEF UpdateActive, ListNext
    <3>3. /\ job' \in [Jobs -> Job]
          /\ \A i \in Jobs : GoodJob(job'[i], Known) \/ GoodJob(job'[i], Known')
      BY <2>1, <2>4, IdleIsGood, OneJob DEF UpdateActive
    <3>4. UNCHANGED <<metric, pending, eval, failures, today>> /\ drift' \in BOOLEAN
      BY <2>4 DEF UpdateActive, Edit
    <3> QED BY <3>2, <3>3, <3>4, Unmoved, GoodStep
  <2> QED BY <1>3, <2>3, <2>4
<1>4. ASSUME NEW k \in Criteria, RemoveCriteria(k)
      PROVE  TypeInvariant' /\ [ListNext]_listVars
  <2>1. ListNext
    BY <1>4 DEF RemoveCriteria, ListNext
  <2>2. UNCHANGED <<today, metric, pending, eval, job, drift, failures>>
    BY <1>4 DEF RemoveCriteria, Remove
  <2> QED BY <2>1, <2>2, Unmoved, GoodStep
<1> QED BY <1>1, <1>2, <1>3, <1>4 DEF Masters
LEMMA RebuildStep ==
  ASSUME TypeInvariant,
         RecomputeActiveCriteria \/ \E j \in Jobs : RecomputeCriteria(j) \/ RecomputeFails(j)
  PROVE  TypeInvariant' /\ [ListNext]_listVars
<1>1. CASE RecomputeActiveCriteria
  <2> DEFINE r == [NoJob EXCEPT !.pc = "mark",
                                !.todo = {Row(k) : k \in {l \in Criteria : Current(l)}}]
  <2>1. \A k \in Criteria : Current(k) => Row(k) \in Task /\ Row(k).criteria \in Known
    BY RowIsTask DEF TypeInvariant, Current, Listed, Known
  <2>2. GoodJob(r, Known)
    BY <2>1 DEF GoodJob, Job, NoJob
  <2>3. job' = [job EXCEPT ![Nightly] = r] /\ Nightly \in Jobs
    BY <1>1 DEF RecomputeActiveCriteria, Jobs
  <2> HIDE DEF r
  <2>4. /\ job' \in [Jobs -> Job]
        /\ \A i \in Jobs : GoodJob(job'[i], Known) \/ GoodJob(job'[i], Known')
    BY <2>2, <2>3, OneJob
  <2>5. UNCHANGED <<today, metric, criteria, qualified, pending, eval, drift, failures>>
    BY <1>1 DEF RecomputeActiveCriteria
  <2> QED BY <2>4, <2>5, Unmoved, GoodStep DEF listVars
<1>2. ASSUME NEW j \in Jobs, NEW todo \in job[j].todo, Mark(j, todo)
      PROVE  TypeInvariant' /\ [ListNext]_listVars
  <2> DEFINE r == [job[j] EXCEPT !.pc = "upsert", !.current = todo,
                                 !.older = qualified[todo.criteria]]
  <2>1. GoodJob(job[j], Known) /\ todo \in Task /\ todo.criteria \in Known
    BY <1>2, Unmoved DEF GoodJob, Job
  <2>2. qualified[todo.criteria] \in SUBSET Customers
    BY <2>1, Unmoved DEF Known
  <2>3. GoodJob(r, Known)
    BY <2>1, <2>2 DEF GoodJob, Job
  <2>4. job' = [job EXCEPT ![j] = r]
    BY <1>2 DEF Mark
  <2> HIDE DEF r
  <2>5. /\ job' \in [Jobs -> Job]
        /\ \A i \in Jobs : GoodJob(job'[i], Known) \/ GoodJob(job'[i], Known')
    BY <2>3, <2>4, OneJob
  <2>6. UNCHANGED <<today, metric, criteria, qualified, pending, eval, drift, failures>>
    BY <1>2 DEF Mark
  <2> QED BY <2>5, <2>6, Unmoved, GoodStep DEF listVars
<1>3. ASSUME NEW j \in Jobs, Upsert(j)
      PROVE  TypeInvariant' /\ [ListNext]_listVars
  <2>1. PICK k \in Known : k = job[j].current.criteria
    BY <1>3, Unmoved DEF Upsert, GoodJob
  <2>2. PICK reaching \in SUBSET Customers :
          /\ qualified' = [qualified EXCEPT ![k] = qualified[k] \cup reaching]
          /\ job' = [Stamped(k, reaching) EXCEPT ![j].pc = "cleanup"]
    BY <1>3, <2>1 DEF Upsert, Reaching
  <2>3. UNCHANGED <<today, metric, criteria, pending, eval, drift, failures>>
    BY <1>3 DEF Upsert
  <2>4. qualified[k] \cup reaching \in SUBSET Customers
    BY Unmoved DEF Known
  <2>5. ListNext
    BY <2>2, <2>3, <2>4, Relisting
  <2> DEFINE s == Stamped(k, reaching)
  <2>6. /\ s \in [Jobs -> Job] /\ \A i \in Jobs : GoodJob(s[i], Known)
        /\ s[j].pc = "upsert"
    BY <1>3, StampedIsGood DEF Upsert
  <2> HIDE DEF s
  <2>7. [s[j] EXCEPT !.pc = "cleanup"] \in Job /\ GoodJob([s[j] EXCEPT !.pc = "cleanup"], Known)
    BY <2>6 DEF GoodJob, Job
  <2>8. job' = [s EXCEPT ![j] = [s[j] EXCEPT !.pc = "cleanup"]]
    BY <2>2 DEF s
  <2>9. job' \in [Jobs -> Job] /\ \A i \in Jobs : GoodJob(job'[i], Known)
    BY <2>6, <2>7, <2>8
  <2> QED BY <2>3, <2>5, <2>9, Unmoved, GoodStep
<1>4. ASSUME NEW j \in Jobs, Cleanup(j)
      PROVE  TypeInvariant' /\ [ListNext]_listVars
  <2>1. PICK k \in Known : k = job[j].current.criteria
    BY <1>4, Unmoved DEF Cleanup, GoodJob
  <2>2. /\ qualified' = [qualified EXCEPT ![k] = qualified[k] \ job[j].older]
        /\ job' = [job EXCEPT ![j] = NextJob(j)]
        /\ UNCHANGED <<today, metric, criteria, pending, eval, drift, failures>>
    BY <1>4, <2>1 DEF Cleanup
  <2>3. qualified[k] \ job[j].older \in SUBSET Customers
    BY Unmoved DEF Known
  <2>4. ListNext
    BY <2>2, <2>3, Relisting
  <2>5. GoodJob(NextJob(j), Known)
    BY <1>4, NextJobIsGood DEF Cleanup
  <2>6. /\ job' \in [Jobs -> Job]
        /\ \A i \in Jobs : GoodJob(job'[i], Known) \/ GoodJob(job'[i], Known')
    BY <2>2, <2>5, OneJob
  <2> QED BY <2>2, <2>4, <2>6, Unmoved, GoodStep
<1>5. ASSUME NEW j \in Jobs, RecomputeFails(j)
      PROVE  TypeInvariant' /\ [ListNext]_listVars
  <2>1. GoodJob(NextJob(j), Known)
    BY <1>5, NextJobIsGood DEF RecomputeFails
  <2>2. /\ job' \in [Jobs -> Job]
        /\ \A i \in Jobs : GoodJob(job'[i], Known) \/ GoodJob(job'[i], Known')
    BY <1>5, <2>1, OneJob DEF RecomputeFails
  <2>3. /\ failures' \in Nat /\ drift' \in BOOLEAN
        /\ UNCHANGED <<today, metric, criteria, qualified, pending, eval>>
    BY <1>5, Unmoved DEF RecomputeFails
  <2> QED BY <2>2, <2>3, Unmoved, GoodStep DEF listVars
<1> QED BY <1>1, <1>2, <1>3, <1>4, <1>5 DEF RecomputeCriteria

LEMMA HandlerStep ==
  ASSUME TypeInvariant, NEW e \in Evaluators,
         \/ \E c \in Customers, d \in Days : LoadCriteria(e, c, d)
         \/ Handle(e) \/ EvaluationFails(e)
  PROVE  TypeInvariant' /\ [ListNext]_listVars
<1>e. ASSUME NEW c \in Customers \cup {None}, NEW todo \in SUBSET Task,
             \A w \in todo : w.criteria \in Known
      PROVE  GoodEval(Evaluation(c, todo), Known)
  BY <1>e, IdleIsGood DEF GoodEval, Eval, Evaluation
<1>1. ASSUME NEW c \in Customers, NEW d \in Days, LoadCriteria(e, c, d)
      PROVE  TypeInvariant' /\ [ListNext]_listVars
  <2> DEFINE todo == {Row(k) : k \in {l \in Criteria :
                        Listed(l) /\ criteria[l].active /\ Covers(criteria[l].terms, d)}}
  <2>1. \A k \in Criteria : Listed(k) => Row(k) \in Task /\ Row(k).criteria \in Known
    BY RowIsTask DEF TypeInvariant, Listed, Known
  <2>2. todo \in SUBSET Task /\ \A w \in todo : w.criteria \in Known
    BY <2>1
  <2>3. eval' = [eval EXCEPT ![e] = Evaluation(c, todo)]
    BY <1>1 DEF LoadCriteria
  <2> HIDE DEF todo
  <2>4. eval' \in [Evaluators -> Eval] /\ \A f \in Evaluators : GoodEval(eval'[f], Known)
    BY <1>e, <2>2, <2>3, OneEval
  <2>5. /\ pending' \subseteq pending
        /\ UNCHANGED <<today, metric, criteria, qualified, job, drift, failures>>
    BY <1>1 DEF LoadCriteria
  <2>6. pending' \subseteq Customers \X Days
    BY <2>5, Unmoved
  <2> QED BY <2>4, <2>5, <2>6, Unmoved, GoodStep DEF listVars
<1>2. ASSUME NEW w \in eval[e].todo, EvaluateCustomer(e, w)
      PROVE  TypeInvariant' /\ [ListNext]_listVars
  <2>1. /\ eval[e] \in Eval /\ w.criteria \in Known
        /\ \A v \in eval[e].todo : v.criteria \in Known
    BY <1>2, Unmoved DEF GoodEval
  <2>2. GoodEval(Evaluation(eval[e].customer, eval[e].todo \ {w}), Known)
    BY <1>e, <2>1 DEF Eval
  <2>3. PICK reaching \in SUBSET Customers :
          /\ qualified' = [qualified EXCEPT ![w.criteria] = qualified[w.criteria] \cup reaching]
          /\ job' = Stamped(w.criteria, reaching)
    BY <1>2 DEF EvaluateCustomer, Reaching
  <2>4. /\ eval' = [eval EXCEPT ![e] = Evaluation(eval[e].customer, eval[e].todo \ {w})]
        /\ UNCHANGED <<today, metric, criteria, pending, drift, failures>>
    BY <1>2 DEF EvaluateCustomer
  <2>5. ListNext
    <3>1. qualified[w.criteria] \cup reaching \in SUBSET Customers
      BY <2>1, Unmoved DEF Known
    <3> QED BY <2>1, <2>3, <2>4, <3>1, Relisting
  <2>6. job' \in [Jobs -> Job] /\ \A j \in Jobs : GoodJob(job'[j], Known)
    BY <2>3, StampedIsGood
  <2>7. eval' \in [Evaluators -> Eval] /\ \A f \in Evaluators : GoodEval(eval'[f], Known)
    BY <2>2, <2>4, OneEval
  <2> QED BY <2>4, <2>5, <2>6, <2>7, Unmoved, GoodStep
<1>3. CASE EvaluationFails(e)
  <2>1. eval' \in [Evaluators -> Eval] /\ \A f \in Evaluators : GoodEval(eval'[f], Known)
    BY <1>3, IdleIsGood, OneEval DEF EvaluationFails
  <2>2. /\ failures' \in Nat /\ drift' \in BOOLEAN
        /\ UNCHANGED <<today, metric, criteria, qualified, pending, job>>
    BY <1>3, Unmoved DEF EvaluationFails
  <2> QED BY <2>1, <2>2, Unmoved, GoodStep DEF listVars
<1> QED BY <1>1, <1>2, <1>3 DEF Handle

LEMMA CrashStep ==
  ASSUME TypeInvariant, Crash
  PROVE  TypeInvariant' /\ [ListNext]_listVars
<1>1. /\ eval' = [e \in Evaluators |-> NoEvaluation] /\ job' = [j \in Jobs |-> NoJob]
      /\ pending' = {} /\ failures' \in Nat /\ drift' \in BOOLEAN
      /\ UNCHANGED <<today, metric, criteria, qualified>>
  BY Unmoved DEF Crash
<1>2. NoEvaluation \in Eval /\ NoJob \in Job
  BY IdleIsGood DEF GoodEval, GoodJob
<1> QED BY <1>1, <1>2, IdleIsGood, Unmoved, GoodStep DEF listVars

LEMMA NextTypeInvariant ==
  TypeInvariant /\ [Next]_vars => TypeInvariant' /\ [ListNext]_listVars
<1> SUFFICES ASSUME TypeInvariant, [Next]_vars
             PROVE  TypeInvariant' /\ [ListNext]_listVars
  OBVIOUS
<1>1. CASE UNCHANGED vars
  BY <1>1, Unmoved, GoodStep DEF vars, listVars
<1> QED
  BY <1>1, BooksStep, MastersStep, RebuildStep, HandlerStep, CrashStep DEF Next, Errors

(* Rows, handlers and rebuilds keep their shape.                           *)
THEOREM TypeCorrect == Spec => []TypeOK
<1>1. TypeInvariant => TypeOK
  BY DEF TypeInvariant
<1> QED BY <1>1, InitTypeInvariant, NextTypeInvariant, PTL DEF Spec

(* Whatever the handlers, the rebuilds, the nightly job and failures do to *)
(* the list, a reader sees a step of VipList: what is proved of Spins over *)
(* VipList holds over this component.                                      *)
THEOREM ImplementsList == Spec => KeepsList
<1>1. Init => ListInit
  BY DEF Init
<1> QED BY <1>1, InitTypeInvariant, NextTypeInvariant, PTL DEF Spec, KeepsList, ListSpec

-----------------------------------------------------------------------------
(* The list follows the ledger.  A task is a criteria with its terms; what *)
(* holds of the list is said for each customer and each task in force:     *)
(* who reaches it is on the list or awaited by an event, a handler or a    *)
(* request (the nightly job, which does one criteria after the other, is   *)
(* not counted on), and a rebuild takes nobody off who reaches it but is   *)
(* awaited.  Until something drifts, the terms that were read still stand. *)

Reaches(c, w) == Achieved(c, w.terms) >= w.terms.threshold
Waits(c, w) ==
  \/ \E d \in Days : <<c, d>> \in pending /\ Covers(w.terms, d)
  \/ \E e \in Evaluators : eval[e].customer = c /\ w \in eval[e].todo
  \/ \E q \in Requests : job[q].pc \in {"mark", "upsert"} /\ w \in job[q].todo
InForce(w) == Listed(w.criteria) /\ criteria[w.criteria].terms = w.terms

OnList(c, w) == Reaches(c, w) => c \in qualified[w.criteria] \/ Waits(c, w)
NotTakenOff(c, w) ==
  \A j \in Jobs : (/\ job[j].pc = "cleanup" /\ job[j].current = w
                   /\ c \in job[j].older /\ Reaches(c, w)) => Waits(c, w)
NobodyElse(c, w) == (Movements \subseteq Nat /\ c \in qualified[w.criteria]) => Reaches(c, w)
Follows(c, w) == OnList(c, w) /\ NotTakenOff(c, w) /\ NobodyElse(c, w)

(* A request rebuilds one list.                                            *)
OneTask == \A q \in Requests : \A v, w \in job[q].todo : v = w
TermsStand ==
  /\ \A e \in Evaluators : \A w \in eval[e].todo : criteria[w.criteria].terms = w.terms
  /\ \A j \in Jobs : \A w \in job[j].todo : criteria[w.criteria].terms = w.terms
  /\ \A k \in Criteria : criteria[k].status = "none" => qualified[k] = {}
EnteredActive == \A k \in Criteria : Listed(k) => criteria[k].active

Following ==
  /\ OneTask /\ TermsStand /\ EnteredActive
  /\ \A c \in Customers, w \in Task : InForce(w) => Follows(c, w)
ListInvariant == TypeInvariant /\ (~drift => Following)

LEMMA TaskInForce ==
  ASSUME NEW w \in Task
  PROVE  /\ w.criteria \in Criteria /\ w.terms \in Terms \cup {NoTerms}
         /\ w.terms.first \in Days /\ w.terms.last \in Days /\ w.terms.threshold \in Int
         /\ InForce(w) => Row(w.criteria) = w
         /\ \A v \in Task : (v.criteria = w.criteria /\ v.terms = w.terms) => v = w
<1>1. w.criteria \in Criteria /\ w.terms \in Terms \cup {NoTerms}
  BY DEF Task
<1>2. \A terms \in Terms : terms.first \in Days /\ terms.last \in Days /\ terms.threshold \in Int
  <2>1. \A terms \in [threshold: Thresholds, first: Days, last: Days] :
          terms.first \in Days /\ terms.last \in Days /\ terms.threshold \in Thresholds
    OBVIOUS
  <2>2. Terms \subseteq [threshold: Thresholds, first: Days, last: Days]
    BY DEF Terms
  <2>3. Thresholds \subseteq Int
    BY VipAssumption
  <2> HIDE DEF Terms
  <2> QED BY <2>1, <2>2, <2>3
<1>3. NoTerms.first \in Days /\ NoTerms.last \in Days /\ NoTerms.threshold \in Int
  BY VipAssumption DEF NoTerms, Days
<1>4. InForce(w) => Row(w.criteria) = w
  BY DEF InForce, Row, Task
<1>5. \A v \in Task : (v.criteria = w.criteria /\ v.terms = w.terms) => v = w
  BY DEF Task
<1> QED BY <1>1, <1>2, <1>3, <1>4, <1>5

(* An entry moves what one customer has achieved, if its day is covered.   *)
LEMMA AchievedMoves ==
  ASSUME TypeInvariant, NEW c \in Customers, NEW d \in Days, NEW m \in Int,
         metric' = [metric EXCEPT ![c][d] = metric[c][d] + m],
         NEW b \in Customers, NEW w \in Task
  PROVE  /\ Achieved(b, w.terms) \in Int
         /\ Achieved(b, w.terms)' = Achieved(b, w.terms)
                                     + (IF b = c /\ Covers(w.terms, d) THEN m ELSE 0)
<1> DEFINE S == w.terms.first..w.terms.last
<1>1. w.terms.first \in Days /\ w.terms.last \in Days
  BY TaskInForce
<1>2. S \subseteq Days /\ IsFiniteSet(S) /\ (d \in S <=> Covers(w.terms, d))
  <2>1. w.terms.first \in Int /\ w.terms.last \in Int /\ d \in Int
    BY <1>1 DEF Days
  <2>2. IsFiniteSet(S)
    BY <2>1, FS_Interval
  <2>3. S \subseteq Days
    BY <1>1, VipAssumption DEF Days
  <2>4. d \in S <=> Covers(w.terms, d)
    BY <2>1 DEF Covers
  <2> QED BY <2>2, <2>3, <2>4
<1>3. metric \in [Customers -> [Days -> Int]]
  BY DEF TypeInvariant, TypeOK
<1>4. /\ \A x \in S : metric[b][x] \in Int /\ metric[c][x] \in Int
      /\ metric[c][d] \in Int
  BY <1>2, <1>3
<1> HIDE DEF S
<1>5. SumFunctionOnSet(metric[b], S) \in Int
  BY <1>2, <1>4, SumInt
<1>6. CASE b # c
  <2>1. metric'[b] = metric[b]
    BY <1>3, <1>6
  <2> QED BY <1>5, <1>6, <2>1 DEF Achieved, S
<1>7. CASE b = c
  <2>1. metric'[c] = [metric[c] EXCEPT ![d] = metric[c][d] + m]
    BY <1>3
  <2>2. metric[c] \in [Days -> Int]
    BY <1>3
  <2>3. /\ metric'[c][d] = metric[c][d] + m
        /\ \A x \in S \ {d} : metric'[c][x] = metric[c][x]
    BY <1>2, <2>1, <2>2
  <2>4. \A x \in S : metric[c][x] \in Int /\ metric'[c][x] \in Int
    BY <1>4, <2>3
  <2>5. \A x \in S \ {d} : metric[c][x] = metric'[c][x]
    BY <2>3
  <2>6. SumFunctionOnSet(metric'[c], S) = SumFunctionOnSet(metric[c], S)
          + (IF d \in S THEN metric'[c][d] - metric[c][d] ELSE 0)
    <3> DEFINE f == metric[c]
               g == metric'[c]
    <3>1. /\ \A x \in S : f[x] \in Int /\ g[x] \in Int
          /\ \A x \in S \ {d} : f[x] = g[x]
      BY <2>4, <2>5
    <3>2. IsFiniteSet(S)
      BY <1>2
    <3> HIDE DEF f, g
    <3>3. SumFunctionOnSet(g, S) =
            SumFunctionOnSet(f, S) + (IF d \in S THEN g[d] - f[d] ELSE 0)
      BY <3>1, <3>2, SumChangeIf
    <3> QED BY <3>3 DEF f, g
  <2>7. metric'[c][d] - metric[c][d] = m
    BY <1>4, <2>3
  <2> QED BY <1>2, <1>5, <1>7, <2>6, <2>7 DEF Achieved, S
<1> QED BY <1>6, <1>7

LEMMA EnterFollows ==
  ASSUME TypeInvariant, Following, NEW c \in Customers, NEW d \in Days, NEW m \in Movements,
         EnterTransaction(c, d, m)
  PROVE  Following'
<1>1. /\ metric' = [metric EXCEPT ![c][d] = metric[c][d] + m]
      /\ pending' = pending \cup {<<c, d>>} /\ m \in Int
      /\ UNCHANGED <<criteria, qualified, eval, job>>
  BY VipAssumption DEF EnterTransaction
<1>2. (OneTask /\ TermsStand /\ EnteredActive)'
  BY <1>1 DEF Following, OneTask, TermsStand, EnteredActive, Listed
<1>3. ASSUME NEW b \in Customers, NEW w \in Task, InForce(w)'
      PROVE  Follows(b, w)'
  <2>1. Follows(b, w)
    BY <1>1, <1>3 DEF Following, InForce, Listed
  <2>2. Waits(b, w) => Waits(b, w)'
    BY <1>1 DEF Waits
  <2>3. /\ Achieved(b, w.terms) \in Int /\ w.terms.threshold \in Int
        /\ Achieved(b, w.terms)' = Achieved(b, w.terms)
                                    + (IF b = c /\ Covers(w.terms, d) THEN m ELSE 0)
    <3>1. w.terms.threshold \in Int
      BY TaskInForce
    <3>2. metric' = [metric EXCEPT ![c][d] = metric[c][d] + m] /\ m \in Int
      BY <1>1
    <3> QED BY <3>1, <3>2, AchievedMoves
  <2>4. CASE b = c /\ Covers(w.terms, d)
    <3>1. Waits(b, w)'
      BY <1>1, <2>4 DEF Waits
    <3>2. Movements \subseteq Nat /\ Reaches(b, w) => Reaches(b, w)'
      BY <2>3, <2>4 DEF Reaches
    <3> QED BY <1>1, <2>1, <3>1, <3>2 DEF Follows, OnList, NotTakenOff, NobodyElse
  <2>5. CASE ~(b = c /\ Covers(w.terms, d))
    <3>1. Reaches(b, w)' <=> Reaches(b, w)
      BY <2>3, <2>5 DEF Reaches
    <3> QED BY <1>1, <2>1, <2>2, <3>1 DEF Follows, OnList, NotTakenOff, NobodyElse
  <2> QED BY <2>4, <2>5
<1> QED BY <1>2, <1>3 DEF Following

(* A job that starts, or takes its next task.                              *)
LEMMA StartFollows ==
  ASSUME TypeInvariant, Following, NEW j \in Jobs, NEW r, job' = [job EXCEPT ![j] = r],
         UNCHANGED <<metric, criteria, qualified, pending, eval>>,
         r.pc # "cleanup",
         job[j].pc \in {"mark", "upsert"} =>
           r.pc \in {"mark", "upsert"} /\ job[j].todo \subseteq r.todo,
         \A w \in r.todo : criteria[w.criteria].terms = w.terms,
         j \in Requests => \A v, w \in r.todo : v = w
  PROVE  Following'
<1>1. \A i \in Jobs : job'[i] = IF i = j THEN r ELSE job[i]
  BY DEF TypeInvariant, TypeOK
<1>2. Requests \subseteq Jobs
  BY DEF Jobs
<1>3. (OneTask /\ TermsStand /\ EnteredActive)'
  BY <1>1, <1>2 DEF Following, OneTask, TermsStand, EnteredActive, Listed
<1>4. ASSUME NEW c \in Customers, NEW w \in Task, InForce(w)'
      PROVE  Follows(c, w)'
  <2>1. Follows(c, w)
    BY <1>4 DEF Following, InForce, Listed
  <2>2. Reaches(c, w)' <=> Reaches(c, w)
    BY DEF Reaches, Achieved
  <2>3. Waits(c, w) => Waits(c, w)'
    BY <1>1, <1>2 DEF Waits
  <2>4. \A i \in Jobs : job'[i].pc = "cleanup" => job'[i] = job[i]
    BY <1>1
  <2> QED BY <2>1, <2>2, <2>3, <2>4 DEF Follows, OnList, NotTakenOff, NobodyElse
<1> QED BY <1>3, <1>4 DEF Following

LEMMA MastersFollow ==
  ASSUME TypeInvariant, Following, ~drift, ~drift', Masters
  PROVE  Following'
<1>j. Requests \subseteq Jobs
  BY DEF Jobs
<1>1. ASSUME NEW k \in Criteria, NEW q \in Requests, NEW terms \in Terms,
             CreateCriteria(q, k, terms)
      PROVE  Following'
  <2> DEFINE new == [criteria |-> k, terms |-> terms]
             r == [NoJob EXCEPT !.pc = "mark", !.todo = {new}]
  <2>1. /\ criteria' = [criteria EXCEPT ![k] =
                          [status |-> "listed", active |-> TRUE, terms |-> terms]]
        /\ job' = [job EXCEPT ![q] = r]
        /\ criteria[k].status = "none" /\ job[q].pc = "idle"
        /\ UNCHANGED <<metric, qualified, pending, eval>>
    BY <1>1 DEF CreateCriteria, Create, StartRebuild
  <2>2. /\ r.pc = "mark" /\ r.todo = {new} /\ new.criteria = k /\ new.terms = terms
        /\ new \in Task
    BY DEF NoJob, Task
  <2> HIDE DEF r, new
  <2>3. \A i \in Jobs : job'[i] = IF i = q THEN r ELSE job[i]
    BY <2>1 DEF TypeInvariant, TypeOK
  <2>4. /\ \A l \in Criteria \ {k} : criteria'[l] = criteria[l]
        /\ Listed(k)' /\ criteria'[k].active /\ criteria'[k].terms = terms
    BY <2>1 DEF Listed, TypeInvariant, TypeOK
  <2>5. /\ \A e \in Evaluators : \A w \in eval[e].todo : w.criteria \in Criteria \ {k}
        /\ \A i \in Jobs : \A w \in job[i].todo : w.criteria \in Criteria \ {k}
    BY <2>1 DEF TypeInvariant, GoodEval, GoodJob, Known
  <2>6. OneTask'
    BY <1>j, <2>2, <2>3 DEF Following, OneTask
  <2>7. TermsStand'
    <3>1. \A e \in Evaluators : \A w \in eval'[e].todo : criteria'[w.criteria].terms = w.terms
      BY <2>1, <2>4, <2>5 DEF Following, TermsStand
    <3>2. \A i \in Jobs : \A w \in job'[i].todo : criteria'[w.criteria].terms = w.terms
      BY <2>2, <2>3, <2>4, <2>5 DEF Following, TermsStand
    <3>3. \A l \in Criteria : criteria'[l].status = "none" => qualified'[l] = {}
      BY <2>1, <2>4 DEF Following, TermsStand, Listed
    <3> QED BY <3>1, <3>2, <3>3 DEF TermsStand
  <2>8. EnteredActive'
    BY <2>4 DEF Following, EnteredActive, Listed
  <2>9. ASSUME NEW c \in Customers, NEW w \in Task, InForce(w)'
        PROVE  Follows(c, w)'
    <3>1. CASE w.criteria = k
      <4>1. w = new
        BY <2>2, <2>4, <2>9, <3>1, TaskInForce DEF InForce
      <4>2. Waits(c, w)'
        BY <1>j, <2>2, <2>3, <4>1 DEF Waits
      <4>3. c \notin qualified'[w.criteria]
        BY <2>1, <3>1 DEF Following, TermsStand
      <4> QED BY <4>2, <4>3 DEF Follows, OnList, NotTakenOff, NobodyElse
    <3>2. CASE w.criteria # k
      <4>1. InForce(w)
        BY <2>4, <2>9, <3>2, TaskInForce DEF InForce, Listed
      <4>2. Follows(c, w)
        BY <4>1 DEF Following
      <4>3. Reaches(c, w)' <=> Reaches(c, w)
        BY <2>1 DEF Reaches, Achieved
      <4>4. Waits(c, w) => Waits(c, w)'
        BY <1>j, <2>1, <2>3 DEF Waits
      <4>5. \A i \in Jobs : job'[i].pc = "cleanup" => job'[i] = job[i]
        BY <2>2, <2>3
      <4> QED BY <2>1, <4>2, <4>3, <4>4, <4>5 DEF Follows, OnList, NotTakenOff, NobodyElse
    <3> QED BY <3>1, <3>2
  <2> QED BY <2>6, <2>7, <2>8, <2>9 DEF Following
<1>2. ASSUME NEW k \in Criteria, NEW q \in Requests, StartUpdate(q, k)
      PROVE  Following'
  <2> DEFINE r == [NoJob EXCEPT !.pc = "update",
                                !.current = [criteria |-> k, terms |-> NoTerms]]
  <2>1. r.pc = "update" /\ r.todo = {}
    BY DEF NoJob
  <2>2. /\ job' = [job EXCEPT ![q] = r] /\ job[q].pc = "idle" /\ q \in Jobs
        /\ UNCHANGED <<metric, criteria, qualified, pending, eval>>
    BY <1>2, <1>j DEF StartUpdate
  <2> HIDE DEF r
  <2> QED BY <2>1, <2>2, StartFollows
<1>3. ASSUME NEW k \in Criteria, NEW q \in Requests, Recompute(q, k)
      PROVE  Following'
  <2> DEFINE row == [criteria |-> k, terms |-> criteria[k].terms]
             r == [NoJob EXCEPT !.pc = "mark", !.todo = {row}]
  <2>1. r.pc = "mark" /\ r.todo = {row} /\ criteria[row.criteria].terms = row.terms
    BY DEF NoJob
  <2>2. /\ job' = [job EXCEPT ![q] = r] /\ job[q].pc = "idle" /\ q \in Jobs
        /\ UNCHANGED <<metric, criteria, qualified, pending, eval>>
    BY <1>3, <1>j DEF Recompute, StartRebuild
  <2> HIDE DEF r, row
  <2> QED BY <2>1, <2>2, StartFollows
<1>4. ASSUME NEW k \in Criteria, RemoveCriteria(k)
      PROVE  Following'
  <2>1. /\ criteria' = [criteria EXCEPT ![k] = [criteria[k] EXCEPT !.status = "removed"]]
        /\ UNCHANGED <<metric, qualified, pending, eval, job>>
    BY <1>4 DEF RemoveCriteria, Remove
  <2>2. \A l \in Criteria : criteria[l] \in CriteriaRow
    BY DEF TypeInvariant, ListTypeOK
  <2>3. \A l \in Criteria :
          /\ criteria'[l].terms = criteria[l].terms
          /\ criteria'[l].active = criteria[l].active
          /\ Listed(l)' => Listed(l)
          /\ criteria'[l].status = "none" => criteria[l].status = "none"
    BY <2>1, <2>2 DEF CriteriaRow, Listed, TypeInvariant, ListTypeOK
  <2>4. /\ \A e \in Evaluators : \A w \in eval[e].todo : w.criteria \in Criteria
        /\ \A i \in Jobs : \A w \in job[i].todo : w.criteria \in Criteria
    BY DEF TypeInvariant, GoodEval, GoodJob, Known
  <2>5. OneTask' /\ TermsStand'
    BY <2>1, <2>3, <2>4 DEF Following, OneTask, TermsStand
  <2>6. EnteredActive'
    BY <2>3 DEF Following, EnteredActive
  <2>7. ASSUME NEW c \in Customers, NEW w \in Task, InForce(w)'
        PROVE  Follows(c, w)'
    <3>1. InForce(w)
      BY <2>3, <2>7, TaskInForce DEF InForce
    <3>2. Follows(c, w)
      BY <3>1 DEF Following
    <3>3. (Reaches(c, w)' <=> Reaches(c, w)) /\ (Waits(c, w)' <=> Waits(c, w))
      BY <2>1 DEF Reaches, Achieved, Waits
    <3> QED BY <2>1, <3>2, <3>3 DEF Follows, OnList, NotTakenOff, NobodyElse
  <2> QED BY <2>5, <2>6, <2>7 DEF Following
<1>5. ASSUME NEW q \in Requests, NEW active \in BOOLEAN,
             \/ UpdateActive(q, active)
             \/ \E terms \in Terms : UpdateTerms(q, terms, active)
      PROVE  FALSE
  BY <1>5 DEF UpdateActive, UpdateTerms
<1> QED BY <1>1, <1>2, <1>3, <1>4, <1>5 DEF Masters

(* Customers who reach a task are put on its list; whoever waited for just *)
(* that is on it now, and in no watermark.                                 *)
LEMMA RelistFollows ==
  ASSUME TypeInvariant, Following, NEW v \in Task, NEW S \in SUBSET Customers,
         criteria[v.criteria].terms = v.terms, \A c \in S : Reaches(c, v),
         qualified' = [qualified EXCEPT ![v.criteria] = qualified[v.criteria] \cup S],
         UNCHANGED <<metric, criteria>>, NEW c \in Customers, NEW w \in Task, InForce(w),
         Waits(c, w) => Waits(c, w)' \/ (w = v /\ (Reaches(c, w) => c \in S)),
         \A j \in Jobs :
           (/\ job'[j].pc = "cleanup" /\ job'[j].current = w
            /\ c \in job'[j].older /\ Reaches(c, w)) =>
             /\ job[j].pc = "cleanup" /\ job[j].current = w /\ c \in job[j].older
             /\ w = v => c \notin S
  PROVE  Follows(c, w)'
<1>1. Follows(c, w)
  BY DEF Following
<1>2. Reaches(c, w)' <=> Reaches(c, w)
  BY DEF Reaches, Achieved
<1>3. w.criteria = v.criteria => w = v
  BY TaskInForce DEF InForce
<1>4. qualified'[w.criteria] =
        IF w.criteria = v.criteria THEN qualified[v.criteria] \cup S ELSE qualified[w.criteria]
  BY TaskInForce DEF TypeInvariant, TypeOK
<1>5. OnList(c, w)'
  BY <1>1, <1>2, <1>4 DEF Follows, OnList
<1>6. NotTakenOff(c, w)'
  BY <1>1, <1>2 DEF Follows, NotTakenOff
<1>7. NobodyElse(c, w)'
  BY <1>1, <1>2, <1>3, <1>4 DEF Follows, NobodyElse
<1> QED BY <1>5, <1>6, <1>7 DEF Follows

LEMMA StampedJobs ==
  ASSUME TypeInvariant, NEW k, NEW S
  PROVE  \A i \in Jobs :
           /\ Stamped(k, S)[i].pc = job[i].pc
           /\ Stamped(k, S)[i].todo = job[i].todo
           /\ Stamped(k, S)[i].current = job[i].current
           /\ Stamped(k, S)[i].older \subseteq job[i].older
           /\ (job[i].current \in Task /\ job[i].current.criteria = k) =>
                Stamped(k, S)[i].older = job[i].older \ S
<1> TAKE i \in Jobs
<1>1. Stamped(k, S)[i] =
        IF job[i].current # None /\ job[i].current.criteria = k
        THEN [job[i] EXCEPT !.older = job[i].older \ S] ELSE job[i]
  BY DEF Stamped
<1>2. [job[i] EXCEPT !.older = job[i].older \ S].older = job[i].older \ S
  BY DEF TypeInvariant, TypeOK, Job
<1>3. job[i].current \in Task => job[i].current # None
  BY VipAssumption
<1> QED BY <1>1, <1>2, <1>3, StampedIsGood

LEMMA RebuildFollows ==
  ASSUME TypeInvariant, Following, ~drift',
         RecomputeActiveCriteria \/ \E j \in Jobs : RecomputeCriteria(j) \/ RecomputeFails(j)
  PROVE  Following'
<1>j. Requests \subseteq Jobs
  BY DEF Jobs
<1>1. CASE RecomputeActiveCriteria
  <2> DEFINE rows == {Row(k) : k \in {l \in Criteria : Current(l)}}
             r == [NoJob EXCEPT !.pc = "mark", !.todo = rows]
  <2>1. r.pc = "mark" /\ r.todo = rows /\ \A w \in rows : criteria[w.criteria].terms = w.terms
    BY DEF NoJob, Row
  <2>2. /\ job' = [job EXCEPT ![Nightly] = r] /\ job[Nightly].pc = "idle"
        /\ UNCHANGED <<metric, criteria, qualified, pending, eval>>
    BY <1>1 DEF RecomputeActiveCriteria
  <2>3. Nightly \in Jobs /\ Nightly \notin Requests
    BY VipAssumption DEF Jobs
  <2> HIDE DEF r, rows
  <2> QED BY <2>1, <2>2, <2>3, StartFollows
<1>2. ASSUME NEW j \in Jobs, NEW todo \in job[j].todo, Mark(j, todo)
      PROVE  Following'
  <2> DEFINE r == [job[j] EXCEPT !.pc = "upsert", !.current = todo,
                                 !.older = qualified[todo.criteria]]
  <2>1. r.pc = "upsert" /\ r.todo = job[j].todo
    BY DEF TypeInvariant, TypeOK, Job
  <2>2. /\ job' = [job EXCEPT ![j] = r]
        /\ UNCHANGED <<metric, criteria, qualified, pending, eval>>
    BY <1>2 DEF Mark
  <2>3. /\ \A w \in job[j].todo : criteria[w.criteria].terms = w.terms
        /\ j \in Requests => \A v, w \in job[j].todo : v = w
    BY DEF Following, TermsStand, OneTask
  <2> HIDE DEF r
  <2> QED BY <2>1, <2>2, <2>3, StartFollows
<1>3. ASSUME NEW j \in Jobs, Upsert(j)
      PROVE  Following'
  <2>1. PICK v \in Task : v = job[j].current /\ v \in job[j].todo
    BY <1>3 DEF Upsert, TypeInvariant, GoodJob, Job
  <2>3. criteria[v.criteria].terms = v.terms
    BY <2>1 DEF Following, TermsStand
  <2>2. PICK S \in SUBSET Customers :
          /\ \A c \in Customers : c \in S <=> Reaches(c, v)
          /\ qualified' = [qualified EXCEPT ![v.criteria] = qualified[v.criteria] \cup S]
          /\ job' = [Stamped(v.criteria, S) EXCEPT ![j].pc = "cleanup"]
          /\ job[j].pc = "upsert"
          /\ UNCHANGED <<metric, criteria, pending, eval>>
    <3>1. \A c \in Customers : c \in Reaching(v.terms) <=> Reaches(c, v)
      BY DEF Reaching, Reaches
    <3>2. Reaching(v.terms) \in SUBSET Customers
      BY DEF Reaching
    <3> QED BY <1>3, <2>1, <3>1, <3>2 DEF Upsert
  <2>4. \A i \in Jobs :
          /\ job'[i].todo = job[i].todo /\ job'[i].current = job[i].current
          /\ job'[i].older \subseteq job[i].older
          /\ job[i].current = v => job'[i].older = job[i].older \ S
          /\ job'[i].pc = IF i = j THEN "cleanup" ELSE job[i].pc
    <3> DEFINE s == Stamped(v.criteria, S)
    <3>1. s \in [Jobs -> Job]
      BY StampedIsGood
    <3>2. \A i \in Jobs :
            /\ s[i].pc = job[i].pc /\ s[i].todo = job[i].todo /\ s[i].current = job[i].current
            /\ s[i].older \subseteq job[i].older
            /\ job[i].current = v => s[i].older = job[i].older \ S
      BY StampedJobs
    <3>3. job' = [s EXCEPT ![j] = [s[j] EXCEPT !.pc = "cleanup"]]
      BY <2>2
    <3> HIDE DEF s
    <3>4. LET t == [s[j] EXCEPT !.pc = "cleanup"] IN
          /\ t.pc = "cleanup" /\ t.todo = s[j].todo
          /\ t.current = s[j].current /\ t.older = s[j].older
      BY <3>1 DEF Job
    <3>5. \A i \in Jobs : job'[i] = IF i = j THEN [s[j] EXCEPT !.pc = "cleanup"] ELSE s[i]
      BY <3>1, <3>3
    <3> QED BY <3>2, <3>4, <3>5
  <2>5. (OneTask /\ TermsStand /\ EnteredActive)'
    <3>1. OneTask'
      BY <1>j, <2>4 DEF Following, OneTask
    <3>2. \A k \in Criteria : criteria[k].status = "none" => qualified'[k] = qualified[k]
      BY <2>1, <2>2 DEF TypeInvariant, TypeOK, GoodJob, Known
    <3>3. TermsStand'
      BY <2>2, <2>4, <3>2 DEF Following, TermsStand
    <3> QED BY <2>2, <3>1, <3>3 DEF Following, EnteredActive, Listed
  <2>6. ASSUME NEW c \in Customers, NEW w \in Task, InForce(w)'
        PROVE  Follows(c, w)'
    <3>1. InForce(w)
      BY <2>2, <2>6 DEF InForce, Listed
    <3>2. Waits(c, w) => Waits(c, w)' \/ (w = v /\ (Reaches(c, w) => c \in S))
      <4>1. ASSUME NEW q \in Requests, job[q].pc \in {"mark", "upsert"}, w \in job[q].todo
            PROVE  Waits(c, w)' \/ (w = v /\ (Reaches(c, w) => c \in S))
        <5>1. CASE q = j
          BY <2>1, <2>2, <4>1, <5>1 DEF Following, OneTask
        <5>2. CASE q # j
          BY <1>j, <2>4, <4>1, <5>2 DEF Waits
        <5> QED BY <5>1, <5>2
      <4>2. (\/ \E d \in Days : <<c, d>> \in pending /\ Covers(w.terms, d)
             \/ \E e \in Evaluators : eval[e].customer = c /\ w \in eval[e].todo) => Waits(c, w)'
        BY <2>2 DEF Waits
      <4> QED BY <4>1, <4>2 DEF Waits
    <3>3. ASSUME NEW i \in Jobs, job'[i].pc = "cleanup", job'[i].current = w,
                 c \in job'[i].older, Reaches(c, w)
          PROVE  /\ job[i].pc = "cleanup" /\ job[i].current = w /\ c \in job[i].older
                 /\ w = v => c \notin S
      <4>1. i # j
        BY <2>1, <2>2, <2>4, <3>3
      <4> QED BY <2>4, <3>3, <4>1
    <3>4. /\ \A a \in S : Reaches(a, v)
          /\ \A i \in Jobs :
               (/\ job'[i].pc = "cleanup" /\ job'[i].current = w
                /\ c \in job'[i].older /\ Reaches(c, w)) =>
                 /\ job[i].pc = "cleanup" /\ job[i].current = w /\ c \in job[i].older
                 /\ w = v => c \notin S
      BY <2>2, <3>3
    <3>5. /\ criteria[v.criteria].terms = v.terms /\ UNCHANGED <<metric, criteria>>
          /\ qualified' = [qualified EXCEPT ![v.criteria] = qualified[v.criteria] \cup S]
      BY <2>2, <2>3
    <3> QED BY <3>1, <3>2, <3>4, <3>5, RelistFollows
  <2> QED BY <2>5, <2>6 DEF Following
<1>4. ASSUME NEW j \in Jobs, Cleanup(j)
      PROVE  Following'
  <2>1. PICK v \in Task : v = job[j].current /\ v \in job[j].todo
    BY <1>4 DEF Cleanup, TypeInvariant, GoodJob, Job
  <2>2. /\ qualified' = [qualified EXCEPT ![v.criteria] = qualified[v.criteria] \ job[j].older]
        /\ job' = [job EXCEPT ![j] = NextJob(j)]
        /\ job[j].pc = "cleanup"
        /\ UNCHANGED <<metric, criteria, pending, eval>>
    BY <1>4, <2>1 DEF Cleanup
  <2>3. NextJob(j).pc # "cleanup" /\ NextJob(j).todo \subseteq job[j].todo
    BY DEF NextJob, NoJob
  <2>4. \A i \in Jobs : job'[i] = IF i = j THEN NextJob(j) ELSE job[i]
    BY <2>2 DEF TypeInvariant, TypeOK
  <2>5. \A k \in Criteria :
          qualified'[k] = IF k = v.criteria THEN qualified[k] \ job[j].older ELSE qualified[k]
    BY <2>2 DEF TypeInvariant, TypeOK
  <2>6. (OneTask /\ TermsStand /\ EnteredActive)'
    BY <1>j, <2>2, <2>3, <2>4, <2>5
    DEF Following, OneTask, TermsStand, EnteredActive, Listed
  <2>7. ASSUME NEW c \in Customers, NEW w \in Task, InForce(w)'
        PROVE  Follows(c, w)'
    <3>1. Follows(c, w) /\ InForce(w) /\ w.criteria \in Criteria
      BY <2>2, <2>7, TaskInForce DEF Following, InForce, Listed
    <3>2. Reaches(c, w)' <=> Reaches(c, w)
      BY <2>2 DEF Reaches, Achieved
    <3>3. Waits(c, w) => Waits(c, w)'
      BY <1>j, <2>2, <2>4 DEF Waits
    <3>4. w.criteria = v.criteria => w = v
      <4>1. criteria[v.criteria].terms = v.terms
        BY <2>1 DEF Following, TermsStand
      <4> QED BY <3>1, <4>1, TaskInForce DEF InForce
    <3>5. OnList(c, w)'
      <4>1. (w = v /\ c \in job[j].older /\ Reaches(c, w)) => Waits(c, w)
        BY <2>1, <2>2, <3>1 DEF Follows, NotTakenOff
      <4> QED BY <2>5, <3>1, <3>2, <3>3, <3>4, <4>1 DEF Follows, OnList
    <3>6. NotTakenOff(c, w)'
      BY <2>3, <2>4, <3>1, <3>2, <3>3 DEF Follows, NotTakenOff
    <3>7. NobodyElse(c, w)'
      BY <2>5, <3>1, <3>2 DEF Follows, NobodyElse
    <3> QED BY <3>5, <3>6, <3>7 DEF Follows
  <2> QED BY <2>6, <2>7 DEF Following
<1>5. ASSUME NEW j \in Jobs, RecomputeFails(j)
      PROVE  FALSE
  BY <1>5 DEF RecomputeFails
<1> QED BY <1>1, <1>2, <1>3, <1>4, <1>5 DEF RecomputeCriteria

LEMMA HandlerFollows ==
  ASSUME TypeInvariant, Following, NEW e \in Evaluators,
         (\E c \in Customers, d \in Days : LoadCriteria(e, c, d)) \/ Handle(e)
  PROVE  Following'
<1>j. Requests \subseteq Jobs
  BY DEF Jobs
<1>0. \A b, todo : Evaluation(b, todo).todo = todo /\ (todo # {} => Evaluation(b, todo).customer = b)
  BY DEF Evaluation, NoEvaluation
<1>1. ASSUME NEW b \in Customers, NEW d \in Days, LoadCriteria(e, b, d)
      PROVE  Following'
  <2> DEFINE rows == {Row(k) : k \in {l \in Criteria :
                        Listed(l) /\ criteria[l].active /\ Covers(criteria[l].terms, d)}}
             r == Evaluation(b, rows)
  <2>1. /\ eval' = [eval EXCEPT ![e] = r] /\ eval[e].todo = {}
        /\ pending' = pending \ {<<b, d>>}
        /\ UNCHANGED <<metric, criteria, qualified, job>>
    BY <1>1 DEF LoadCriteria
  <2>2. \A w \in rows : criteria[w.criteria].terms = w.terms
    BY DEF Row
  <2>3. \A w \in Task : InForce(w) /\ Covers(w.terms, d) => w \in rows
    <3>1. ASSUME NEW w \in Task, InForce(w), Covers(w.terms, d)
          PROVE  w \in rows
      <4>1. Row(w.criteria) = w /\ w.criteria \in Criteria
        BY <3>1, TaskInForce
      <4>2. criteria[w.criteria].active
        BY <3>1, <4>1 DEF Following, EnteredActive, InForce
      <4> QED BY <3>1, <4>1, <4>2 DEF InForce
    <3> QED BY <3>1
  <2> HIDE DEF rows
  <2>4. r.todo = rows /\ (rows # {} => r.customer = b)
    BY <1>0
  <2> HIDE DEF r
  <2>5. \A f \in Evaluators : eval'[f] = IF f = e THEN r ELSE eval[f]
    BY <2>1 DEF TypeInvariant, TypeOK
  <2>6. (OneTask /\ TermsStand /\ EnteredActive)'
    BY <2>1, <2>2, <2>4, <2>5 DEF Following, OneTask, TermsStand, EnteredActive, Listed
  <2>7. ASSUME NEW c \in Customers, NEW w \in Task, InForce(w)'
        PROVE  Follows(c, w)'
    <3>1. Follows(c, w) /\ InForce(w)
      BY <2>1, <2>7 DEF Following, InForce, Listed
    <3>2. Reaches(c, w)' <=> Reaches(c, w)
      BY <2>1 DEF Reaches, Achieved
    <3>3. Waits(c, w) => Waits(c, w)'
      <4>1. ASSUME NEW x \in Days, <<c, x>> \in pending, Covers(w.terms, x)
            PROVE  Waits(c, w)'
        <5>1. CASE c = b /\ x = d
          BY <2>3, <2>4, <2>5, <3>1, <4>1, <5>1 DEF Waits
        <5>2. CASE ~(c = b /\ x = d)
          BY <2>1, <4>1, <5>2 DEF Waits
        <5> QED BY <5>1, <5>2
      <4>2. ASSUME NEW f \in Evaluators, eval[f].customer = c, w \in eval[f].todo
            PROVE  Waits(c, w)'
        BY <2>1, <2>5, <4>2 DEF Waits
      <4>3. ASSUME NEW q \in Requests, job[q].pc \in {"mark", "upsert"}, w \in job[q].todo
            PROVE  Waits(c, w)'
        BY <2>1, <4>3 DEF Waits
      <4> QED BY <4>1, <4>2, <4>3 DEF Waits
    <3> QED BY <2>1, <3>1, <3>2, <3>3 DEF Follows, OnList, NotTakenOff, NobodyElse
  <2> QED BY <2>6, <2>7 DEF Following
<1>2. ASSUME NEW v \in eval[e].todo, EvaluateCustomer(e, v)
      PROVE  Following'
  <2>1. v \in Task /\ v.criteria \in Known /\ criteria[v.criteria].terms = v.terms
    BY DEF TypeInvariant, GoodEval, Eval, Following, TermsStand
  <2>2. PICK S \in SUBSET Customers :
          /\ \A c \in Customers : c \in S <=> Reaches(c, v) /\ c = eval[e].customer
          /\ qualified' = [qualified EXCEPT ![v.criteria] = qualified[v.criteria] \cup S]
          /\ job' = Stamped(v.criteria, S)
    BY <1>2 DEF EvaluateCustomer, Reaching, Reaches
  <2> DEFINE r == Evaluation(eval[e].customer, eval[e].todo \ {v})
  <2>3. eval' = [eval EXCEPT ![e] = r] /\ UNCHANGED <<metric, criteria, pending>>
    BY <1>2 DEF EvaluateCustomer
  <2>4. r.todo = eval[e].todo \ {v} /\ (r.todo # {} => r.customer = eval[e].customer)
    BY <1>0
  <2> HIDE DEF r
  <2>5. \A f \in Evaluators : eval'[f] = IF f = e THEN r ELSE eval[f]
    BY <2>3 DEF TypeInvariant, TypeOK
  <2>6. \A i \in Jobs :
          /\ job'[i].pc = job[i].pc /\ job'[i].todo = job[i].todo
          /\ job'[i].current = job[i].current /\ job'[i].older \subseteq job[i].older
          /\ job[i].current = v => job'[i].older = job[i].older \ S
    BY <2>1, <2>2, StampedJobs
  <2>7. (OneTask /\ TermsStand /\ EnteredActive)'
    <3>1. OneTask'
      BY <1>j, <2>6 DEF Following, OneTask
    <3>2. \A k \in Criteria : criteria[k].status = "none" => qualified'[k] = qualified[k]
      BY <2>1, <2>2 DEF TypeInvariant, TypeOK, Known
    <3>3. TermsStand'
      BY <2>3, <2>4, <2>5, <2>6, <3>2 DEF Following, TermsStand
    <3> QED BY <2>3, <3>1, <3>3 DEF Following, EnteredActive, Listed
  <2>8. ASSUME NEW c \in Customers, NEW w \in Task, InForce(w)'
        PROVE  Follows(c, w)'
    <3>1. InForce(w)
      BY <2>3, <2>8 DEF InForce, Listed
    <3>2. Waits(c, w) => Waits(c, w)' \/ (w = v /\ (Reaches(c, w) => c \in S))
      <4>1. ASSUME NEW f \in Evaluators, eval[f].customer = c, w \in eval[f].todo
            PROVE  Waits(c, w)' \/ (w = v /\ (Reaches(c, w) => c \in S))
        <5>1. CASE f = e /\ w = v
          BY <2>2, <4>1, <5>1
        <5>2. CASE f = e /\ w # v
          BY <2>4, <2>5, <4>1, <5>2 DEF Waits
        <5>3. CASE f # e
          BY <2>5, <4>1, <5>3 DEF Waits
        <5> QED BY <5>1, <5>2, <5>3
      <4>2. (\/ \E d \in Days : <<c, d>> \in pending /\ Covers(w.terms, d)
             \/ \E q \in Requests : job[q].pc \in {"mark", "upsert"} /\ w \in job[q].todo)
             => Waits(c, w)'
        BY <1>j, <2>3, <2>6 DEF Waits
      <4> QED BY <4>1, <4>2 DEF Waits
    <3>3. ASSUME NEW i \in Jobs, job'[i].pc = "cleanup", job'[i].current = w,
                 c \in job'[i].older, Reaches(c, w)
          PROVE  /\ job[i].pc = "cleanup" /\ job[i].current = w /\ c \in job[i].older
                 /\ w = v => c \notin S
      BY <2>6, <3>3
    <3>4. /\ \A a \in S : Reaches(a, v)
          /\ \A i \in Jobs :
               (/\ job'[i].pc = "cleanup" /\ job'[i].current = w
                /\ c \in job'[i].older /\ Reaches(c, w)) =>
                 /\ job[i].pc = "cleanup" /\ job[i].current = w /\ c \in job[i].older
                 /\ w = v => c \notin S
      BY <2>2, <3>3
    <3>5. /\ criteria[v.criteria].terms = v.terms /\ UNCHANGED <<metric, criteria>>
          /\ qualified' = [qualified EXCEPT ![v.criteria] = qualified[v.criteria] \cup S]
      BY <2>1, <2>2, <2>3
    <3> QED BY <2>1, <3>1, <3>2, <3>4, <3>5, RelistFollows
  <2> QED BY <2>7, <2>8 DEF Following
<1> QED BY <1>1, <1>2 DEF Handle

LEMMA NextListInvariant == ListInvariant /\ [Next]_vars => ListInvariant'
<1> SUFFICES ASSUME ListInvariant, [Next]_vars, ~drift'
             PROVE  TypeInvariant' /\ Following'
  BY NextTypeInvariant DEF ListInvariant
<1>1. TypeInvariant /\ TypeInvariant'
  BY NextTypeInvariant DEF ListInvariant
<1>2. ~drift
  <2>1. Books => drift' \in {drift, TRUE}
    BY DEF Books, EnterTransaction, RemoveTransaction, MoveTransaction
  <2>2. Masters => drift' \in {drift, TRUE}
    BY DEF Masters, CreateCriteria, StartUpdate, UpdateTerms, UpdateActive, RemoveCriteria,
           Recompute
  <2>3. \A j \in Jobs : RecomputeCriteria(j) => drift' = drift
    BY DEF RecomputeCriteria, Mark, Upsert, Cleanup
  <2>4. \A e \in Evaluators : Handle(e) => drift' = drift
    BY DEF Handle, EvaluateCustomer
  <2>5. \A e \in Evaluators, c \in Customers, d \in Days : LoadCriteria(e, c, d) => drift' = drift
    BY DEF LoadCriteria
  <2>6. /\ Midnight \/ RecomputeActiveCriteria \/ UNCHANGED vars => drift' = drift
        /\ Errors \/ Crash => drift' = TRUE
    BY DEF Midnight, RecomputeActiveCriteria, vars, Errors, EvaluationFails, RecomputeFails, Crash
  <2> QED BY <2>1, <2>2, <2>3, <2>4, <2>5, <2>6 DEF Next
<1>3. Following
  BY <1>2 DEF ListInvariant
<1>4. CASE Books
  <2>1. PICK c \in Customers, d \in Days, m \in Movements : EnterTransaction(c, d, m)
    BY <1>4 DEF Books, RemoveTransaction, MoveTransaction
  <2> QED BY <1>1, <1>3, <2>1, EnterFollows
<1>5. CASE Masters
  BY <1>1, <1>2, <1>3, <1>5, MastersFollow
<1>6. CASE Midnight \/ UNCHANGED vars
  <2>1. UNCHANGED <<metric, criteria, qualified, pending, eval, job>>
    BY <1>6 DEF Midnight, NewDay, vars
  <2> QED BY <1>1, <1>3, <2>1
    DEF Following, OneTask, TermsStand, EnteredActive, Listed, InForce, Follows, OnList,
        NotTakenOff, NobodyElse, Reaches, Achieved, Waits
<1>7. CASE Errors \/ Crash
  BY <1>7 DEF Errors, EvaluationFails, RecomputeFails, Crash
<1>8. CASE RecomputeActiveCriteria \/ \E j \in Jobs : RecomputeCriteria(j)
  BY <1>1, <1>3, <1>8, RebuildFollows
<1>9. CASE \E e \in Evaluators : \/ \E c \in Customers, d \in Days : LoadCriteria(e, c, d)
                                 \/ Handle(e)
  BY <1>1, <1>3, <1>9, HandlerFollows
<1> QED BY <1>1, <1>4, <1>5, <1>6, <1>7, <1>8, <1>9 DEF Next

LEMMA InitListInvariant == Init => ListInvariant
<1> SUFFICES ASSUME Init PROVE ListInvariant
  OBVIOUS
<1>1. /\ \A k \in Criteria : criteria[k].status = "none" /\ qualified[k] = {}
      /\ \A e \in Evaluators : eval[e].todo = {}
      /\ \A j \in Jobs : job[j].todo = {}
  BY DEF Init, ListInit, NoCriteria, NoEvaluation, NoJob
<1>2. Requests \subseteq Jobs
  BY DEF Jobs
<1>3. \A w \in Task : ~InForce(w)
  BY <1>1, TaskInForce DEF InForce, Listed
<1> QED BY <1>1, <1>2, <1>3, InitTypeInvariant
  DEF ListInvariant, Following, OneTask, TermsStand, EnteredActive, Listed

(* Until an entry is deleted or moved, a criteria edited or something      *)
(* fails, the list is right but for those on the way: with any number of   *)
(* handlers and rebuilds at work, nobody who reaches a criteria is missed, *)
(* and no rebuild takes off who an overlapping one has put on.             *)
THEOREM ListFollows == Spec => []ListFollowsLedger
<1>1. ListInvariant => ListFollowsLedger
  <2> SUFFICES ASSUME ListInvariant, NEW k \in Criteria, Listed(k), ~drift
               PROVE  LET reaching == Reaching(criteria[k].terms) IN
                      /\ reaching \subseteq qualified[k] \cup OnTheWay(k)
                      /\ Movements \subseteq Nat => qualified[k] \subseteq reaching
    BY DEF ListFollowsLedger
  <2> DEFINE w == Row(k)
  <2>1. w \in Task /\ w.criteria = k /\ w.terms = criteria[k].terms
    BY RowIsTask DEF ListInvariant, TypeInvariant, Listed, Known, Row
  <2> HIDE DEF w
  <2>2. \A c \in Customers : Follows(c, w)
    BY <2>1 DEF ListInvariant, Following, InForce
  <2>3. \A c \in Customers : c \in Reaching(criteria[k].terms) <=> Reaches(c, w)
    BY <2>1 DEF Reaching, Reaches
  <2>4. \A c \in Customers : Waits(c, w) => c \in OnTheWay(k)
    BY <2>1 DEF Waits, OnTheWay, w, Jobs
  <2>5. Reaching(criteria[k].terms) \subseteq Customers /\ qualified[k] \subseteq Customers
    BY DEF Reaching, ListInvariant, TypeInvariant, ListTypeOK
  <2> QED BY <2>1, <2>2, <2>3, <2>4, <2>5 DEF Follows, OnList, NobodyElse
<1> QED BY <1>1, InitListInvariant, NextListInvariant, PTL DEF Spec

-----------------------------------------------------------------------------
(* Spins, whatever the list does meanwhile.                                *)

Event == [status: Statuses, criteria: Criteria \cup {NoRow}, due: BOOLEAN, deleted: BOOLEAN]
RequestRow ==
  [pc: {"idle", "preselect", "create", "record", "duplicates", "insert"},
   event: Events \cup {NoRow}, criteria: Criteria \cup {NoRow},
   terms: Terms \cup {NoTerms}, due: BOOLEAN, chosen: SUBSET Customers]

Created(v) == event[v].status # "none"

(* What a running request knows of the rows it has read.                   *)
RequestKnows(q) ==
  /\ request[q].pc # "idle" => Introduced(request[q].criteria)
  /\ request[q].pc \in {"record", "duplicates", "insert"} =>
       /\ request[q].event \in Events /\ Created(request[q].event)
       /\ event[request[q].event].criteria = request[q].criteria

SpinTypeInvariant == SpinTypeOK /\ ListTypeOK /\ \A q \in Calls : RequestKnows(q)

(* Events are never given back and keep their criteria.                    *)
EventsStay ==
  \A v \in Events : Created(v) =>
    event'[v].status # "none" /\ event'[v].criteria = event[v].criteria

(* What requests know survives every step of the others.                   *)
LEMMA KnowledgeStays ==
  ASSUME \A q \in Calls : RequestKnows(q), CriteriaStay, EventsStay,
         NEW q \in Calls, request'[q] = request[q]
  PROVE  RequestKnows(q)'
BY DEF RequestKnows, Introduced, Created, CriteriaStay, EventsStay

(* The status job moves events that exist, and only their status.          *)
LEMMA TickMoves ==
  ASSUME event \in [Events -> Event], AdvanceToLive \/ AdvanceToCompleted
  PROVE  /\ event' \in [Events -> Event] /\ EventsStay
         /\ \A v \in Events : ~Created(v) => event'[v] = event[v]
<1>1. \A v \in Events :
        \/ event'[v] = event[v]
        \/ /\ Created(v)
           /\ \E s \in {"live", "completed"} : event'[v] = [event[v] EXCEPT !.status = s]
  BY DEF AdvanceToLive, AdvanceToCompleted, Moved, Exists, Created
<1>2. event' = [v \in Events |-> event'[v]]
  BY DEF AdvanceToLive, AdvanceToCompleted, Moved
<1>3. \A v \in Events, s \in {"live", "completed"} :
        /\ [event[v] EXCEPT !.status = s] \in Event
        /\ [event[v] EXCEPT !.status = s].status # "none"
        /\ [event[v] EXCEPT !.status = s].criteria = event[v].criteria
  BY DEF Event, Statuses
<1>4. \A v \in Events : event'[v] \in Event
  BY <1>1, <1>3
<1> HIDE DEF Event
<1>5. event' \in [Events -> Event]
  BY <1>2, <1>4
<1> QED BY <1>1, <1>3, <1>5 DEF EventsStay, Created

(* A step of one request that writes no event.                             *)
LEMMA OneRequestMoves ==
  ASSUME SpinTypeInvariant, NEW q \in Calls, NEW r \in RequestRow,
         request' = [request EXCEPT ![q] = r], UNCHANGED <<vip, event, tick>>,
         winners' \in [Events -> SUBSET Customers],
         r.pc # "idle" => Introduced(r.criteria),
         r.pc \in {"record", "duplicates", "insert"} =>
           r.event \in Events /\ Created(r.event) /\ event[r.event].criteria = r.criteria
  PROVE  SpinTypeInvariant'
<1>1. request \in [Calls -> RequestRow]
  BY DEF SpinTypeInvariant, SpinTypeOK, RequestRow
<1>2. SpinTypeOK'
  BY <1>1 DEF SpinTypeInvariant, SpinTypeOK, RequestRow, vip, listVars
<1>3. ListTypeOK'
  BY DEF SpinTypeInvariant, ListTypeOK, Introduced, vip, listVars
<1>4. CriteriaStay /\ EventsStay
  BY DEF CriteriaStay, EventsStay, Introduced, Created, vip, listVars
<1>5. \A p \in Calls : p # q => request'[p] = request[p]
  BY <1>1
<1>6. request'[q] = r
  BY <1>1
<1>7. RequestKnows(q)'
  BY <1>6 DEF RequestKnows, Introduced, Created, vip, listVars
<1>8. \A p \in Calls : p # q => RequestKnows(p)'
  BY <1>4, <1>5, KnowledgeStays DEF SpinTypeInvariant
<1> QED BY <1>2, <1>3, <1>7, <1>8 DEF SpinTypeInvariant

(* A step that writes the table of events and no request but one that ends. *)
LEMMA EventsMove ==
  ASSUME SpinTypeInvariant, event' \in [Events -> Event], EventsStay,
         \A v \in Events : event'[v].status # "none" => Introduced(event'[v].criteria),
         UNCHANGED vip, tick' \in {"live", "completed"},
         winners' \in [Events -> SUBSET Customers],
         request' \in [Calls -> RequestRow],
         \A q \in Calls : request'[q] = request[q] \/ request'[q] = NoRequest
  PROVE  SpinTypeInvariant'
<1>1. SpinTypeOK'
  BY DEF SpinTypeInvariant, SpinTypeOK, RequestRow, Event, Introduced, vip, listVars
<1>2. ListTypeOK'
  BY DEF SpinTypeInvariant, ListTypeOK, Introduced, vip, listVars
<1>3. CriteriaStay
  BY DEF CriteriaStay, Introduced, vip, listVars
<1>4. \A q \in Calls : request'[q] = NoRequest => RequestKnows(q)'
  BY DEF RequestKnows, NoRequest
<1>5. \A q \in Calls : request'[q] = request[q] => RequestKnows(q)'
  BY <1>3, KnowledgeStays DEF SpinTypeInvariant
<1> QED BY <1>1, <1>2, <1>4, <1>5 DEF SpinTypeInvariant

(* A step that writes one event that exists and keeps its criteria.        *)
LEMMA OneEventMoves ==
  ASSUME SpinTypeInvariant, NEW v \in Events, NEW r \in Event, Created(v),
         r.status # "none", r.criteria = event[v].criteria,
         event' = [event EXCEPT ![v] = r], UNCHANGED <<vip, request, winners, tick>>
  PROVE  SpinTypeInvariant'
<1>1. event \in [Events -> Event] /\ request \in [Calls -> RequestRow]
  BY DEF SpinTypeInvariant, SpinTypeOK, Event, RequestRow
<1>2. event' \in [Events -> Event]
  BY <1>1
<1>3. \A w \in Events : event'[w] = IF w = v THEN r ELSE event[w]
  BY <1>1
<1>4. EventsStay
  BY <1>3 DEF EventsStay, Created
<1>5. \A w \in Events : event'[w].status # "none" => Introduced(event'[w].criteria)
  BY <1>3 DEF SpinTypeInvariant, SpinTypeOK, Introduced, Created
<1>6. tick' \in {"live", "completed"} /\ winners' \in [Events -> SUBSET Customers]
  BY DEF SpinTypeInvariant, SpinTypeOK
<1> QED BY <1>1, <1>2, <1>4, <1>5, <1>6, EventsMove

LEMMA InitSpinTypeInvariant == SpinInit => SpinTypeInvariant
BY DEF SpinInit, ListInit, SpinTypeInvariant, SpinTypeOK, ListTypeOK, CriteriaRow, NoCriteria, Introduced,
       NoEvent, NoRequest, RequestKnows, Statuses
LEMMA NoRequestRow == NoRequest \in RequestRow /\ NoRequest.pc = "idle"
BY DEF NoRequest, RequestRow

LEMMA NextSpinTypeInvariant == SpinTypeInvariant /\ [SpinNext]_vipAndSpins => SpinTypeInvariant'
<1> SUFFICES ASSUME SpinTypeInvariant, [SpinNext]_vipAndSpins PROVE SpinTypeInvariant'
  OBVIOUS
<1>t. /\ event \in [Events -> Event] /\ request \in [Calls -> RequestRow]
      /\ winners \in [Events -> SUBSET Customers] /\ tick \in {"live", "completed"}
      /\ \A v \in Events : Created(v) => Introduced(event[v].criteria)
      /\ \A q \in Calls : RequestKnows(q)
  BY DEF SpinTypeInvariant, SpinTypeOK, Event, RequestRow, Introduced, Created
<1>1. CASE Vip
  <2>1. ListTypeOK' /\ CriteriaStay
    BY <1>1, ListMoves DEF Vip, SpinTypeInvariant
  <2>2. EventsStay /\ request' = request
    BY <1>1 DEF Vip, spinVars, EventsStay, Created
  <2>3. \A q \in Calls : RequestKnows(q)'
    BY <2>1, <2>2, <1>t, KnowledgeStays
  <2>4. everListed' \in [Criteria -> SUBSET Customers]
    BY <1>1, <2>1 DEF Vip, SpinTypeInvariant, SpinTypeOK, ListTypeOK
  <2>5. SpinTypeOK'
    BY <1>1, <2>1, <2>4 DEF Vip, spinVars, SpinTypeInvariant, SpinTypeOK, CriteriaStay, Introduced
  <2> QED BY <2>1, <2>3, <2>5 DEF SpinTypeInvariant
<1>2. ASSUME NEW q \in Calls, NEW chosen \in SUBSET Customers, NEW k \in Criteria,
             NEW due \in BOOLEAN, StartCreate(q, k, due, chosen)
      PROVE  SpinTypeInvariant'
  <2> DEFINE r == [pc |-> IF chosen = {} THEN "create" ELSE "preselect", event |-> NoRow,
                   criteria |-> k, terms |-> IF due THEN criteria[k].terms ELSE NoTerms,
                   due |-> due, chosen |-> chosen]
  <2>1. criteria[k].terms \in Terms \cup {NoTerms}
    BY DEF SpinTypeInvariant, ListTypeOK, CriteriaRow
  <2>2. r \in RequestRow
    BY <2>1 DEF RequestRow
  <2>3. Introduced(k)
    BY <1>2 DEF StartCreate, Current, Listed, Introduced
  <2>4. r.criteria = k /\ r.pc \notin {"record", "duplicates", "insert"}
    OBVIOUS
  <2>5. request' = [request EXCEPT ![q] = r] /\ UNCHANGED <<vip, event, winners, tick>>
    BY <1>2 DEF StartCreate
  <2> HIDE DEF r
  <2> QED BY <1>t, <2>2, <2>3, <2>4, <2>5, OneRequestMoves
<1>3. ASSUME NEW q \in Calls, NEW chosen \in SUBSET Customers, NEW v \in Events,
             StartRecord(q, v, chosen)
      PROVE  SpinTypeInvariant'
  <2> DEFINE r == [NoRequest EXCEPT !.pc = "record", !.event = v,
                     !.criteria = event[v].criteria, !.chosen = chosen]
  <2>1. Created(v) /\ Introduced(event[v].criteria)
    BY <1>t, <1>3 DEF StartRecord, Exists, Created
  <2>2. r \in RequestRow
    BY <2>1 DEF RequestRow, NoRequest, Introduced
  <2>3. r.criteria = event[v].criteria /\ r.event = v
    BY DEF NoRequest
  <2>4. request' = [request EXCEPT ![q] = r] /\ UNCHANGED <<vip, event, winners, tick>>
    BY <1>3 DEF StartRecord
  <2> HIDE DEF r
  <2> QED BY <1>t, <2>1, <2>2, <2>3, <2>4, OneRequestMoves
<1>4. ASSUME NEW q \in Calls, AssertAllEligible(q) \/ CheckDuplicates(q)
      PROVE  SpinTypeInvariant'
  <2>1. PICK r : /\ request' = [request EXCEPT ![q] = r]
                 /\ \/ r = NoRequest
                    \/ /\ request[q].pc = "preselect"
                       /\ r = [request[q] EXCEPT !.pc = "create"]
                    \/ /\ request[q].pc = "record"
                       /\ r = [request[q] EXCEPT !.pc = "duplicates"]
                    \/ /\ request[q].pc = "duplicates"
                       /\ r = [request[q] EXCEPT !.pc = "insert"]
    BY <1>4, <1>t DEF AssertAllEligible, CheckDuplicates, RequestRow
  <2>2. /\ r \in RequestRow
        /\ r.pc # "idle" =>
             /\ request[q].pc # "idle"
             /\ r.criteria = request[q].criteria /\ r.event = request[q].event
        /\ r.pc \in {"record", "duplicates", "insert"} =>
             request[q].pc \in {"record", "duplicates", "insert"}
    BY <1>t, <2>1, NoRequestRow DEF RequestRow
  <2>3. RequestKnows(q)
    BY <1>t
  <2>4. UNCHANGED <<vip, event, winners, tick>>
    BY <1>4 DEF AssertAllEligible, CheckDuplicates
  <2> QED BY <1>t, <2>1, <2>2, <2>3, <2>4, OneRequestMoves DEF RequestKnows
<1>5. ASSUME NEW q \in Calls, InsertWinners(q)
      PROVE  SpinTypeInvariant'
  <2>1. winners' \in [Events -> SUBSET Customers]
    BY <1>t, <1>5 DEF InsertWinners, RequestRow
  <2> QED BY <1>5, <2>1, NoRequestRow, OneRequestMoves DEF InsertWinners
<1>6. ASSUME NEW q \in Calls, NEW v \in Events, CreateEvent(q, v)
      PROVE  SpinTypeInvariant'
  <2>1. PICK r \in Event : /\ event' = [event EXCEPT ![v] = r]
                           /\ r.status # "none" /\ r.criteria = request[q].criteria
    <3> DEFINE d == request[q]
               r == [status |-> StatusFor(d.due, d.terms), criteria |-> d.criteria,
                     due |-> d.due, deleted |-> FALSE]
    <3>1. r \in Event /\ r.status # "none"
      BY <1>t DEF Event, Statuses, StatusFor, RequestRow
    <3>2. event' = [event EXCEPT ![v] = r] /\ r.criteria = request[q].criteria
      BY <1>6 DEF CreateEvent
    <3> HIDE DEF r
    <3> QED BY <3>1, <3>2
  <2>2. \A w \in Events : event'[w] = IF w = v THEN r ELSE event[w]
    BY <1>t, <2>1
  <2>3. EventsStay /\ event' \in [Events -> Event]
    BY <1>t, <1>6, <2>1, <2>2 DEF EventsStay, Created, CreateEvent
  <2>4. Introduced(request[q].criteria)
    BY <1>t, <1>6 DEF CreateEvent, RequestKnows
  <2>5. \A w \in Events : event'[w].status # "none" => Introduced(event'[w].criteria)
    BY <1>t, <2>1, <2>2, <2>4 DEF Created
  <2>6. /\ winners' \in [Events -> SUBSET Customers]
        /\ request' \in [Calls -> RequestRow]
        /\ \A p \in Calls : request'[p] = request[p] \/ request'[p] = NoRequest
    BY <1>t, <1>6, NoRequestRow DEF CreateEvent, RequestRow
  <2>7. UNCHANGED vip /\ tick' \in {"live", "completed"}
    BY <1>t, <1>6 DEF CreateEvent
  <2> QED BY <2>3, <2>5, <2>6, <2>7, EventsMove
<1>7. ASSUME NEW v \in Events, NEW due \in BOOLEAN,
             NEW status \in {"scheduled", "live", "completed", "cancelled"},
             UpdateEvent(v, status, due)
      PROVE  SpinTypeInvariant'
  <2> DEFINE r == [event[v] EXCEPT !.status = status, !.due = due]
  <2>1. r \in Event /\ r.status # "none" /\ r.criteria = event[v].criteria
    BY <1>t DEF Event, Statuses
  <2>2. event' = [event EXCEPT ![v] = r]
    BY <1>t, <1>7 DEF UpdateEvent
  <2>3. Created(v) /\ UNCHANGED <<vip, request, winners, tick>>
    BY <1>7 DEF UpdateEvent, Exists, Created
  <2> HIDE DEF r
  <2> QED BY <2>1, <2>2, <2>3, OneEventMoves
<1>8. ASSUME NEW v \in Events, RemoveEvent(v) \/ FallsDue(v)
      PROVE  SpinTypeInvariant'
  <2>1. PICK r : /\ event' = [event EXCEPT ![v] = r]
                 /\ \/ r = [event[v] EXCEPT !.deleted = TRUE]
                    \/ r = [event[v] EXCEPT !.due = TRUE]
    BY <1>8 DEF RemoveEvent, FallsDue
  <2>2. Created(v) /\ UNCHANGED <<vip, request, winners, tick>>
    BY <1>8 DEF RemoveEvent, FallsDue, Exists, Created
  <2>3. r \in Event /\ r.status = event[v].status /\ r.criteria = event[v].criteria
    BY <1>t, <2>1 DEF Event
  <2> QED BY <2>1, <2>2, <2>3, OneEventMoves DEF Created
<1>9. ASSUME NEW v \in Events, NEW c \in Customers, RemoveWinner(v, c)
      PROVE  SpinTypeInvariant'
  <2>1. winners' \in [Events -> SUBSET Customers] /\ UNCHANGED <<vip, event, request, tick>>
    BY <1>t, <1>9 DEF RemoveWinner
  <2> QED BY <1>t, <2>1, EventsMove DEF EventsStay, Created
<1>10. CASE AdvanceToLive \/ AdvanceToCompleted
  <2>1. /\ event' \in [Events -> Event] /\ EventsStay
        /\ \A v \in Events : ~Created(v) => event'[v] = event[v]
    BY <1>t, <1>10, TickMoves
  <2>2. UNCHANGED <<vip, winners, request>> /\ tick' \in {"live", "completed"}
    BY <1>10 DEF AdvanceToLive, AdvanceToCompleted
  <2>3. \A v \in Events : event'[v].status # "none" => Introduced(event'[v].criteria)
    BY <1>t, <2>1 DEF EventsStay, Created
  <2> QED BY <1>t, <2>1, <2>2, <2>3, EventsMove
<1>11. CASE TickDies
  BY <1>t, <1>11, EventsMove DEF TickDies, EventsStay, Created
<1>12. ASSUME NEW q \in Calls, RequestDies(q)
       PROVE  SpinTypeInvariant'
  BY <1>t, <1>12, NoRequestRow, OneRequestMoves DEF RequestDies
<1>13. CASE UNCHANGED vipAndSpins
  BY <1>t, <1>13, EventsMove DEF vipAndSpins, spinVars, EventsStay, Created
<1> QED
  BY <1>1, <1>2, <1>3, <1>4, <1>5, <1>6, <1>7, <1>8, <1>9, <1>10, <1>11, <1>12, <1>13
  DEF SpinNext, Staff, Request

(* Rows and requests keep their shape, and an event is always about a      *)
(* criteria there is, whatever staff and the status job do.                *)
THEOREM SpinsTypeCorrect == SpinSpec => []SpinTypeOK
<1>1. SpinTypeInvariant => SpinTypeOK
  BY DEF SpinTypeInvariant
<1> QED BY <1>1, InitSpinTypeInvariant, NextSpinTypeInvariant, PTL DEF SpinSpec
(* A checked request has only customers who were on the list, and lists are *)
(* part of their own history: the second half carries the check from the   *)
(* moment of reading to the insert, however the list shrinks in between.   *)
CheckedWereListed ==
  \A q \in Calls : request[q].pc \in {"create", "duplicates", "insert"} =>
    request[q].chosen \subseteq everListed[request[q].criteria]
ListedInvariant ==
  /\ SpinTypeInvariant /\ WinnersWereListed /\ CheckedWereListed
  /\ \A k \in Criteria : qualified[k] \subseteq everListed[k]
  /\ \A v \in Events : winners[v] # {} => event[v].criteria \in Criteria

(* A step that leaves the lists alone, gives no event to a request that it *)
(* does not check, and no winner to an event that is not its request's.    *)
LEMMA ListedStays ==
  ASSUME ListedInvariant, SpinTypeInvariant', UNCHANGED vip,
         \A v \in Events : \/ winners'[v] \subseteq winners[v]
                              /\ event'[v].criteria = event[v].criteria
                           \/ /\ winners'[v] \subseteq everListed[event'[v].criteria]
                              /\ event'[v].criteria \in Criteria,
         \A q \in Calls :
           \/ request'[q] = request[q]
           \/ request'[q].pc \in {"idle", "preselect", "record"}
           \/ request'[q].chosen \subseteq everListed[request'[q].criteria]
  PROVE  ListedInvariant'
<1>1. WinnersWereListed'
  BY DEF ListedInvariant, WinnersWereListed, vip
<1>2. CheckedWereListed'
  BY DEF ListedInvariant, CheckedWereListed, vip
<1> QED BY <1>1, <1>2 DEF ListedInvariant, vip, listVars

LEMMA NextListedInvariant == ListedInvariant /\ [SpinNext]_vipAndSpins => ListedInvariant'
<1> SUFFICES ASSUME ListedInvariant, [SpinNext]_vipAndSpins PROVE ListedInvariant'
  OBVIOUS
<1>t. /\ event \in [Events -> Event] /\ request \in [Calls -> RequestRow]
      /\ winners \in [Events -> SUBSET Customers]
      /\ SpinTypeInvariant /\ SpinTypeInvariant'
      /\ \A q \in Calls : RequestKnows(q)
  BY NextSpinTypeInvariant DEF ListedInvariant, SpinTypeInvariant, SpinTypeOK, Event, RequestRow
<1>1. CASE Vip
  <2>1. \A k \in Criteria : everListed'[k] = everListed[k] \cup qualified'[k]
    BY <1>1 DEF Vip
  <2>2. UNCHANGED <<event, winners, request>>
    BY <1>1 DEF Vip, spinVars
  <2>3. WinnersWereListed'
    BY <2>1, <2>2 DEF ListedInvariant, WinnersWereListed
  <2>4. CheckedWereListed'
    BY <1>t, <2>1, <2>2
    DEF ListedInvariant, CheckedWereListed, RequestKnows, Introduced
  <2> QED BY <1>t, <2>1, <2>2, <2>3, <2>4 DEF ListedInvariant
<1>2. ASSUME NEW q \in Calls, AssertAllEligible(q)
      PROVE  ListedInvariant'
  <2>1. RequestKnows(q) /\ request[q].pc # "idle"
    BY <1>t, <1>2 DEF AssertAllEligible
  <2>2. request[q].criteria \in Criteria
    BY <2>1 DEF RequestKnows, Introduced
  <2>3. \/ request'[q].pc = "idle"
        \/ /\ Eligible(q)
           /\ request'[q].chosen = request[q].chosen
           /\ request'[q].criteria = request[q].criteria
    BY <1>t, <1>2, NoRequestRow DEF AssertAllEligible, RequestRow
  <2>4. Eligible(q) => request[q].chosen \subseteq everListed[request[q].criteria]
    BY <2>2 DEF Eligible, ListedInvariant
  <2>5. \A p \in Calls : p # q => request'[p] = request[p]
    BY <1>t, <1>2 DEF AssertAllEligible
  <2> QED BY <1>t, <1>2, <2>3, <2>4, <2>5, ListedStays DEF AssertAllEligible
<1>3. ASSUME NEW q \in Calls, CheckDuplicates(q)
      PROVE  ListedInvariant'
  <2>1. \/ request'[q].pc = "idle"
        \/ /\ request'[q].chosen = request[q].chosen
           /\ request'[q].criteria = request[q].criteria
    BY <1>t, <1>3, NoRequestRow DEF CheckDuplicates, RequestRow
  <2>2. request[q].chosen \subseteq everListed[request[q].criteria]
    BY <1>3 DEF CheckDuplicates, ListedInvariant, CheckedWereListed
  <2>3. \A p \in Calls : p # q => request'[p] = request[p]
    BY <1>t, <1>3 DEF CheckDuplicates
  <2> QED BY <1>t, <1>3, <2>1, <2>2, <2>3, ListedStays DEF CheckDuplicates
<1>4. ASSUME NEW q \in Calls, InsertWinners(q)
      PROVE  ListedInvariant'
  <2>1. request[q].chosen \subseteq everListed[request[q].criteria]
    BY <1>4 DEF InsertWinners, ListedInvariant, CheckedWereListed
  <2>2. /\ event[request[q].event].criteria = request[q].criteria
        /\ request[q].criteria \in Criteria
    BY <1>t, <1>4 DEF InsertWinners, RequestKnows, Introduced
  <2>3. \A v \in Events : \/ winners'[v] = winners[v]
                           \/ /\ v = request[q].event
                              /\ winners'[v] = winners[v] \cup request[q].chosen
    BY <1>t, <1>4 DEF InsertWinners
  <2>4. \A v \in Events : \/ winners'[v] = winners[v]
                           \/ /\ winners'[v] \subseteq everListed[event[v].criteria]
                              /\ event[v].criteria \in Criteria
    BY <2>1, <2>2, <2>3 DEF ListedInvariant, WinnersWereListed
  <2>5. \A p \in Calls : request'[p] = request[p] \/ request'[p].pc = "idle"
    BY <1>t, <1>4, NoRequestRow DEF InsertWinners
  <2> QED BY <1>t, <1>4, <2>4, <2>5, ListedStays DEF InsertWinners
<1>5. ASSUME NEW q \in Calls, NEW v \in Events, CreateEvent(q, v)
      PROVE  ListedInvariant'
  <2>1. request[q].chosen \subseteq everListed[request[q].criteria]
    BY <1>5 DEF CreateEvent, ListedInvariant, CheckedWereListed
  <2>2. /\ event'[v].criteria = request[q].criteria /\ request[q].criteria \in Criteria
        /\ winners'[v] = request[q].chosen
        /\ \A w \in Events : w # v => event'[w] = event[w] /\ winners'[w] = winners[w]
    BY <1>t, <1>5 DEF CreateEvent, RequestKnows, Introduced
  <2>3. \A p \in Calls : request'[p] = request[p] \/ request'[p].pc = "idle"
    BY <1>t, <1>5, NoRequestRow DEF CreateEvent
  <2> QED BY <1>t, <1>5, <2>1, <2>2, <2>3, ListedStays DEF CreateEvent
<1>6. ASSUME NEW q \in Calls, NEW chosen \in SUBSET Customers,
             \/ \E k \in Criteria, due \in BOOLEAN : StartCreate(q, k, due, chosen)
             \/ \E v \in Events : StartRecord(q, v, chosen)
      PROVE  ListedInvariant'
  <2>1. PICK r : /\ request' = [request EXCEPT ![q] = r]
                 /\ r.pc \in {"preselect", "record"} \/ r.chosen = {}
    <3>1. ASSUME NEW k \in Criteria, NEW due \in BOOLEAN, StartCreate(q, k, due, chosen)
          PROVE  \E r : /\ request' = [request EXCEPT ![q] = r]
                        /\ r.pc \in {"preselect", "record"} \/ r.chosen = {}
      <4> DEFINE s == [pc |-> IF chosen = {} THEN "create" ELSE "preselect", event |-> NoRow,
                       criteria |-> k, terms |-> IF due THEN criteria[k].terms ELSE NoTerms,
                       due |-> due, chosen |-> chosen]
      <4>1. s.pc = "preselect" \/ s.chosen = {}
        OBVIOUS
      <4>2. request' = [request EXCEPT ![q] = s]
        BY <3>1 DEF StartCreate
      <4> HIDE DEF s
      <4> QED BY <4>1, <4>2
    <3>2. ASSUME NEW v \in Events, StartRecord(q, v, chosen)
          PROVE  \E r : /\ request' = [request EXCEPT ![q] = r]
                        /\ r.pc \in {"preselect", "record"} \/ r.chosen = {}
      <4>1. [NoRequest EXCEPT !.pc = "record", !.event = v,
               !.criteria = event[v].criteria, !.chosen = chosen].pc = "record"
        BY DEF NoRequest
      <4> QED BY <3>2, <4>1 DEF StartRecord
    <3> QED BY <1>6, <3>1, <3>2
  <2>2. \A p \in Calls : request'[p] = IF p = q THEN r ELSE request[p]
    BY <1>t, <2>1
  <2>3. UNCHANGED <<vip, event, winners>>
    BY <1>6 DEF StartCreate, StartRecord
  <2> QED BY <1>t, <2>1, <2>2, <2>3, ListedStays
<1>7. ASSUME NEW q \in Calls, RequestDies(q)
      PROVE  ListedInvariant'
  <2>1. \A p \in Calls : request'[p] = request[p] \/ request'[p].pc = "idle"
    BY <1>t, <1>7, NoRequestRow DEF RequestDies
  <2> QED BY <1>t, <1>7, <2>1, ListedStays DEF RequestDies
<1>8. ASSUME NEW v \in Events,
             \/ \E status \in {"scheduled", "live", "completed", "cancelled"},
                   due \in BOOLEAN : UpdateEvent(v, status, due)
             \/ RemoveEvent(v) \/ FallsDue(v)
      PROVE  ListedInvariant'
  <2>1. \A w \in Events : event'[w].criteria = event[w].criteria
    BY <1>t, <1>8 DEF UpdateEvent, RemoveEvent, FallsDue, Event
  <2>2. UNCHANGED <<vip, winners, request>>
    BY <1>8 DEF UpdateEvent, RemoveEvent, FallsDue
  <2> QED BY <1>t, <2>1, <2>2, ListedStays
<1>9. ASSUME NEW v \in Events, NEW c \in Customers, RemoveWinner(v, c)
      PROVE  ListedInvariant'
  <2>1. \A w \in Events : winners'[w] \subseteq winners[w]
    BY <1>t, <1>9 DEF RemoveWinner
  <2> QED BY <1>t, <1>9, <2>1, ListedStays DEF RemoveWinner
<1>10. CASE AdvanceToLive \/ AdvanceToCompleted
  <2>1. /\ EventsStay
        /\ \A v \in Events : ~Created(v) => event'[v] = event[v]
    BY <1>t, <1>10, TickMoves
  <2>2. UNCHANGED <<vip, winners, request>>
    BY <1>10 DEF AdvanceToLive, AdvanceToCompleted
  <2> QED BY <1>t, <2>1, <2>2, ListedStays DEF EventsStay
<1>11. CASE TickDies \/ UNCHANGED vipAndSpins
  BY <1>t, <1>11, ListedStays DEF TickDies, vipAndSpins, spinVars
<1> QED
  BY <1>1, <1>2, <1>3, <1>4, <1>5, <1>6, <1>7, <1>8, <1>9, <1>10, <1>11
  DEF SpinNext, Staff, Request

(* Nobody is ever a winner who was never on the list of the event's        *)
(* criteria, whichever requests race and however the list is rebuilt.      *)
THEOREM WinnersEligible == SpinSpec => []WinnersWereListed
<1>1. SpinInit => ListedInvariant
  BY InitSpinTypeInvariant
  DEF SpinInit, ListInit, ListedInvariant, WinnersWereListed, CheckedWereListed, NoRequest
<1>2. ListedInvariant => WinnersWereListed
  BY DEF ListedInvariant
<1> QED BY <1>1, <1>2, NextListedInvariant, PTL DEF SpinSpec

-----------------------------------------------------------------------------
(***************************************************************************)
(* The two together: the list changes as VipQualification says, and spins  *)
(* are read and written in between.                                        *)
(***************************************************************************)
Together ==
  /\ Init /\ SpinInit
  /\ [][\/ /\ Next /\ UNCHANGED spinVars
           /\ everListed' = [k \in Criteria |-> everListed[k] \cup qualified'[k]]
        \/ SpinNext /\ UNCHANGED vars]_<<vars, vipAndSpins>>

LEMMA VipStepSeen ==
  ASSUME TypeInvariant, ListedInvariant, Next, UNCHANGED spinVars,
         everListed' = [k \in Criteria |-> everListed[k] \cup qualified'[k]]
  PROVE  TypeInvariant' /\ [SpinNext]_vipAndSpins
<1>1. TypeInvariant' /\ [ListNext]_listVars
  BY NextTypeInvariant
<1>2. CASE ListNext
  BY <1>1, <1>2 DEF SpinNext, Vip
<1>3. CASE UNCHANGED listVars
  <2>1. everListed \in [Criteria -> SUBSET Customers]
    BY DEF ListedInvariant, SpinTypeInvariant, SpinTypeOK
  <2>2. \A k \in Criteria : everListed[k] \cup qualified'[k] = everListed[k]
    BY <1>3 DEF ListedInvariant, listVars
  <2>3. everListed' = everListed
    BY <2>1, <2>2
  <2> QED BY <1>1, <1>3, <2>3 DEF vipAndSpins, vip
<1> QED BY <1>1, <1>2, <1>3

(***************************************************************************)
(* What Spins was proved to do over any list that obeys VipList it does    *)
(* over the list the VIP component keeps: the composition behaves as       *)
(* SpinSpec says, and every winner was once on the list of the event's     *)
(* criteria.                                                               *)
(***************************************************************************)
THEOREM SpinsOverVip == Together => SpinSpec /\ []WinnersWereListed
<1> DEFINE Inv == TypeInvariant /\ ListedInvariant
           Step == \/ /\ Next /\ UNCHANGED spinVars
                      /\ everListed' = [k \in Criteria |-> everListed[k] \cup qualified'[k]]
                   \/ SpinNext /\ UNCHANGED vars
<1>1. Init /\ SpinInit => Inv
  BY InitTypeInvariant, InitSpinTypeInvariant
  DEF SpinInit, ListInit, ListedInvariant, WinnersWereListed, CheckedWereListed, NoRequest
<1>2. Inv /\ [Step]_<<vars, vipAndSpins>> => Inv' /\ [SpinNext]_vipAndSpins
  <2> SUFFICES ASSUME Inv, [Step]_<<vars, vipAndSpins>>
               PROVE  Inv' /\ [SpinNext]_vipAndSpins
    OBVIOUS
  <2>1. TypeInvariant' /\ [SpinNext]_vipAndSpins
    <3>1. CASE /\ Next /\ UNCHANGED spinVars
               /\ everListed' = [k \in Criteria |-> everListed[k] \cup qualified'[k]]
      BY <3>1, VipStepSeen
    <3>2. CASE UNCHANGED vars /\ [SpinNext]_vipAndSpins
      BY <3>2, NextTypeInvariant
    <3> QED BY <3>1, <3>2
  <2>2. ListedInvariant'
    BY <2>1, NextListedInvariant
  <2> QED BY <2>1, <2>2
<1>3. Inv => WinnersWereListed
  BY DEF ListedInvariant
<1> QED BY <1>1, <1>2, <1>3, PTL DEF Together, SpinSpec
=============================================================================

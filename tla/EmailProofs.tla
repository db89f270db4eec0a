----------------------------- MODULE EmailProofs -----------------------------
(* Theorems about EmailDispatch for any campaigns, customers, batch size   *)
(* and number of failures.                                                 *)
EXTENDS EmailDispatch, FiniteSetTheorems, TLAPS

(* What a tick or a staff request holds at the step it is about to take.   *)
TickHolds(w) ==
  /\ w.pc = "record" => w.job \in Job /\ w.status \in {"sent", "pending", "failed"}
  /\ w.pc = "store" => w.counted \in Campaigns
  /\ w.pc \notin {"send", "record"} => w.jobs = {}
RequestHolds(q) == q.pc # "idle" => q.campaign \in Campaigns

TypeInvariant ==
  /\ TypeOK
  /\ \A i \in Instances : TickHolds(worker[i])
  /\ \A q \in Requests : RequestHolds(request[q])

-----------------------------------------------------------------------------
(* Types.                                                                  *)

LEMMA RecipientDef == \A r \in Recipients : CampaignOf(r) \in Campaigns
BY DEF Recipients, CampaignOf

LEMMA CountsAreNat ==
  ASSUME NEW c \in Campaigns, NEW status
  PROVE  IsFiniteSet(InStatus(c, status)) /\ Cardinality(InStatus(c, status)) \in Nat
<1>1. IsFiniteSet({c} \X Customers)
  BY EmailAssumption, FS_Product, FS_Singleton DEF EmailAssumption
<1>2. InStatus(c, status) \subseteq {c} \X Customers
  BY DEF InStatus, Recipients, CampaignOf
<1> QED BY <1>1, <1>2, FS_Subset, FS_CardinalityType

LEMMA RowTypes ==
  ASSUME NEW row \in RecipientRow
  PROVE  /\ Deleted(row) \in RecipientRow /\ Inserted(row) \in RecipientRow
         /\ [row EXCEPT !.status = "pending"] \in RecipientRow
         /\ [row EXCEPT !.old = TRUE] \in RecipientRow
         /\ \A status \in RowStatuses : [row EXCEPT !.status = status] \in RecipientRow
         /\ row.attempts < MaxAttempts =>
              [row EXCEPT !.status = "sending", !.attempts = @ + 1] \in RecipientRow
<1>1. Deleted(row) \in RecipientRow /\ Inserted(row) \in RecipientRow
  <2>1. row.id \in Nat /\ row.id + 1 \in Nat /\ 0 \in 0..MaxAttempts
    BY DEF RecipientRow, MaxAttempts
  <2>2. \A n \in Nat : [NoRow EXCEPT !.id = n] \in RecipientRow
    BY <2>1 DEF NoRow, RecipientRow, RowStatuses
  <2>3. \A n \in Nat : [NoRow EXCEPT !.status = "pending", !.id = n] \in RecipientRow
    BY <2>1 DEF NoRow, RecipientRow, RowStatuses
  <2> QED BY <2>1, <2>2, <2>3 DEF Deleted, Inserted
<1>2. row.attempts < MaxAttempts => row.attempts + 1 \in 0..MaxAttempts
  BY DEF RecipientRow, MaxAttempts
<1> QED BY <1>1, <1>2 DEF RecipientRow, RowStatuses

LEMMA AsleepType == Asleep \in Worker /\ TickHolds(Asleep) /\ NoRequest \in StaffRequest /\ RequestHolds(NoRequest)
BY DEF Asleep, Worker, TickHolds, NoRequest, StaffRequest, RequestHolds, RowStatuses, NoCounts

LEMMA InitTypes == Init => TypeInvariant
<1> SUFFICES ASSUME Init PROVE TypeInvariant
  OBVIOUS
<1>1. NoCampaign \in CampaignRow /\ NoRow \in RecipientRow
  BY DEF NoCampaign, CampaignRow, Statuses, NoRow, RecipientRow, RowStatuses, MaxAttempts
<1> QED BY <1>1, AsleepType DEF Init, TypeInvariant, TypeOK

(* A step of one tick, which may change the tables too.                    *)
LEMMA TickTypes ==
  ASSUME TypeInvariant, NEW i \in Instances, NEW w \in Worker, TickHolds(w),
         worker' = [worker EXCEPT ![i] = w], UNCHANGED <<optedOut, request>>,
         campaign' \in [Campaigns -> CampaignRow], recipient' \in [Recipients -> RecipientRow],
         inbox' \in [Recipients -> Nat], failures' \in Nat
  PROVE  TypeInvariant'
BY DEF TypeInvariant, TypeOK

LEMMA RequestTypes ==
  ASSUME TypeInvariant, NEW q \in Requests, NEW s \in StaffRequest, RequestHolds(s),
         request' = [request EXCEPT ![q] = s], UNCHANGED <<optedOut, worker>>,
         campaign' \in [Campaigns -> CampaignRow], recipient' \in [Recipients -> RecipientRow],
         inbox' \in [Recipients -> Nat], failures' \in Nat
  PROVE  TypeInvariant'
BY DEF TypeInvariant, TypeOK

LEMMA NextTypes == TypeInvariant /\ [Next]_vars => TypeInvariant'
<1> SUFFICES ASSUME TypeInvariant, [Next]_vars PROVE TypeInvariant'
  OBVIOUS
<1>t. /\ campaign \in [Campaigns -> CampaignRow] /\ recipient \in [Recipients -> RecipientRow]
      /\ inbox \in [Recipients -> Nat] /\ failures \in Nat
      /\ worker \in [Instances -> Worker] /\ request \in [Requests -> StaffRequest]
      /\ \A q \in Requests : RequestHolds(request[q])
      /\ \A i \in Instances : TickHolds(worker[i])
  BY DEF TypeInvariant, TypeOK
<1>1. CASE UNCHANGED vars
  BY <1>1 DEF vars, TypeInvariant, TypeOK, TickHolds, RequestHolds
<1>2. ASSUME NEW c \in Campaigns, NEW due \in BOOLEAN, CreateCampaign(c, due)
      PROVE  TypeInvariant'
  BY <1>2, <1>t DEF CreateCampaign, TypeInvariant, TypeOK, CampaignRow, Statuses
<1>3. ASSUME NEW q \in Requests, NEW c \in Campaigns, StartSend(q, c) PROVE TypeInvariant'
  <2>1. [NoRequest EXCEPT !.pc = "resolve", !.campaign = c] \in StaffRequest
    BY DEF NoRequest, StaffRequest
  <2>2. RequestHolds([NoRequest EXCEPT !.pc = "resolve", !.campaign = c])
    BY DEF NoRequest, RequestHolds
  <2> QED BY <1>3, <1>t, <2>1, <2>2, RequestTypes DEF StartSend
<1>4. ASSUME NEW q \in Requests, NEW c \in Campaigns, StartCancel(q, c) PROVE TypeInvariant'
  <2>1. [NoRequest EXCEPT !.pc = "cancel", !.campaign = c] \in StaffRequest
    BY DEF NoRequest, StaffRequest
  <2>2. RequestHolds([NoRequest EXCEPT !.pc = "cancel", !.campaign = c])
    BY DEF NoRequest, RequestHolds
  <2> QED BY <1>4, <1>t, <2>1, <2>2, RequestTypes DEF StartCancel
<1>5. ASSUME NEW q \in Requests, ResolveAudience(q) PROVE TypeInvariant'
  <2>1. PICK audience \in SUBSET (Customers \ optedOut) :
          request' = [request EXCEPT ![q] =
            IF audience = {} THEN NoRequest
            ELSE [@ EXCEPT !.pc = "queue", !.audience = audience]]
    BY <1>5 DEF ResolveAudience
  <2> DEFINE s == IF audience = {} THEN NoRequest
                  ELSE [request[q] EXCEPT !.pc = "queue", !.audience = audience]
  <2>2. s \in StaffRequest /\ RequestHolds(s)
    BY <1>5, <1>t, AsleepType DEF ResolveAudience, StaffRequest, RequestHolds
  <2>3. request' = [request EXCEPT ![q] = s]
    BY <2>1, <1>t DEF StaffRequest
  <2> HIDE DEF s
  <2> QED BY <1>5, <1>t, <2>2, <2>3, RequestTypes DEF ResolveAudience
<1>6. ASSUME NEW q \in Requests, QueueCampaign(q) PROVE TypeInvariant'
  <2>1. request[q].campaign \in Campaigns
    BY <1>6, <1>t DEF QueueCampaign, RequestHolds
  <2>2. campaign' \in [Campaigns -> CampaignRow]
    BY <1>6, <1>t, <2>1 DEF QueueCampaign, CampaignRow, Statuses
  <2>3. recipient' \in [Recipients -> RecipientRow] /\ inbox' \in [Recipients -> Nat]
    <3> DEFINE rows == {request[q].campaign} \X request[q].audience
    <3>1. CASE \A r \in rows : recipient[r].status = "absent"
      <4>1. recipient' = [r \in Recipients |->
                            IF r \in rows THEN Inserted(recipient[r]) ELSE recipient[r]]
        BY <1>6, <3>1 DEF QueueCampaign
      <4>2. inbox' = [r \in Recipients |-> IF r \in rows THEN 0 ELSE inbox[r]]
        BY <1>6, <3>1 DEF QueueCampaign
      <4> HIDE DEF rows
      <4> QED BY <4>1, <4>2, <1>t, RowTypes
    <3>2. CASE ~\A r \in rows : recipient[r].status = "absent"
      BY <1>6, <1>t, <3>2 DEF QueueCampaign
    <3> QED BY <3>1, <3>2
  <2> QED BY <1>6, <1>t, <2>2, <2>3, AsleepType, RequestTypes DEF QueueCampaign
<1>7. ASSUME NEW q \in Requests, CancelCampaign(q) PROVE TypeInvariant'
  <2>1. request[q].campaign \in Campaigns
    BY <1>7, <1>t DEF CancelCampaign, RequestHolds
  <2>2. campaign' \in [Campaigns -> CampaignRow]
    BY <1>7, <1>t, <2>1 DEF CancelCampaign, CampaignRow, Statuses
  <2>3. recipient' \in [Recipients -> RecipientRow]
    BY <1>7, <1>t, RowTypes DEF CancelCampaign
  <2> QED BY <1>7, <1>t, <2>2, <2>3, AsleepType, RequestTypes DEF CancelCampaign
<1>8. ASSUME NEW u \in OptOuts \ optedOut, OptOut(u) PROVE TypeInvariant'
  BY <1>8, EmailAssumption DEF OptOut, TypeInvariant, TypeOK, EmailAssumption
<1>9. ASSUME NEW c \in Campaigns, FallsDue(c) PROVE TypeInvariant'
  BY <1>9, <1>t DEF FallsDue, TypeInvariant, TypeOK, CampaignRow
<1>10. ASSUME NEW c \in Campaigns, RowsAge(c) PROVE TypeInvariant'
  BY <1>10, <1>t, RowTypes DEF RowsAge, TypeInvariant, TypeOK
<1>11. ASSUME NEW i \in Instances, Tick(i) PROVE TypeInvariant'
  <2>1. CASE ReclaimStalled(i)
    <3> DEFINE w == [worker[i] EXCEPT !.pc = "promote"]
    <3>1. w \in Worker /\ TickHolds(w) /\ worker' = [worker EXCEPT ![i] = w]
      BY <2>1, <1>t DEF ReclaimStalled, Worker, TickHolds
    <3>2. recipient' \in [Recipients -> RecipientRow]
      BY <2>1, <1>t, RowTypes DEF ReclaimStalled
    <3> HIDE DEF w
    <3> QED BY <2>1, <1>t, <3>1, <3>2, TickTypes DEF ReclaimStalled
  <2>2. CASE PromoteScheduled(i)
    <3> DEFINE w == [worker[i] EXCEPT !.pc = "claim"]
    <3>1. w \in Worker /\ TickHolds(w) /\ worker' = [worker EXCEPT ![i] = w]
      BY <2>2, <1>t DEF PromoteScheduled, Worker, TickHolds
    <3>2. campaign' \in [Campaigns -> CampaignRow]
      BY <2>2, <1>t DEF PromoteScheduled, CampaignRow, Statuses
    <3> HIDE DEF w
    <3> QED BY <2>2, <1>t, <3>1, <3>2, TickTypes DEF PromoteScheduled
  <2>3. CASE ClaimBatch(i)
    <3>1. PICK batch \in SUBSET Claimable :
            /\ recipient' = [r \in Recipients |->
                 IF r \in batch
                 THEN [recipient[r] EXCEPT !.status = "sending", !.attempts = @ + 1]
                 ELSE recipient[r]]
            /\ worker' = [worker EXCEPT ![i] =
                 IF batch = {} THEN [@ EXCEPT !.pc = "finalise"]
                 ELSE [@ EXCEPT !.pc = "send", !.jobs = {JobFor(r) : r \in batch},
                                !.recount = {CampaignOf(r) : r \in batch}]]
      BY <2>3 DEF ClaimBatch
    <3> DEFINE w == IF batch = {} THEN [worker[i] EXCEPT !.pc = "finalise"]
                    ELSE [worker[i] EXCEPT !.pc = "send", !.jobs = {JobFor(r) : r \in batch},
                                           !.recount = {CampaignOf(r) : r \in batch}]
    <3>2. \A r \in batch : r \in Recipients /\ recipient[r].attempts < MaxAttempts
      BY DEF Claimable
    <3>3. recipient' \in [Recipients -> RecipientRow]
      BY <3>1, <3>2, <1>t, RowTypes
    <3>4. \A r \in batch : JobFor(r) \in Job
      <4> SUFFICES ASSUME NEW r \in batch PROVE JobFor(r) \in Job
        OBVIOUS
      <4>1. recipient[r] \in RecipientRow /\ r \in Recipients
        BY <3>2, <1>t
      <4>2. recipient[r].id \in Nat /\ recipient[r].attempts + 1 \in 1..MaxAttempts
        BY <3>2, <4>1 DEF RecipientRow, MaxAttempts
      <4> QED BY <4>1, <4>2 DEF JobFor, Job
    <3>5. w \in Worker /\ TickHolds(w)
      <4>1. worker[i] \in Worker /\ TickHolds(worker[i]) /\ worker[i].pc = "claim"
        BY <2>3, <1>t DEF ClaimBatch
      <4>2. {JobFor(r) : r \in batch} \subseteq Job /\ {CampaignOf(r) : r \in batch} \subseteq Campaigns
        BY <3>2, <3>4, RecipientDef
      <4>3. CASE batch = {}
        BY <4>1, <4>3 DEF Worker, TickHolds
      <4>4. CASE batch # {}
        BY <4>1, <4>2, <4>4 DEF Worker, TickHolds
      <4> QED BY <4>3, <4>4
    <3>6. worker' = [worker EXCEPT ![i] = w]
      BY <3>1, <1>t
    <3> HIDE DEF w
    <3> QED BY <2>3, <1>t, <3>3, <3>5, <3>6, TickTypes DEF ClaimBatch
  <2>4. ASSUME NEW job \in worker[i].jobs, NEW outcome \in Outcomes, SendMail(i, job, outcome)
        PROVE  TypeInvariant'
    <3> DEFINE w == [worker[i] EXCEPT !.pc = "record", !.job = job,
                                      !.status = NextStatus(outcome, job.attempt),
                                      !.jobs = @ \ {job}]
    <3>1. job \in Job
      BY <1>t DEF Worker
    <3>2. NextStatus(outcome, job.attempt) \in {"sent", "pending", "failed"}
      BY DEF NextStatus
    <3>3. w \in Worker /\ TickHolds(w)
      BY <2>4, <1>t, <3>1, <3>2 DEF SendMail, Worker, TickHolds, RowStatuses
    <3>4. worker' = [worker EXCEPT ![i] = w]
      BY <2>4, <1>t DEF SendMail, Worker
    <3>5. inbox' \in [Recipients -> Nat]
      <4>1. job.row \in Recipients /\ inbox[job.row] + 1 \in Nat
        BY <1>t, <3>1 DEF Job
      <4> QED BY <2>4, <1>t, <4>1 DEF SendMail
    <3> HIDE DEF w
    <3> QED BY <2>4, <1>t, <3>3, <3>4, <3>5, TickTypes DEF SendMail
  <2>5. CASE RecordResult(i)
    <3> DEFINE w == [worker[i] EXCEPT !.pc = IF worker[i].jobs = {} THEN "count" ELSE "send",
                                      !.job = None, !.status = "absent"]
    <3>1. w \in Worker /\ TickHolds(w) /\ worker' = [worker EXCEPT ![i] = w]
      BY <2>5, <1>t DEF RecordResult, Worker, TickHolds, RowStatuses
    <3>2. recipient' \in [Recipients -> RecipientRow]
      <4>1. worker[i].job.row \in Recipients /\ worker[i].status \in RowStatuses
        BY <2>5, <1>t DEF RecordResult, TickHolds, Job, RowStatuses
      <4> QED BY <2>5, <1>t, <4>1, RowTypes DEF RecordResult
    <3> HIDE DEF w
    <3> QED BY <2>5, <1>t, <3>1, <3>2, TickTypes DEF RecordResult
  <2>6. ASSUME NEW c \in Campaigns, CountResults(i, c) PROVE TypeInvariant'
    <3> DEFINE w == [worker[i] EXCEPT !.pc = "store", !.counted = c,
         !.counts = [sent |-> Cardinality(InStatus(c, "sent")),
                     failed |-> Cardinality(InStatus(c, "failed"))]]
    <3>1. w \in Worker /\ TickHolds(w) /\ worker' = [worker EXCEPT ![i] = w]
      BY <2>6, <1>t, CountsAreNat DEF CountResults, Worker, TickHolds
    <3> HIDE DEF w
    <3> QED BY <2>6, <1>t, <3>1, TickTypes DEF CountResults
  <2>7. CASE StoreCounts(i)
    <3> DEFINE w == [Asleep EXCEPT !.pc = IF worker[i].recount = {worker[i].counted}
                                          THEN "finalise" ELSE "count",
                                   !.recount = worker[i].recount \ {worker[i].counted}]
    <3>1. w \in Worker /\ TickHolds(w) /\ worker' = [worker EXCEPT ![i] = w]
      BY <2>7, <1>t DEF StoreCounts, Asleep, Worker, TickHolds, RowStatuses, NoCounts
    <3>2. campaign' \in [Campaigns -> CampaignRow]
      <4>1. worker[i].counted \in Campaigns /\ worker[i].counts \in [sent: Nat, failed: Nat]
        BY <2>7, <1>t DEF StoreCounts, TickHolds, Worker
      <4> QED BY <2>7, <1>t, <4>1 DEF StoreCounts, CampaignRow
    <3> HIDE DEF w
    <3> QED BY <2>7, <1>t, <3>1, <3>2, TickTypes DEF StoreCounts
  <2>8. CASE FinaliseCompleted(i)
    <3>1. campaign' \in [Campaigns -> CampaignRow]
      BY <2>8, <1>t DEF FinaliseCompleted, CampaignRow, Statuses
    <3> QED BY <2>8, <1>t, <3>1, AsleepType, TickTypes DEF FinaliseCompleted
  <2> QED BY <1>11, <2>1, <2>2, <2>3, <2>4, <2>5, <2>6, <2>7, <2>8 DEF Tick
<1>12. ASSUME NEW i \in Instances, TickDies(i) PROVE TypeInvariant'
  <2>1. failures' \in Nat
    BY <1>12, <1>t DEF TickDies
  <2> QED BY <1>12, <1>t, <2>1, AsleepType, TickTypes DEF TickDies
<1>13. ASSUME NEW q \in Requests, RequestDies(q) PROVE TypeInvariant'
  <2>1. failures' \in Nat
    BY <1>13, <1>t DEF RequestDies
  <2> QED BY <1>13, <1>t, <2>1, AsleepType, RequestTypes DEF RequestDies
<1> QED BY <1>1, <1>2, <1>3, <1>4, <1>5, <1>6, <1>7, <1>8, <1>9, <1>10, <1>11, <1>12, <1>13
        DEF Next, Staff, Request, Clock

(* Rows keep the schema and no row is claimed more than three times,       *)
(* whatever number of instances, requests and failures there is: the claim *)
(* of sendBatch looks at the attempts in the statement that raises them.   *)
THEOREM TypeCorrect == Spec => []TypeOK
<1>1. TypeInvariant => TypeOK
  BY DEF TypeInvariant
<1> QED BY <1>1, InitTypes, NextTypes, PTL DEF Spec
-----------------------------------------------------------------------------
(***************************************************************************)
(* Copies, for any number of instances. An attempt of a row is a ticket    *)
(* which is in the hands of at most one tick until an SMTP call uses it,   *)
(* so the copies that arrived and the tickets still in hand are together   *)
(* no more than the claims.                                                *)
(***************************************************************************)
Present(r) == recipient[r].status # "absent"
Ticket(r, n) == [row |-> r, id |-> recipient[r].id, attempt |-> n]
InHand(r) == {n \in 1..MaxAttempts : \E i \in Instances : Ticket(r, n) \in worker[i].jobs}

TicketsIssued ==
  \A i \in Instances : \A job \in worker[i].jobs :
    /\ job.id <= recipient[job.row].id
    /\ Present(job.row) /\ job.id = recipient[job.row].id =>
         job.attempt <= recipient[job.row].attempts
    /\ \A j \in Instances : job \in worker[j].jobs => i = j

TicketsCount ==
  \A r \in Recipients :
    Present(r) => inbox[r] + Cardinality(InHand(r)) <= recipient[r].attempts

HandInvariant == TicketsIssued /\ TicketsCount

LEMMA InHandFinite ==
  ASSUME NEW r, NEW T \in SUBSET InHand(r)
  PROVE  /\ IsFiniteSet(T) /\ Cardinality(T) \in Nat
         /\ Cardinality(T) <= Cardinality(InHand(r)) /\ Cardinality(InHand(r)) \in Nat
<1>1. IsFiniteSet(1..MaxAttempts)
  <2>1. 1 \in Int /\ MaxAttempts \in Int
    BY DEF MaxAttempts
  <2> QED BY <2>1, FS_Interval
<1>2. IsFiniteSet(InHand(r))
  BY <1>1, FS_Subset DEF InHand
<1> QED BY <1>2, FS_Subset, FS_CardinalityType

LEMMA EmailTypes ==
  ASSUME TypeInvariant
  PROVE  /\ \A r \in Recipients : /\ recipient[r] \in RecipientRow /\ recipient[r].id \in Nat
                                  /\ recipient[r].attempts \in Nat /\ inbox[r] \in Nat
         /\ \A i \in Instances : \A job \in worker[i].jobs :
              /\ job \in Job /\ job.row \in Recipients /\ job.id \in Nat
              /\ job.attempt \in 1..MaxAttempts
BY DEF TypeInvariant, TypeOK, RecipientRow, Worker, Job, MaxAttempts

(* Steps that neither issue a ticket nor use one: hands only lose tickets. *)
LEMMA HandsLose ==
  ASSUME TypeInvariant, TypeInvariant', HandInvariant, inbox' = inbox,
         \A i \in Instances : worker'[i].jobs \subseteq worker[i].jobs,
         \A r \in Recipients :
           /\ recipient'[r].id = recipient[r].id
           /\ Present(r)' => Present(r) /\ recipient'[r].attempts = recipient[r].attempts
  PROVE  HandInvariant'
<1>1. TicketsIssued'
  <2> SUFFICES ASSUME NEW i \in Instances, NEW job \in worker'[i].jobs
               PROVE  /\ job.id <= recipient'[job.row].id
                      /\ Present(job.row)' /\ job.id = recipient'[job.row].id =>
                           job.attempt <= recipient'[job.row].attempts
                      /\ \A j \in Instances : job \in worker'[j].jobs => i = j
    BY DEF TicketsIssued
  <2>1. job \in worker[i].jobs /\ job.row \in Recipients
    BY EmailTypes
  <2> QED BY <2>1 DEF HandInvariant, TicketsIssued
<1>2. TicketsCount'
  <2> SUFFICES ASSUME NEW r \in Recipients, Present(r)'
               PROVE  inbox'[r] + Cardinality(InHand(r)') <= recipient'[r].attempts
    BY DEF TicketsCount
  <2>1. InHand(r)' \subseteq InHand(r)
    BY DEF InHand, Ticket
  <2>2. inbox[r] + Cardinality(InHand(r)) <= recipient[r].attempts
    BY DEF HandInvariant, TicketsCount
  <2>3. Cardinality(InHand(r)') <= Cardinality(InHand(r)) /\ Cardinality(InHand(r)') \in Nat
        /\ Cardinality(InHand(r)) \in Nat
    BY <2>1, InHandFinite
  <2> QED BY <2>2, <2>3, EmailTypes
<1> QED BY <1>1, <1>2 DEF HandInvariant

LEMMA HandsQueue ==
  ASSUME TypeInvariant, TypeInvariant', HandInvariant, NEW q \in Requests, QueueCampaign(q)
  PROVE  HandInvariant'
<1> DEFINE rows == {request[q].campaign} \X request[q].audience
<1>1. CASE ~\A r \in rows : recipient[r].status = "absent"
  BY <1>1, HandsLose DEF QueueCampaign, Present
<1>2. CASE \A r \in rows : recipient[r].status = "absent"
  <2>1. /\ worker' = worker
        /\ recipient' = [r \in Recipients |->
                           IF r \in rows THEN Inserted(recipient[r]) ELSE recipient[r]]
        /\ inbox' = [r \in Recipients |-> IF r \in rows THEN 0 ELSE inbox[r]]
    BY <1>2 DEF QueueCampaign
  <2> HIDE DEF rows
  <2>2. \A r \in Recipients :
          IF r \in rows
          THEN recipient'[r].id = recipient[r].id + 1 /\ recipient'[r].attempts = 0 /\ inbox'[r] = 0
          ELSE recipient'[r] = recipient[r] /\ inbox'[r] = inbox[r]
    BY <2>1 DEF Inserted, NoRow
  <2>3. TicketsIssued'
    <3> SUFFICES ASSUME NEW i \in Instances, NEW job \in worker[i].jobs
                 PROVE  /\ job.id <= recipient'[job.row].id
                        /\ Present(job.row)' /\ job.id = recipient'[job.row].id =>
                             job.attempt <= recipient'[job.row].attempts
                        /\ \A j \in Instances : job \in worker[j].jobs => i = j
      BY <2>1 DEF TicketsIssued
    <3>1. job.row \in Recipients /\ job.id \in Nat /\ recipient[job.row].id \in Nat
      BY EmailTypes
    <3> QED BY <2>2, <3>1 DEF HandInvariant, TicketsIssued, Present
  <2>4. TicketsCount'
    <3> SUFFICES ASSUME NEW r \in Recipients, Present(r)'
                 PROVE  inbox'[r] + Cardinality(InHand(r)') <= recipient'[r].attempts
      BY DEF TicketsCount
    <3>1. CASE r \in rows
      <4>1. \A i \in Instances : \A job \in worker[i].jobs : job.row = r => job.id # recipient'[r].id
        <5> SUFFICES ASSUME NEW i \in Instances, NEW job \in worker[i].jobs, job.row = r
                     PROVE  job.id # recipient'[r].id
          OBVIOUS
        <5>1. job.id <= recipient[r].id /\ recipient[r].id \in Nat /\ job.id \in Nat
          BY EmailTypes DEF HandInvariant, TicketsIssued
        <5> QED BY <2>2, <3>1, <5>1
      <4>2. InHand(r)' = {}
        BY <2>1, <4>1 DEF InHand, Ticket
      <4> QED BY <2>2, <3>1, <4>2, FS_EmptySet
    <3>2. CASE r \notin rows
      BY <2>1, <2>2, <3>2 DEF HandInvariant, TicketsCount, InHand, Ticket, Present
    <3> QED BY <3>1, <3>2
  <2> QED BY <2>3, <2>4 DEF HandInvariant
<1> QED BY <1>1, <1>2

LEMMA HandsClaim ==
  ASSUME TypeInvariant, TypeInvariant', HandInvariant, NEW i \in Instances, ClaimBatch(i)
  PROVE  HandInvariant'
<1>1. PICK batch \in SUBSET Claimable :
        /\ recipient' = [r \in Recipients |->
             IF r \in batch
             THEN [recipient[r] EXCEPT !.status = "sending", !.attempts = @ + 1]
             ELSE recipient[r]]
        /\ worker' = [worker EXCEPT ![i] =
             IF batch = {} THEN [@ EXCEPT !.pc = "finalise"]
             ELSE [@ EXCEPT !.pc = "send", !.jobs = {JobFor(r) : r \in batch},
                            !.recount = {CampaignOf(r) : r \in batch}]]
  BY DEF ClaimBatch
<1>2. /\ worker \in [Instances -> Worker] /\ recipient \in [Recipients -> RecipientRow]
      /\ worker[i].jobs = {} /\ inbox' = inbox
  BY DEF TypeInvariant, TypeOK, TickHolds, ClaimBatch
<1>3. \A r \in batch : r \in Recipients /\ Present(r)
  BY DEF Claimable, Present
<1>4. worker'[i].jobs = {JobFor(r) : r \in batch}
  BY <1>1, <1>2 DEF Worker
<1>5. \A j \in Instances : j # i => worker'[j] = worker[j]
  BY <1>1, <1>2
<1>6. \A r \in Recipients :
        /\ recipient'[r].id = recipient[r].id
        /\ IF r \in batch THEN recipient'[r].attempts = recipient[r].attempts + 1
           ELSE recipient'[r] = recipient[r]
  BY <1>1, <1>2 DEF RecipientRow
<1>7. \A r \in batch, j \in Instances : JobFor(r) \notin worker[j].jobs
  <2> SUFFICES ASSUME NEW r \in batch, NEW j \in Instances, JobFor(r) \in worker[j].jobs
               PROVE  FALSE
    OBVIOUS
  <2>1. JobFor(r).attempt <= recipient[r].attempts
    BY <1>3 DEF HandInvariant, TicketsIssued, JobFor
  <2> QED BY <1>3, <2>1, EmailTypes DEF JobFor
<1>8. TicketsIssued'
  <2> SUFFICES ASSUME NEW k \in Instances, NEW job \in worker'[k].jobs
               PROVE  /\ job.id <= recipient'[job.row].id
                      /\ Present(job.row)' /\ job.id = recipient'[job.row].id =>
                           job.attempt <= recipient'[job.row].attempts
                      /\ \A j \in Instances : job \in worker'[j].jobs => k = j
    BY DEF TicketsIssued
  <2>1. CASE k = i
    <3>1. PICK r \in batch : job = JobFor(r)
      BY <1>4, <2>1
    <3>2. job.row = r /\ job.id = recipient[r].id /\ job.attempt = recipient[r].attempts + 1
      BY <3>1 DEF JobFor
    <3>3. recipient'[r].id = recipient[r].id /\ recipient'[r].attempts = recipient[r].attempts + 1
      BY <1>3, <1>6
    <3>4. recipient[r].id \in Nat /\ recipient[r].attempts \in Nat
      BY <1>3, EmailTypes
    <3>5. \A j \in Instances : job \in worker'[j].jobs => k = j
      BY <1>5, <1>7, <2>1, <3>1
    <3> QED BY <3>2, <3>3, <3>4, <3>5
  <2>2. CASE k # i
    <3>1. job \in worker[k].jobs /\ job.row \in Recipients /\ job.attempt \in Nat
      BY <1>5, <2>2, EmailTypes DEF MaxAttempts
    <3>2. job.id <= recipient[job.row].id
      BY <3>1 DEF HandInvariant, TicketsIssued
    <3>3. job \notin worker'[i].jobs
      BY <1>4, <1>7, <3>1
    <3>4. \A j \in Instances : job \in worker'[j].jobs => k = j
      BY <1>5, <3>1, <3>3 DEF HandInvariant, TicketsIssued
    <3>5. Present(job.row)' /\ job.id = recipient'[job.row].id => job.attempt <= recipient'[job.row].attempts
      <4>1. Present(job.row) /\ job.id = recipient[job.row].id => job.attempt <= recipient[job.row].attempts
        BY <3>1 DEF HandInvariant, TicketsIssued
      <4>2. recipient[job.row].attempts \in Nat
        BY <3>1, EmailTypes
      <4> QED BY <1>3, <1>6, <3>1, <4>1, <4>2 DEF Present
    <3> QED BY <1>6, <3>1, <3>2, <3>4, <3>5
  <2> QED BY <2>1, <2>2
<1>9. TicketsCount'
  <2> SUFFICES ASSUME NEW r \in Recipients, Present(r)'
               PROVE  inbox[r] + Cardinality(InHand(r)') <= recipient'[r].attempts
    BY <1>2 DEF TicketsCount
  <2>1. recipient[r].attempts \in Nat /\ inbox[r] \in Nat /\ Cardinality(InHand(r)) \in Nat
        /\ IsFiniteSet(InHand(r)) /\ \A T \in SUBSET InHand(r) : Cardinality(T) <= Cardinality(InHand(r))
    BY EmailTypes, InHandFinite
  <2>2. \A n \in InHand(r)' : n \in InHand(r) \/ (r \in batch /\ n = recipient[r].attempts + 1)
    <3> SUFFICES ASSUME NEW n \in InHand(r)', n \notin InHand(r)
                 PROVE  r \in batch /\ n = recipient[r].attempts + 1
      OBVIOUS
    <3>1. PICK j \in Instances : Ticket(r, n)' \in worker'[j].jobs
      BY DEF InHand
    <3>2. Ticket(r, n)' = Ticket(r, n)
      BY <1>6 DEF Ticket
    <3>3. j = i
      BY <1>5, <3>1, <3>2 DEF InHand
    <3>4. PICK s \in batch : Ticket(r, n) = JobFor(s)
      BY <1>4, <3>1, <3>2, <3>3
    <3>5. r = s /\ n = recipient[s].attempts + 1
      BY <3>4 DEF Ticket, JobFor
    <3> QED BY <3>5
  <2>3. CASE r \in batch
    <3>1. InHand(r)' \subseteq InHand(r) \cup {recipient[r].attempts + 1}
      BY <2>2
    <3>2. /\ IsFiniteSet(InHand(r) \cup {recipient[r].attempts + 1})
          /\ Cardinality(InHand(r) \cup {recipient[r].attempts + 1}) <= Cardinality(InHand(r)) + 1
          /\ Cardinality(InHand(r) \cup {recipient[r].attempts + 1}) \in Nat
      <4>1. IsFiniteSet(InHand(r) \cup {recipient[r].attempts + 1})
            /\ (\/ Cardinality(InHand(r) \cup {recipient[r].attempts + 1}) = Cardinality(InHand(r))
                \/ Cardinality(InHand(r) \cup {recipient[r].attempts + 1}) = Cardinality(InHand(r)) + 1)
        BY <2>1, FS_AddElement
      <4> QED BY <2>1, <4>1
    <3>3. Cardinality(InHand(r)') <= Cardinality(InHand(r)) + 1 /\ Cardinality(InHand(r)') \in Nat
      BY <2>1, <3>1, <3>2, FS_Subset, FS_CardinalityType
    <3>4. inbox[r] + Cardinality(InHand(r)) <= recipient[r].attempts
      BY <1>3, <2>3 DEF HandInvariant, TicketsCount
    <3> QED BY <1>6, <2>1, <2>3, <3>3, <3>4
  <2>4. CASE r \notin batch
    <3>1. InHand(r)' \subseteq InHand(r)
      BY <2>2, <2>4
    <3>2. Cardinality(InHand(r)') <= Cardinality(InHand(r)) /\ Cardinality(InHand(r)') \in Nat
      BY <3>1, InHandFinite
    <3>3. inbox[r] + Cardinality(InHand(r)) <= recipient[r].attempts
      BY <1>6, <2>4 DEF HandInvariant, TicketsCount, Present
    <3> QED BY <1>6, <2>1, <2>4, <3>2, <3>3
  <2> QED BY <2>3, <2>4
<1> QED BY <1>8, <1>9 DEF HandInvariant

LEMMA HandsSend ==
  ASSUME TypeInvariant, TypeInvariant', HandInvariant, NEW i \in Instances,
         NEW job \in worker[i].jobs, NEW outcome \in Outcomes, SendMail(i, job, outcome)
  PROVE  HandInvariant'
<1>1. /\ worker \in [Instances -> Worker] /\ inbox \in [Recipients -> Nat] /\ recipient' = recipient
      /\ job \in Job /\ job.row \in Recipients /\ job.attempt \in 1..MaxAttempts
  BY EmailTypes DEF TypeInvariant, TypeOK, SendMail
<1>2. /\ worker'[i].jobs = worker[i].jobs \ {job}
      /\ \A j \in Instances : j # i => worker'[j] = worker[j]
  BY <1>1 DEF SendMail, Worker
<1>3. \A r \in Recipients :
        inbox'[r] \in Nat /\ (inbox'[r] <= inbox[r] \/ (inbox'[r] = inbox[r] + 1 /\ job = Ticket(r, job.attempt)))
  <2>1. \A r \in Recipients : inbox'[r] \in Nat
    BY DEF TypeInvariant, TypeOK
  <2>2. job.id = recipient[job.row].id => job = Ticket(job.row, job.attempt)
    BY <1>1 DEF Job, Ticket
  <2> QED BY <1>1, <2>1, <2>2 DEF SendMail
<1>4. \A j \in Instances : job \in worker[j].jobs => j = i
  BY DEF HandInvariant, TicketsIssued
<1>5. TicketsIssued'
  <2> SUFFICES ASSUME NEW k \in Instances, NEW other \in worker'[k].jobs
               PROVE  /\ other.id <= recipient[other.row].id
                      /\ Present(other.row) /\ other.id = recipient[other.row].id =>
                           other.attempt <= recipient[other.row].attempts
                      /\ \A j \in Instances : other \in worker'[j].jobs => k = j
    BY <1>1 DEF TicketsIssued, Present
  <2> QED BY <1>2 DEF HandInvariant, TicketsIssued
<1>6. TicketsCount'
  <2> SUFFICES ASSUME NEW r \in Recipients, Present(r)
               PROVE  inbox'[r] + Cardinality(InHand(r)') <= recipient[r].attempts
    BY <1>1 DEF TicketsCount, Present
  <2>1. InHand(r)' \subseteq InHand(r)
    BY <1>1, <1>2 DEF InHand, Ticket
  <2>2. inbox[r] + Cardinality(InHand(r)) <= recipient[r].attempts
    BY DEF HandInvariant, TicketsCount
  <2>3. /\ IsFiniteSet(InHand(r)) /\ Cardinality(InHand(r)) \in Nat /\ Cardinality(InHand(r)') \in Nat
        /\ Cardinality(InHand(r)') <= Cardinality(InHand(r))
        /\ recipient[r].attempts \in Nat /\ inbox[r] \in Nat
    BY <2>1, InHandFinite, EmailTypes
  <2>4. CASE inbox'[r] <= inbox[r]
    BY <1>3, <2>2, <2>3, <2>4
  <2>5. CASE inbox'[r] = inbox[r] + 1 /\ job = Ticket(r, job.attempt)
    <3>1. job.attempt \in InHand(r)
      BY <1>1, <2>5 DEF InHand
    <3>2. job.attempt \notin InHand(r)'
      <4>1. Ticket(r, job.attempt)' = job
        BY <1>1, <2>5 DEF Ticket
      <4> QED BY <1>2, <1>4, <4>1 DEF InHand
    <3>3. InHand(r)' \subseteq InHand(r) \ {job.attempt}
      BY <2>1, <3>2
    <3>4. Cardinality(InHand(r) \ {job.attempt}) = Cardinality(InHand(r)) - 1
          /\ IsFiniteSet(InHand(r) \ {job.attempt})
      BY <2>3, <3>1, FS_RemoveElement
    <3>5. Cardinality(InHand(r)') <= Cardinality(InHand(r)) - 1
      BY <3>3, <3>4, FS_Subset
    <3> QED BY <2>2, <2>3, <2>5, <3>5
  <2> QED BY <1>3, <2>4, <2>5
<1> QED BY <1>5, <1>6 DEF HandInvariant

LEMMA NextHands == TypeInvariant /\ TypeInvariant' /\ HandInvariant /\ [Next]_vars => HandInvariant'
<1> SUFFICES ASSUME TypeInvariant, TypeInvariant', HandInvariant, [Next]_vars PROVE HandInvariant'
  OBVIOUS
<1>t. worker \in [Instances -> Worker] /\ recipient \in [Recipients -> RecipientRow]
  BY DEF TypeInvariant, TypeOK
<1>1. CASE UNCHANGED <<recipient, worker, inbox>>
  BY <1>1, HandsLose DEF Present
<1>2. ASSUME NEW q \in Requests, QueueCampaign(q) PROVE HandInvariant'
  BY <1>2, HandsQueue
<1>3. ASSUME NEW q \in Requests, CancelCampaign(q) PROVE HandInvariant'
  <2>1. \A r \in Recipients :
          recipient'[r] = recipient[r] \/ recipient'[r] = Deleted(recipient[r])
    BY <1>3, <1>t DEF CancelCampaign
  <2>2. \A r \in Recipients : Deleted(recipient[r]).id = recipient[r].id /\ Deleted(recipient[r]).status = "absent"
    BY DEF Deleted, NoRow
  <2> QED BY <1>3, <2>1, <2>2, HandsLose DEF CancelCampaign, Present
<1>4. ASSUME NEW c \in Campaigns, RowsAge(c) PROVE HandInvariant'
  <2>1. \A r \in Recipients :
          recipient'[r] = recipient[r] \/ recipient'[r] = [recipient[r] EXCEPT !.old = TRUE]
    BY <1>4, <1>t DEF RowsAge
  <2> QED BY <1>4, <1>t, <2>1, HandsLose DEF RowsAge, Present, RecipientRow
<1>5. ASSUME NEW i \in Instances, ReclaimStalled(i) PROVE HandInvariant'
  <2>1. \A r \in Recipients : recipient'[r] = recipient[r]
          \/ (Present(r) /\ recipient'[r] = [recipient[r] EXCEPT !.status = "pending"])
    BY <1>5, <1>t DEF ReclaimStalled, Stalled, Present
  <2>2. \A j \in Instances : worker'[j].jobs = worker[j].jobs
    BY <1>5, <1>t DEF ReclaimStalled, Worker
  <2>3. \A r \in Recipients : recipient'[r].id = recipient[r].id /\ recipient'[r].attempts = recipient[r].attempts
    BY <2>1, <1>t DEF RecipientRow
  <2> QED BY <1>5, <1>t, <2>1, <2>2, <2>3, HandsLose DEF ReclaimStalled, Present
<1>6. ASSUME NEW i \in Instances, PromoteScheduled(i) PROVE HandInvariant'
  <2>1. \A j \in Instances : worker'[j].jobs = worker[j].jobs
    BY <1>6, <1>t DEF PromoteScheduled, Worker
  <2> QED BY <1>6, <2>1, HandsLose DEF PromoteScheduled, Present
<1>7. ASSUME NEW i \in Instances, ClaimBatch(i) PROVE HandInvariant'
  BY <1>7, HandsClaim
<1>8. ASSUME NEW i \in Instances, NEW job \in worker[i].jobs, NEW outcome \in Outcomes,
             SendMail(i, job, outcome)
      PROVE  HandInvariant'
  BY <1>8, HandsSend
<1>9. ASSUME NEW i \in Instances, RecordResult(i) PROVE HandInvariant'
  <2>1. \A j \in Instances : worker'[j].jobs = worker[j].jobs
    BY <1>9, <1>t DEF RecordResult, Worker
  <2>2. \A r \in Recipients : recipient'[r] = recipient[r]
          \/ (Present(r) /\ recipient'[r] = [recipient[r] EXCEPT !.status = worker[i].status])
    BY <1>9, <1>t DEF RecordResult, Present
  <2>3. \A r \in Recipients : recipient'[r].id = recipient[r].id /\ recipient'[r].attempts = recipient[r].attempts
    BY <2>2, <1>t DEF RecipientRow
  <2> QED BY <1>9, <2>1, <2>2, <2>3, HandsLose DEF RecordResult, Present
<1>10. ASSUME NEW i \in Instances, NEW c \in Campaigns, CountResults(i, c) PROVE HandInvariant'
  <2>1. \A j \in Instances : worker'[j].jobs = worker[j].jobs
    BY <1>10, <1>t DEF CountResults, Worker
  <2> QED BY <1>10, <2>1, HandsLose DEF CountResults, Present
<1>11. ASSUME NEW i \in Instances, StoreCounts(i) \/ FinaliseCompleted(i) \/ TickDies(i)
       PROVE  HandInvariant'
  <2>1. /\ worker'[i].jobs = {} /\ \A j \in Instances : j # i => worker'[j] = worker[j]
        /\ UNCHANGED <<recipient, inbox>>
    <3>1. CASE StoreCounts(i)
      BY <3>1, <1>t DEF StoreCounts, Asleep
    <3>2. CASE FinaliseCompleted(i) \/ TickDies(i)
      BY <3>2, <1>t DEF FinaliseCompleted, TickDies, Asleep
    <3> QED BY <1>11, <3>1, <3>2
  <2> QED BY <2>1, HandsLose DEF Present
<1> QED BY <1>1, <1>2, <1>3, <1>4, <1>5, <1>6, <1>7, <1>8, <1>9, <1>10, <1>11
        DEF Next, Staff, Request, Clock, Tick, vars, CreateCampaign, StartSend, StartCancel,
            ResolveAudience, OptOut, FallsDue, RequestDies

(* A recipient gets no more copies of a campaign than claims of its row,   *)
(* three at most: dispatchers of any number of instances claim with SKIP   *)
(* LOCKED, so an attempt is in one tick's hands only and is sent once.     *)
THEOREM CopiesBounded == Spec => []CopiesWithinAttempts
<1>1. Init => HandInvariant
  BY DEF Init, HandInvariant, TicketsIssued, TicketsCount, Present, NoRow, Asleep
<1>2. TypeInvariant /\ HandInvariant => CopiesWithinAttempts
  <2> SUFFICES ASSUME TypeInvariant, HandInvariant, NEW r \in Recipients, Present(r)
               PROVE  inbox[r] <= recipient[r].attempts
    BY DEF CopiesWithinAttempts, Present
  <2>1. inbox[r] + Cardinality(InHand(r)) <= recipient[r].attempts
    BY DEF HandInvariant, TicketsCount
  <2> QED BY <2>1, EmailTypes, InHandFinite
<1> QED BY <1>1, <1>2, InitTypes, NextTypes, NextHands, PTL DEF Spec
-----------------------------------------------------------------------------
(***************************************************************************)
(* One instance i, which the running flag keeps to one tick at a time: the *)
(* rows in its hands are exactly those that nobody else may write.         *)
(***************************************************************************)
Open(r) == recipient[r].status \in {"pending", "sending"}
Finished(c) == campaign[c].status \in {"sent", "partial"}
Recording(i, r) == worker[i].pc = "record" /\ worker[i].job.row = r
Claimed(i, job) ==
  /\ recipient[job.row].status = "sending" /\ recipient[job.row].id = job.id
  /\ CampaignOf(job.row) \in worker[i].recount

InFlight(i) ==
  /\ worker[i].recount # {} => worker[i].pc \in {"send", "record", "count", "store"}
  /\ worker[i].pc = "store" => worker[i].counted \in worker[i].recount
  /\ worker[i].pc = "record" => Claimed(i, worker[i].job)
  /\ \A job \in worker[i].jobs :
       /\ Claimed(i, job) /\ ~Recording(i, job.row)
       /\ \A other \in worker[i].jobs : other.row = job.row => other = job

LEMMA SingleTypes ==
  ASSUME TypeInvariant, NEW i \in Instances
  PROVE  /\ worker \in [Instances -> Worker] /\ recipient \in [Recipients -> RecipientRow]
         /\ campaign \in [Campaigns -> CampaignRow] /\ inbox \in [Recipients -> Nat]
         /\ failures \in Nat /\ worker[i] \in Worker /\ TickHolds(worker[i])
         /\ worker[i].pc = "record" =>
              /\ worker[i].job \in Job /\ worker[i].job.row \in Recipients
              /\ worker[i].status \in {"sent", "pending", "failed"}
         /\ worker[i].jobs \subseteq Job
         /\ \A job \in worker[i].jobs : job.row \in Recipients
         /\ \A q \in Requests : RequestHolds(request[q])
BY DEF TypeInvariant, TypeOK, TickHolds, Job, Worker

(* Steps of others, which do not touch a row that is being sent.           *)
LEMMA FlightGoesOn ==
  ASSUME TypeInvariant, NEW i \in Instances, InFlight(i), worker' = worker,
         \A r \in Recipients : recipient[r].status = "sending" =>
           recipient'[r].status = "sending" /\ recipient'[r].id = recipient[r].id
  PROVE  InFlight(i)'
BY SingleTypes DEF InFlight, Claimed, Recording

(* Steps after which the tick holds no row.                                *)
LEMMA FlightOver ==
  ASSUME NEW i \in Instances, worker'[i].jobs = {}, worker'[i].pc # "record",
         worker'[i].recount # {} => worker'[i].pc \in {"count", "store"},
         worker'[i].pc = "store" => worker'[i].counted \in worker'[i].recount
  PROVE  InFlight(i)'
BY DEF InFlight

LEMMA NextFlight ==
  ASSUME NEW i, Instances = {i}, TypeInvariant, InFlight(i), [Next]_vars
  PROVE  InFlight(i)'
<1>i. i \in Instances
  OBVIOUS
<1>t. /\ worker \in [Instances -> Worker] /\ recipient \in [Recipients -> RecipientRow]
      /\ worker[i] \in Worker /\ TickHolds(worker[i]) /\ worker[i].jobs \subseteq Job
      /\ \A job \in worker[i].jobs : job.row \in Recipients
  BY <1>i, SingleTypes
<1>1. CASE UNCHANGED <<recipient, worker>>
  BY <1>1, <1>i, FlightGoesOn
<1>2. ASSUME NEW q \in Requests, QueueCampaign(q) \/ CancelCampaign(q) PROVE InFlight(i)'
  <2>1. \A r \in Recipients : recipient[r].status = "sending" => recipient'[r] = recipient[r]
    BY <1>2, <1>t DEF QueueCampaign, CancelCampaign, InStatus
  <2> QED BY <1>2, <1>i, <2>1, FlightGoesOn DEF QueueCampaign, CancelCampaign
<1>3. ASSUME NEW c \in Campaigns, RowsAge(c) PROVE InFlight(i)'
  <2>1. \A r \in Recipients : recipient'[r].status = recipient[r].status /\ recipient'[r].id = recipient[r].id
    BY <1>3, <1>t DEF RowsAge, RecipientRow
  <2> QED BY <1>3, <1>i, <2>1, FlightGoesOn DEF RowsAge
<1>4. CASE ReclaimStalled(i) \/ PromoteScheduled(i)
  <2>1. /\ worker'[i].jobs = worker[i].jobs /\ worker'[i].recount = worker[i].recount
        /\ worker'[i].pc \in {"promote", "claim"} /\ worker[i].pc \in {"idle", "promote"}
    BY <1>4, <1>t, <1>i DEF ReclaimStalled, PromoteScheduled, Worker
  <2> QED BY <1>t, <1>i, <2>1, FlightOver DEF InFlight, TickHolds
<1>5. CASE ClaimBatch(i)
  <2>1. PICK batch \in SUBSET Claimable :
          /\ recipient' = [r \in Recipients |->
               IF r \in batch
               THEN [recipient[r] EXCEPT !.status = "sending", !.attempts = @ + 1]
               ELSE recipient[r]]
          /\ worker' = [worker EXCEPT ![i] =
               IF batch = {} THEN [@ EXCEPT !.pc = "finalise"]
               ELSE [@ EXCEPT !.pc = "send", !.jobs = {JobFor(r) : r \in batch},
                              !.recount = {CampaignOf(r) : r \in batch}]]
    BY <1>5 DEF ClaimBatch
  <2>2. worker[i].jobs = {} /\ worker[i].recount = {}
    BY <1>5, <1>t DEF ClaimBatch, TickHolds, InFlight
  <2>3. CASE batch = {}
    <3>1. worker'[i] = [worker[i] EXCEPT !.pc = "finalise"]
      BY <2>1, <2>3, <1>t, <1>i
    <3> QED BY <1>t, <1>i, <2>2, <3>1, FlightOver DEF Worker
  <2>4. CASE batch # {}
    <3>1. /\ worker'[i].pc = "send" /\ worker'[i].jobs = {JobFor(r) : r \in batch}
          /\ worker'[i].recount = {CampaignOf(r) : r \in batch}
      BY <2>1, <2>4, <1>t, <1>i DEF Worker
    <3>2. \A r \in batch : /\ r \in Recipients /\ recipient'[r].status = "sending"
                           /\ recipient'[r].id = recipient[r].id
      BY <2>1, <1>t DEF Claimable, RecipientRow
    <3>3. \A r \in batch : JobFor(r).row = r /\ JobFor(r).id = recipient[r].id
      BY DEF JobFor
    <3> QED BY <3>1, <3>2, <3>3 DEF InFlight, Claimed, Recording
  <2> QED BY <2>3, <2>4
<1>6. ASSUME NEW job \in worker[i].jobs, NEW outcome \in Outcomes, SendMail(i, job, outcome)
      PROVE  InFlight(i)'
  <2>1. /\ worker'[i].pc = "record" /\ worker'[i].job = job /\ recipient' = recipient
        /\ worker'[i].jobs = worker[i].jobs \ {job} /\ worker'[i].recount = worker[i].recount
    BY <1>6, <1>t, <1>i DEF SendMail, Worker
  <2> QED BY <2>1 DEF InFlight, Claimed, Recording
<1>7. CASE RecordResult(i)
  <2>1. /\ worker'[i].pc = (IF worker[i].jobs = {} THEN "count" ELSE "send")
        /\ worker'[i].jobs = worker[i].jobs /\ worker'[i].recount = worker[i].recount
    BY <1>7, <1>t, <1>i DEF RecordResult, Worker
  <2>2. \A r \in Recipients : r # worker[i].job.row => recipient'[r] = recipient[r]
    BY <1>7, <1>t DEF RecordResult
  <2>3. \A job \in worker[i].jobs : recipient'[job.row] = recipient[job.row]
    BY <1>7, <1>t, <2>2 DEF InFlight, Recording, RecordResult
  <2> QED BY <2>1, <2>3 DEF InFlight, Claimed, Recording
<1>8. ASSUME NEW c \in Campaigns, CountResults(i, c) PROVE InFlight(i)'
  <2>1. /\ worker'[i].pc = "store" /\ worker'[i].counted = c /\ c \in worker[i].recount
        /\ worker'[i].jobs = worker[i].jobs /\ worker'[i].recount = worker[i].recount
        /\ worker[i].jobs = {}
    BY <1>8, <1>t, <1>i DEF CountResults, Worker, TickHolds
  <2> QED BY <1>i, <2>1, FlightOver
<1>9. CASE StoreCounts(i)
  <2>1. worker'[i] = [Asleep EXCEPT !.pc = IF worker[i].recount = {worker[i].counted}
                                           THEN "finalise" ELSE "count",
                                    !.recount = worker[i].recount \ {worker[i].counted}]
    BY <1>9, <1>t, <1>i DEF StoreCounts
  <2>2. worker[i].counted \in worker[i].recount
    BY <1>9 DEF StoreCounts, InFlight
  <2>3. worker'[i].recount # {} => worker'[i].pc = "count"
    BY <2>1, <2>2 DEF Asleep
  <2>4. worker'[i].jobs = {} /\ worker'[i].pc \in {"count", "finalise"}
    BY <2>1 DEF Asleep
  <2> QED BY <1>i, <2>3, <2>4, FlightOver
<1>10. CASE FinaliseCompleted(i) \/ TickDies(i)
  <2>1. worker'[i] = Asleep
    BY <1>10, <1>t, <1>i DEF FinaliseCompleted, TickDies
  <2> QED BY <1>i, <2>1, FlightOver DEF Asleep
<1> QED BY <1>1, <1>2, <1>3, <1>4, <1>5, <1>6, <1>7, <1>8, <1>9, <1>10
        DEF Next, Staff, Request, Clock, Tick, vars, CreateCampaign, StartSend, StartCancel,
            ResolveAudience, OptOut, FallsDue, RequestDies
-----------------------------------------------------------------------------
(* What a step may do to a row and to a campaign while one instance runs.  *)
RowKept(i, r) ==
  /\ recipient[r].status \in {"sent", "failed"} => recipient'[r].status = recipient[r].status
  /\ recipient'[r].status \in {"sent", "failed"} /\ recipient'[r].status # recipient[r].status =>
       /\ RecordResult(i) /\ r = worker[i].job.row
  /\ Open(r)' => Open(r) \/ campaign'[CampaignOf(r)].status = "queued"

CampaignKept(i, c) ==
  /\ Finished(c)' => \/ campaign'[c].status = campaign[c].status
                     \/ FinaliseCompleted(i) /\ Complete(c)
  /\ \/ campaign'[c].sent = campaign[c].sent /\ campaign'[c].failed = campaign[c].failed
     \/ StoreCounts(i) /\ c = worker[i].counted
  /\ c \in worker'[i].recount /\ c \notin worker[i].recount => campaign'[c].status = "sending"
  /\ c \notin worker'[i].recount /\ c \in worker[i].recount =>
       \/ StoreCounts(i) /\ c = worker[i].counted
       \/ failures' > failures
  /\ failures' >= failures

LEMMA Moves ==
  ASSUME NEW i, Instances = {i}, TypeInvariant, InFlight(i), [Next]_vars
  PROVE  /\ \A r \in Recipients : RowKept(i, r)
         /\ \A c \in Campaigns : CampaignKept(i, c)
<1>i. i \in Instances
  OBVIOUS
<1>t. /\ worker \in [Instances -> Worker] /\ recipient \in [Recipients -> RecipientRow]
      /\ campaign \in [Campaigns -> CampaignRow] /\ failures \in Nat
      /\ worker[i] \in Worker /\ TickHolds(worker[i])
      /\ \A q \in Requests : RequestHolds(request[q])
  BY <1>i, SingleTypes
<1> DEFINE Goal == /\ \A r \in Recipients : RowKept(i, r)
                   /\ \A c \in Campaigns : CampaignKept(i, c)
<1>a. ASSUME \A r \in Recipients : recipient'[r].status = recipient[r].status
      PROVE  \A r \in Recipients : RowKept(i, r)
  BY <1>a DEF RowKept, Open
<1>b. ASSUME \A c \in Campaigns : campaign'[c] = campaign[c], worker'[i].recount = worker[i].recount,
             failures' = failures
      PROVE  \A c \in Campaigns : CampaignKept(i, c)
  BY <1>b, <1>t DEF CampaignKept
<1>1. CASE UNCHANGED <<recipient, campaign, worker>> /\ failures' \in {failures, failures + 1}
  BY <1>1, <1>a, <1>t DEF CampaignKept
<1>2. ASSUME NEW c \in Campaigns, NEW due \in BOOLEAN, CreateCampaign(c, due) PROVE Goal
  <2>1. \A d \in Campaigns :
          \/ campaign'[d] = campaign[d]
          \/ /\ campaign'[d].status = "draft"
             /\ campaign'[d].sent = campaign[d].sent /\ campaign'[d].failed = campaign[d].failed
    BY <1>2, <1>t DEF CreateCampaign, CampaignRow
  <2> QED BY <1>2, <1>a, <1>t, <2>1 DEF CreateCampaign, CampaignKept, Finished
<1>3. ASSUME NEW q \in Requests, QueueCampaign(q) PROVE Goal
  <2> DEFINE c == request[q].campaign
             rows == {c} \X request[q].audience
  <2>0. c \in Campaigns
    BY <1>3, <1>t DEF QueueCampaign, RequestHolds
  <2>1. CASE ~\A r \in rows : recipient[r].status = "absent"
    BY <1>3, <2>1, <1>a, <1>b DEF QueueCampaign
  <2>2. CASE \A r \in rows : recipient[r].status = "absent"
    <3>1. /\ campaign' = [campaign EXCEPT ![c].status = "queued"]
          /\ recipient' = [r \in Recipients |->
                             IF r \in rows THEN Inserted(recipient[r]) ELSE recipient[r]]
          /\ worker' = worker /\ failures' = failures
      BY <1>3, <2>2 DEF QueueCampaign
    <3>2. \A r \in rows : CampaignOf(r) = c /\ recipient[r].status = "absent"
      BY <2>2 DEF CampaignOf
    <3> HIDE DEF rows, c
    <3>3. \A d \in Campaigns :
            \/ campaign'[d] = campaign[d]
            \/ /\ d = c /\ campaign'[d].status = "queued"
               /\ campaign'[d].sent = campaign[d].sent /\ campaign'[d].failed = campaign[d].failed
      BY <3>1, <1>t, <2>0 DEF CampaignRow
    <3>4. \A r \in Recipients :
            \/ recipient'[r] = recipient[r]
            \/ /\ recipient[r].status = "absent" /\ recipient'[r].status = "pending"
               /\ campaign'[CampaignOf(r)].status = "queued"
      BY <3>1, <3>2, <1>t, <2>0 DEF Inserted, NoRow, CampaignRow
    <3> QED BY <3>1, <3>3, <3>4, <1>t DEF RowKept, CampaignKept, Open, Finished
  <2> QED BY <2>1, <2>2
<1>4. ASSUME NEW q \in Requests, CancelCampaign(q) PROVE Goal
  <2>1. \A d \in Campaigns :
          \/ campaign'[d] = campaign[d]
          \/ /\ campaign'[d].status = "cancelled"
             /\ campaign'[d].sent = campaign[d].sent /\ campaign'[d].failed = campaign[d].failed
    BY <1>4, <1>t DEF CancelCampaign, CampaignRow
  <2>2. \A r \in Recipients :
          \/ recipient'[r] = recipient[r]
          \/ recipient[r].status = "pending" /\ recipient'[r].status = "absent"
    BY <1>4, <1>t DEF CancelCampaign, InStatus, Deleted, NoRow
  <2> QED BY <1>4, <1>t, <2>1, <2>2 DEF CancelCampaign, RowKept, CampaignKept, Open, Finished
<1>5. ASSUME NEW c \in Campaigns, FallsDue(c) PROVE Goal
  <2>1. \A d \in Campaigns :
          /\ campaign'[d].status = campaign[d].status
          /\ campaign'[d].sent = campaign[d].sent /\ campaign'[d].failed = campaign[d].failed
    BY <1>5, <1>t DEF FallsDue, CampaignRow
  <2> QED BY <1>5, <1>a, <1>t, <2>1 DEF FallsDue, CampaignKept
<1>6. ASSUME NEW c \in Campaigns, RowsAge(c) PROVE Goal
  <2>1. \A r \in Recipients : recipient'[r].status = recipient[r].status
    BY <1>6, <1>t DEF RowsAge, RecipientRow
  <2> QED BY <1>6, <1>a, <1>b, <2>1 DEF RowsAge
<1>7. CASE ReclaimStalled(i)
  <2>1. \A r \in Recipients :
          \/ recipient'[r] = recipient[r]
          \/ recipient[r].status = "sending" /\ recipient'[r].status = "pending"
    BY <1>7, <1>t DEF ReclaimStalled, Stalled, RecipientRow
  <2>2. worker'[i].recount = worker[i].recount
    BY <1>7, <1>t, <1>i DEF ReclaimStalled, Worker
  <2> QED BY <1>7, <1>b, <2>1, <2>2 DEF ReclaimStalled, RowKept, Open
<1>8. CASE PromoteScheduled(i)
  <2>1. \A d \in Campaigns :
          \/ campaign'[d] = campaign[d]
          \/ /\ campaign'[d].status = "sending"
             /\ campaign'[d].sent = campaign[d].sent /\ campaign'[d].failed = campaign[d].failed
    BY <1>8, <1>t DEF PromoteScheduled, CampaignRow
  <2>2. worker'[i].recount = worker[i].recount
    BY <1>8, <1>t, <1>i DEF PromoteScheduled, Worker
  <2> QED BY <1>8, <1>a, <1>t, <2>1, <2>2 DEF PromoteScheduled, CampaignKept, Finished
<1>9. CASE ClaimBatch(i)
  <2>1. PICK batch \in SUBSET Claimable :
          /\ recipient' = [r \in Recipients |->
               IF r \in batch
               THEN [recipient[r] EXCEPT !.status = "sending", !.attempts = @ + 1]
               ELSE recipient[r]]
          /\ worker' = [worker EXCEPT ![i] =
               IF batch = {} THEN [@ EXCEPT !.pc = "finalise"]
               ELSE [@ EXCEPT !.pc = "send", !.jobs = {JobFor(r) : r \in batch},
                              !.recount = {CampaignOf(r) : r \in batch}]]
    BY <1>9 DEF ClaimBatch
  <2>2. \A r \in batch : recipient[r].status = "pending" /\ campaign[CampaignOf(r)].status = "sending"
    BY DEF Claimable
  <2>3. \A r \in Recipients :
          \/ recipient'[r] = recipient[r]
          \/ recipient[r].status = "pending" /\ recipient'[r].status = "sending"
    BY <2>1, <2>2, <1>t DEF RecipientRow
  <2>4. worker[i].recount = {} /\ campaign' = campaign /\ failures' = failures
    BY <1>9 DEF ClaimBatch, InFlight
  <2>5. \A c \in worker'[i].recount : campaign[c].status = "sending"
    <3>1. CASE batch = {}
      BY <2>1, <2>4, <1>t, <1>i, <3>1 DEF Worker
    <3>2. CASE batch # {}
      <4>1. worker'[i].recount = {CampaignOf(r) : r \in batch}
        BY <2>1, <1>t, <1>i, <3>2 DEF Worker
      <4> QED BY <2>2, <4>1
    <3> QED BY <3>1, <3>2
  <2>6. \A c \in Campaigns : CampaignKept(i, c)
    BY <2>4, <2>5, <1>t DEF CampaignKept
  <2>7. \A r \in Recipients : RowKept(i, r)
    BY <2>3 DEF RowKept, Open
  <2> QED BY <2>6, <2>7
<1>10. ASSUME NEW job \in worker[i].jobs, NEW outcome \in Outcomes, SendMail(i, job, outcome) PROVE Goal
  <2>1. worker'[i].recount = worker[i].recount
    BY <1>10, <1>t, <1>i DEF SendMail, Worker
  <2> QED BY <1>10, <1>a, <1>b, <2>1 DEF SendMail
<1>11. CASE RecordResult(i)
  <2>1. worker'[i].recount = worker[i].recount
    BY <1>11, <1>t, <1>i DEF RecordResult, Worker
  <2>2. \A r \in Recipients :
          \/ recipient'[r] = recipient[r]
          \/ r = worker[i].job.row /\ recipient[r].status = "sending"
    BY <1>11, <1>t DEF RecordResult, InFlight, Claimed
  <2> QED BY <1>11, <1>b, <2>1, <2>2 DEF RecordResult, RowKept, Open
<1>12. ASSUME NEW c \in Campaigns, CountResults(i, c) PROVE Goal
  <2>1. worker'[i].recount = worker[i].recount
    BY <1>12, <1>t, <1>i DEF CountResults, Worker
  <2> QED BY <1>12, <1>a, <1>b, <2>1 DEF CountResults
<1>13. CASE StoreCounts(i)
  <2>1. worker'[i].recount = worker[i].recount \ {worker[i].counted}
    BY <1>13, <1>t, <1>i DEF StoreCounts, Asleep
  <2>2. \A d \in Campaigns :
          /\ campaign'[d].status = campaign[d].status
          /\ d # worker[i].counted => campaign'[d] = campaign[d]
    BY <1>13, <1>t DEF StoreCounts, CampaignRow
  <2> QED BY <1>13, <1>a, <1>t, <2>1, <2>2 DEF StoreCounts, CampaignKept
<1>14. CASE FinaliseCompleted(i)
  <2>1. worker'[i].recount = {} /\ worker[i].recount = {}
    BY <1>14, <1>t, <1>i DEF FinaliseCompleted, Asleep, InFlight
  <2>2. \A d \in Campaigns :
          /\ campaign'[d] = campaign[d] \/ Complete(d)
          /\ campaign'[d].sent = campaign[d].sent /\ campaign'[d].failed = campaign[d].failed
    BY <1>14, <1>t DEF FinaliseCompleted, CampaignRow
  <2> QED BY <1>14, <1>a, <1>t, <2>1, <2>2 DEF FinaliseCompleted, CampaignKept
<1>15. CASE TickDies(i)
  <2>1. worker'[i].recount = {} /\ failures' > failures /\ failures' >= failures
    BY <1>15, <1>t, <1>i DEF TickDies, Asleep
  <2> QED BY <1>15, <1>a, <2>1 DEF TickDies, CampaignKept
<1> QED BY <1>i, <1>1, <1>2, <1>3, <1>4, <1>5, <1>6, <1>7, <1>8, <1>9, <1>10, <1>11, <1>12, <1>13, <1>14, <1>15
        DEF Next, Staff, Request, Clock, Tick, vars, StartSend, StartCancel,
            ResolveAudience, OptOut, RequestDies
-----------------------------------------------------------------------------
(* What is finished, counted and delivered while one instance runs.        *)
FinishedClean(i, c) ==
  Finished(c) =>
    /\ \A r \in Recipients : CampaignOf(r) = c => ~Open(r)
    /\ c \notin worker[i].recount
    /\ campaign[c].status = "sent" => campaign[c].failed = 0
    /\ campaign[c].status = "partial" => campaign[c].failed > 0

NumberOf(c, status) == Cardinality(InStatus(c, status))

Counted(i, c) ==
  /\ campaign[c].sent <= NumberOf(c, "sent") /\ campaign[c].failed <= NumberOf(c, "failed")
  /\ failures = 0 /\ c \notin worker[i].recount =>
       /\ campaign[c].sent = NumberOf(c, "sent") /\ campaign[c].failed = NumberOf(c, "failed")

InStore(i) ==
  worker[i].pc = "store" =>
    /\ worker[i].counts.sent = NumberOf(worker[i].counted, "sent")
    /\ worker[i].counts.failed = NumberOf(worker[i].counted, "failed")

Delivered(i) ==
  /\ \A r \in Recipients :
       /\ inbox[r] <= 1 + failures
       /\ recipient[r].status \notin {"absent", "sent"} /\ ~Recording(i, r) => inbox[r] <= failures
  /\ worker[i].pc = "record" /\ worker[i].status # "sent" => inbox[worker[i].job.row] <= failures

SingleInvariant(i) ==
  /\ InFlight(i) /\ InStore(i)
  /\ \A c \in Campaigns : FinishedClean(i, c) /\ Counted(i, c)

(* A step of the dispatcher other than the one that writes a result leaves *)
(* the rows that were sent or failed as they are.                          *)
LEMMA SettledRows ==
  ASSUME NEW i, Instances = {i}, TypeInvariant, TypeInvariant', InFlight(i), [Next]_vars,
         NEW c \in Campaigns, NEW status \in {"sent", "failed"}
  PROVE  /\ NumberOf(c, status) \in Nat /\ NumberOf(c, status)' \in Nat
         /\ NumberOf(c, status) <= NumberOf(c, status)'
         /\ ~RecordResult(i) \/ c \notin worker[i].recount =>
              NumberOf(c, status)' = NumberOf(c, status)
<1>1. \A r \in Recipients : RowKept(i, r)
  BY Moves
<1>2. InStatus(c, status) \subseteq InStatus(c, status)'
  BY <1>1 DEF InStatus, RowKept
<1>3. /\ IsFiniteSet(InStatus(c, status)) /\ IsFiniteSet(InStatus(c, status)')
      /\ NumberOf(c, status) \in Nat /\ NumberOf(c, status)' \in Nat
  <2>1. IsFiniteSet(InStatus(c, status)) /\ NumberOf(c, status) \in Nat
    BY CountsAreNat DEF NumberOf
  <2>2. InStatus(c, status)' \subseteq {c} \X Customers
    BY DEF InStatus, Recipients, CampaignOf
  <2>3. IsFiniteSet({c} \X Customers)
    BY EmailAssumption, FS_Product, FS_Singleton DEF EmailAssumption
  <2> QED BY <2>1, <2>2, <2>3, FS_Subset, FS_CardinalityType DEF NumberOf
<1>4. NumberOf(c, status) <= NumberOf(c, status)'
  BY <1>2, <1>3, FS_Subset DEF NumberOf
<1>5. ASSUME ~RecordResult(i) \/ c \notin worker[i].recount
      PROVE  InStatus(c, status)' = InStatus(c, status)
  <2>1. \A r \in Recipients :
          CampaignOf(r) = c /\ recipient'[r].status = status => recipient[r].status = status
    <3> SUFFICES ASSUME NEW r \in Recipients, CampaignOf(r) = c, recipient'[r].status = status,
                        recipient[r].status # status
                 PROVE  FALSE
      OBVIOUS
    <3>1. RecordResult(i) /\ r = worker[i].job.row
      BY <1>1 DEF RowKept
    <3>2. c \in worker[i].recount
      BY <3>1 DEF RecordResult, InFlight, Claimed
    <3> QED BY <1>5, <3>1, <3>2
  <2>2. InStatus(c, status)' \subseteq InStatus(c, status)
    BY <2>1 DEF InStatus
  <2> QED BY <1>2, <2>2
<1> QED BY <1>3, <1>4, <1>5 DEF NumberOf

LEMMA NextSingle ==
  ASSUME NEW i, Instances = {i}, TypeInvariant, TypeInvariant', SingleInvariant(i), [Next]_vars
  PROVE  SingleInvariant(i)'
<1>i. i \in Instances /\ InFlight(i)
  BY DEF SingleInvariant
<1>t. /\ worker \in [Instances -> Worker] /\ campaign \in [Campaigns -> CampaignRow]
      /\ failures \in Nat /\ failures' \in Nat /\ worker[i] \in Worker /\ TickHolds(worker[i])
      /\ \A c \in Campaigns : campaign'[c].failed \in Nat /\ campaign'[c].sent \in Nat
  BY <1>i, SingleTypes DEF TypeInvariant, TypeOK, CampaignRow
<1>1. InFlight(i)'
  BY <1>i, NextFlight
<1>2. InStore(i)'
  <2>1. CASE worker'[i].pc = "store" /\ ~\E c \in Campaigns : CountResults(i, c)
    <3>1. ~Tick(i) /\ ~TickDies(i)
      <4>1. CASE ClaimBatch(i)
        <5>1. PICK batch \in SUBSET Claimable :
                worker' = [worker EXCEPT ![i] =
                  IF batch = {} THEN [@ EXCEPT !.pc = "finalise"]
                  ELSE [@ EXCEPT !.pc = "send", !.jobs = {JobFor(r) : r \in batch},
                                 !.recount = {CampaignOf(r) : r \in batch}]]
          BY <4>1 DEF ClaimBatch
        <5>2. worker'[i].pc \in {"finalise", "send"}
          BY <5>1, <1>i, <1>t DEF Worker
        <5> QED BY <2>1, <5>2
      <4>2. CASE ReclaimStalled(i)
        BY <2>1, <4>2, <1>i, <1>t DEF ReclaimStalled, Worker
      <4>3. CASE PromoteScheduled(i)
        BY <2>1, <4>3, <1>i, <1>t DEF PromoteScheduled, Worker
      <4>4. ASSUME NEW job \in worker[i].jobs, NEW outcome \in Outcomes, SendMail(i, job, outcome)
            PROVE  FALSE
        BY <2>1, <4>4, <1>i, <1>t DEF SendMail, Worker
      <4>5. CASE RecordResult(i)
        BY <2>1, <4>5, <1>i, <1>t DEF RecordResult, Worker
      <4>6. CASE StoreCounts(i)
        BY <2>1, <4>6, <1>i, <1>t DEF StoreCounts, Asleep
      <4>7. CASE FinaliseCompleted(i) \/ TickDies(i)
        BY <2>1, <4>7, <1>i, <1>t DEF FinaliseCompleted, TickDies, Asleep
      <4> QED BY <2>1, <4>1, <4>2, <4>3, <4>4, <4>5, <4>6, <4>7 DEF Tick
    <3>2. worker' = worker /\ ~RecordResult(i)
      BY <3>1, <1>i
         DEF Next, Staff, Request, Clock, Tick, vars, CreateCampaign, StartSend, StartCancel,
             ResolveAudience, QueueCampaign, CancelCampaign, OptOut, FallsDue, RowsAge, RequestDies
    <3>3. PICK c \in Campaigns : c = worker[i].counted /\ worker[i].pc = "store"
      BY <2>1, <3>2, <1>t DEF TickHolds
    <3>4. NumberOf(c, "sent")' = NumberOf(c, "sent") /\ NumberOf(c, "failed")' = NumberOf(c, "failed")
      BY <1>i, <3>2, SettledRows
    <3>5. worker[i].counts.sent = NumberOf(c, "sent") /\ worker[i].counts.failed = NumberOf(c, "failed")
      BY <3>3 DEF SingleInvariant, InStore
    <3>6. worker'[i].counted = c /\ worker'[i].counts = worker[i].counts
      BY <3>2, <3>3
    <3> QED BY <3>4, <3>5, <3>6 DEF InStore, NumberOf, InStatus
  <2>2. ASSUME NEW c \in Campaigns, CountResults(i, c) PROVE InStore(i)'
    <3>1. /\ worker'[i].counted = c /\ recipient' = recipient
          /\ worker'[i].counts = [sent |-> NumberOf(c, "sent"), failed |-> NumberOf(c, "failed")]
      BY <2>2, <1>i, <1>t DEF CountResults, Worker, NumberOf
    <3> QED BY <3>1 DEF InStore, NumberOf, InStatus
  <2> QED BY <2>1, <2>2 DEF InStore
<1>3. ASSUME NEW c \in Campaigns PROVE FinishedClean(i, c)'
  <2> SUFFICES ASSUME Finished(c)'
               PROVE  /\ \A r \in Recipients : CampaignOf(r) = c => ~Open(r)'
                      /\ c \notin worker'[i].recount
                      /\ campaign'[c].status = "sent" => campaign'[c].failed = 0
                      /\ campaign'[c].status = "partial" => campaign'[c].failed > 0
    BY DEF FinishedClean
  <2>0. CampaignKept(i, c) /\ \A r \in Recipients : RowKept(i, r)
    BY <1>i, Moves
  <2>1. campaign'[c].status \in {"sent", "partial"}
    BY DEF Finished
  <2>2. CASE campaign'[c].status = campaign[c].status
    <3>1. /\ \A r \in Recipients : CampaignOf(r) = c => ~Open(r)
          /\ c \notin worker[i].recount
          /\ campaign[c].status = "sent" => campaign[c].failed = 0
          /\ campaign[c].status = "partial" => campaign[c].failed > 0
      BY <2>1, <2>2 DEF SingleInvariant, FinishedClean, Finished
    <3>2. c \notin worker'[i].recount
      BY <2>0, <2>1, <3>1 DEF CampaignKept
    <3>3. campaign'[c].failed = campaign[c].failed
      BY <2>0, <3>1 DEF CampaignKept, StoreCounts, InFlight, SingleInvariant
    <3>4. \A r \in Recipients : CampaignOf(r) = c => ~Open(r)'
      BY <2>0, <2>1, <3>1 DEF RowKept
    <3> QED BY <2>2, <3>1, <3>2, <3>3, <3>4
  <2>3. CASE FinaliseCompleted(i) /\ Complete(c)
    <3>1. campaign'[c] = [campaign[c] EXCEPT !.status = IF campaign[c].failed > 0 THEN "partial" ELSE "sent"]
      BY <2>3 DEF FinaliseCompleted
    <3>2. campaign[c].failed \in Nat /\ campaign[c] \in CampaignRow
      BY <1>t DEF CampaignRow
    <3>3. /\ campaign'[c].failed = campaign[c].failed
          /\ campaign'[c].status = IF campaign[c].failed > 0 THEN "partial" ELSE "sent"
      BY <3>1, <3>2 DEF CampaignRow
    <3>4. worker'[i].recount = {}
      BY <2>3, <1>i, <1>t DEF FinaliseCompleted, Asleep
    <3>5. \A r \in Recipients : CampaignOf(r) = c => ~Open(r)'
      BY <2>3 DEF FinaliseCompleted, Complete, InStatus, Open
    <3> QED BY <3>2, <3>3, <3>4, <3>5
  <2> QED BY <2>0, <2>2, <2>3 DEF CampaignKept
<1>4. ASSUME NEW c \in Campaigns PROVE Counted(i, c)'
  <2>0. CampaignKept(i, c)
    BY <1>i, Moves
  <2>1. \A status \in {"sent", "failed"} :
          /\ NumberOf(c, status) \in Nat /\ NumberOf(c, status)' \in Nat
          /\ NumberOf(c, status) <= NumberOf(c, status)'
          /\ ~RecordResult(i) \/ c \notin worker[i].recount =>
               NumberOf(c, status)' = NumberOf(c, status)
    BY <1>i, SettledRows
  <2>2. Counted(i, c)
    BY DEF SingleInvariant
  <2>3. campaign[c].sent \in Nat /\ campaign[c].failed \in Nat
    BY <1>t DEF CampaignRow
  <2>4. CASE StoreCounts(i) /\ c = worker[i].counted
    <3>1. campaign'[c].sent = worker[i].counts.sent /\ campaign'[c].failed = worker[i].counts.failed
      BY <2>4, <1>t DEF StoreCounts, CampaignRow
    <3>2. worker[i].counts.sent = NumberOf(c, "sent") /\ worker[i].counts.failed = NumberOf(c, "failed")
      BY <2>4 DEF SingleInvariant, InStore, StoreCounts
    <3>3. NumberOf(c, "sent")' = NumberOf(c, "sent") /\ NumberOf(c, "failed")' = NumberOf(c, "failed")
      BY <2>4 DEF StoreCounts, NumberOf, InStatus
    <3>4. NumberOf(c, "sent") \in Nat /\ NumberOf(c, "failed") \in Nat
      BY <2>1
    <3>5. campaign'[c].sent = NumberOf(c, "sent")' /\ campaign'[c].failed = NumberOf(c, "failed")'
      BY <3>1, <3>2, <3>3
    <3> QED BY <2>1, <3>5 DEF Counted
  <2>5. CASE ~(StoreCounts(i) /\ c = worker[i].counted)
    <3>1. campaign'[c].sent = campaign[c].sent /\ campaign'[c].failed = campaign[c].failed
      BY <2>0, <2>5 DEF CampaignKept
    <3>2. campaign'[c].sent <= NumberOf(c, "sent")' /\ campaign'[c].failed <= NumberOf(c, "failed")'
      BY <2>1, <2>2, <2>3, <3>1 DEF Counted
    <3>3. ASSUME failures' = 0, c \notin worker'[i].recount
          PROVE  campaign'[c].sent = NumberOf(c, "sent")' /\ campaign'[c].failed = NumberOf(c, "failed")'
      <4>1. failures = 0 /\ c \notin worker[i].recount
        BY <1>t, <2>0, <2>5, <3>3 DEF CampaignKept
      <4> QED BY <2>1, <2>2, <3>1, <4>1 DEF Counted
    <3> QED BY <3>2, <3>3 DEF Counted
  <2> QED BY <2>4, <2>5
<1> QED BY <1>1, <1>2, <1>3, <1>4 DEF SingleInvariant

LEMMA InitSingle == ASSUME NEW i \in Instances, Init PROVE SingleInvariant(i) /\ Delivered(i)
<1>1. \A c \in Campaigns, status \in {"sent", "failed"} : InStatus(c, status) = {}
  BY DEF Init, InStatus, NoRow
<1>2. \A c \in Campaigns : NumberOf(c, "sent") = 0 /\ NumberOf(c, "failed") = 0
  BY <1>1, FS_EmptySet DEF NumberOf
<1>3. worker[i] = Asleep /\ \A c \in Campaigns : campaign[c] = NoCampaign
  BY DEF Init
<1>4. InFlight(i) /\ InStore(i)
  BY <1>3 DEF InFlight, InStore, Asleep
<1>5. \A c \in Campaigns : FinishedClean(i, c) /\ Counted(i, c)
  BY <1>2, <1>3 DEF FinishedClean, Finished, Counted, NoCampaign
<1>6. Delivered(i)
  BY <1>3 DEF Init, Delivered, Recording, Asleep
<1> QED BY <1>4, <1>5, <1>6 DEF SingleInvariant

(* With one instance a row that was sent is never queued, sent or failed   *)
(* again: only the tick that holds a row writes it, and it holds rows that *)
(* are still being sent.                                                   *)
THEOREM SentStays == ASSUME NEW i, Instances = {i} PROVE Spec => SentIsFinal
<1>1. TypeInvariant /\ SingleInvariant(i) /\ [Next]_vars =>
        [\A r \in Recipients :
           recipient[r].status = "sent" => recipient'[r].status = "sent"]_vars
  BY Moves DEF SingleInvariant, RowKept
<1>2. Init => SingleInvariant(i)
  BY InitSingle
<1>3. TypeInvariant /\ TypeInvariant' /\ SingleInvariant(i) /\ [Next]_vars => SingleInvariant(i)'
  BY NextSingle
<1> QED BY <1>1, <1>2, <1>3, InitTypes, NextTypes, PTL DEF Spec, SentIsFinal

(* With one instance a campaign that finaliseCompletedCampaigns closed has *)
(* nothing left to send, however cancellations, sends and crashes race it. *)
THEOREM FinishedStaysDone == ASSUME NEW i, Instances = {i} PROVE Spec => []FinishedIsDone
<1>1. SingleInvariant(i) => FinishedIsDone
  BY DEF SingleInvariant, FinishedClean, FinishedIsDone, Finished, Open, InStatus
<1>2. Init => SingleInvariant(i)
  BY InitSingle
<1>3. TypeInvariant /\ TypeInvariant' /\ SingleInvariant(i) /\ [Next]_vars => SingleInvariant(i)'
  BY NextSingle
<1> QED BY <1>1, <1>2, <1>3, InitTypes, NextTypes, PTL DEF Spec

(* With one instance the counters of a finished campaign never say more    *)
(* than its rows; if no tick died they are right, and the campaign is      *)
(* reported partial exactly when some recipient failed.                    *)
THEOREM CountersRight == ASSUME NEW i, Instances = {i} PROVE Spec => []CountersMatchRows
<1>1. TypeInvariant /\ SingleInvariant(i) => CountersMatchRows
  <2> SUFFICES ASSUME TypeInvariant, SingleInvariant(i), NEW c \in Campaigns, Finished(c)
               PROVE  /\ campaign[c].sent <= NumberOf(c, "sent")
                      /\ campaign[c].failed <= NumberOf(c, "failed")
                      /\ campaign[c].status = "partial" => NumberOf(c, "failed") > 0
                      /\ failures = 0 =>
                           /\ campaign[c].sent = NumberOf(c, "sent")
                           /\ campaign[c].failed = NumberOf(c, "failed")
                           /\ campaign[c].status = "sent" => NumberOf(c, "failed") = 0
    BY DEF CountersMatchRows, NumberOf, Finished
  <2>1. FinishedClean(i, c) /\ Counted(i, c)
    BY DEF SingleInvariant
  <2>2. NumberOf(c, "failed") \in Nat /\ campaign[c].failed \in Nat
    BY CountsAreNat DEF NumberOf, TypeInvariant, TypeOK, CampaignRow
  <2> QED BY <2>1, <2>2 DEF FinishedClean, Counted
<1>2. Init => SingleInvariant(i)
  BY InitSingle
<1>3. TypeInvariant /\ TypeInvariant' /\ SingleInvariant(i) /\ [Next]_vars => SingleInvariant(i)'
  BY NextSingle
<1> QED BY <1>1, <1>2, <1>3, InitTypes, NextTypes, PTL DEF Spec
LEMMA NextDelivered ==
  ASSUME NEW i, Instances = {i}, "unconfirmed" \notin Outcomes,
         TypeInvariant, TypeInvariant', SingleInvariant(i), Delivered(i), [Next]_vars
  PROVE  Delivered(i)'
<1>i. i \in Instances /\ InFlight(i)
  BY DEF SingleInvariant
<1>t. /\ worker \in [Instances -> Worker] /\ recipient \in [Recipients -> RecipientRow]
      /\ inbox \in [Recipients -> Nat] /\ failures \in Nat
      /\ worker[i] \in Worker /\ worker[i].jobs \subseteq Job
      /\ worker[i].pc = "record" => worker[i].job.row \in Recipients
      /\ \A job \in worker[i].jobs : job.row \in Recipients
  BY <1>i, SingleTypes
<1>1. \A r \in Recipients : RowKept(i, r)
  BY <1>i, Moves
(* Steps of others: a row that is being recorded still is.                 *)
<1>2. ASSUME \/ worker'[i] = worker[i]
             \/ /\ worker[i].pc # "record" /\ worker'[i].pc # "record",
             \A r \in Recipients :
               \/ /\ inbox'[r] = inbox[r]
                  /\ recipient'[r].status = "absent" \/ recipient[r].status # "absent"
               \/ inbox'[r] = 0,
             failures' = failures
      PROVE  Delivered(i)'
  <2>1. \A r \in Recipients : inbox'[r] <= inbox[r] /\ inbox'[r] \in Nat
    BY <1>2, <1>t
  <2>2. ASSUME NEW r \in Recipients
        PROVE  /\ inbox'[r] <= 1 + failures'
               /\ recipient'[r].status \notin {"absent", "sent"} /\ ~Recording(i, r)' =>
                    inbox'[r] <= failures'
    <3>1. inbox'[r] <= 1 + failures'
      BY <1>2, <1>t, <2>1 DEF Delivered
    <3>2. ASSUME recipient'[r].status \notin {"absent", "sent"}, ~Recording(i, r)'
          PROVE  inbox'[r] <= failures'
      <4>1. recipient[r].status # "sent"
        BY <1>1, <3>2 DEF RowKept
      <4>2. ~Recording(i, r)
        BY <1>2, <3>2 DEF Recording
      <4> QED BY <1>2, <1>t, <3>2, <4>1, <4>2 DEF Delivered
    <3> QED BY <3>1, <3>2
  <2>3. ASSUME worker'[i].pc = "record", worker'[i].status # "sent"
        PROVE  inbox'[worker'[i].job.row] <= failures'
    BY <1>2, <1>t, <2>1, <2>3 DEF Delivered
  <2> QED BY <2>2, <2>3 DEF Delivered
<1>3. ASSUME NEW q \in Requests, QueueCampaign(q) PROVE Delivered(i)'
  <2>1. \A r \in Recipients :
          \/ /\ inbox'[r] = inbox[r]
             /\ recipient'[r].status = "absent" \/ recipient[r].status # "absent"
          \/ inbox'[r] = 0
    <3> DEFINE rows == {request[q].campaign} \X request[q].audience
    <3>1. CASE \A r \in rows : recipient[r].status = "absent"
      BY <1>3, <1>t, <3>1 DEF QueueCampaign
    <3>2. CASE ~\A r \in rows : recipient[r].status = "absent"
      BY <1>3, <1>t, <3>2 DEF QueueCampaign
    <3> QED BY <3>1, <3>2
  <2> QED BY <1>2, <1>3, <2>1 DEF QueueCampaign
<1>4. ASSUME NEW job \in worker[i].jobs, NEW outcome \in Outcomes, SendMail(i, job, outcome)
      PROVE  Delivered(i)'
  <2>1. /\ worker[i].pc = "send" /\ worker'[i].pc = "record" /\ worker'[i].job = job
        /\ worker'[i].status = NextStatus(outcome, job.attempt)
        /\ recipient' = recipient /\ failures' = failures
    BY <1>4, <1>t, <1>i DEF SendMail, Worker
  <2>2. job.row \in Recipients /\ recipient[job.row].status = "sending" /\ ~Recording(i, job.row)
    BY <1>i, <1>t DEF InFlight, Claimed
  <2>3. inbox[job.row] <= failures
    BY <2>2 DEF Delivered
  <2>4. \A r \in Recipients :
          \/ inbox'[r] = inbox[r]
          \/ r = job.row /\ inbox'[r] = inbox[r] + 1 /\ Arrived(outcome)
    BY <1>4, <1>t DEF SendMail
  <2>5. worker'[i].status # "sent" => ~Arrived(outcome)
    BY <2>1 DEF NextStatus, Arrived
  <2>6. \A r \in Recipients : ~Recording(i, r)
    BY <2>1 DEF Recording
  <2> QED BY <1>t, <2>1, <2>2, <2>3, <2>4, <2>5, <2>6 DEF Delivered, Recording
<1>5. CASE RecordResult(i)
  <2>1. /\ worker[i].pc = "record" /\ worker'[i].pc # "record" /\ inbox' = inbox /\ failures' = failures
    BY <1>5, <1>t, <1>i DEF RecordResult, Worker
  <2>2. recipient' = [recipient EXCEPT ![worker[i].job.row].status = worker[i].status]
    BY <1>5 DEF RecordResult, InFlight, SingleInvariant, Claimed
  <2>3. \A r \in Recipients : r # worker[i].job.row => recipient'[r] = recipient[r]
    BY <1>t, <2>2
  <2>4. recipient'[worker[i].job.row].status = worker[i].status
    BY <1>t, <2>1, <2>2 DEF RecipientRow
  <2> QED BY <2>1, <2>3, <2>4 DEF Delivered, Recording
<1>6. CASE TickDies(i)
  <2>1. worker'[i].pc # "record" /\ inbox' = inbox /\ failures' = failures + 1 /\ recipient' = recipient
    BY <1>6, <1>t, <1>i DEF TickDies, Asleep
  <2> QED BY <1>t, <2>1 DEF Delivered, Recording
<1>7. ASSUME NEW q \in Requests, RequestDies(q) PROVE Delivered(i)'
  <2>1. worker' = worker /\ inbox' = inbox /\ failures' = failures + 1 /\ recipient' = recipient
    BY <1>7 DEF RequestDies
  <2> QED BY <1>t, <2>1 DEF Delivered, Recording
<1>8. ASSUME NEW q \in Requests, CancelCampaign(q) PROVE Delivered(i)'
  <2>1. \A r \in Recipients : recipient'[r] = recipient[r] \/ recipient'[r].status = "absent"
    BY <1>8, <1>t DEF CancelCampaign, Deleted, NoRow
  <2> QED BY <1>2, <1>8, <2>1 DEF CancelCampaign
<1>9. ASSUME NEW c \in Campaigns, RowsAge(c) PROVE Delivered(i)'
  <2>1. \A r \in Recipients : recipient'[r].status = recipient[r].status
    BY <1>9, <1>t DEF RowsAge, RecipientRow
  <2> QED BY <1>2, <1>9, <2>1 DEF RowsAge
<1>10. CASE ReclaimStalled(i)
  <2>1. \A r \in Recipients : recipient'[r] = recipient[r] \/ recipient[r].status = "sending"
    BY <1>10, <1>t DEF ReclaimStalled, Stalled
  <2>2. worker[i].pc # "record" /\ worker'[i].pc # "record"
    BY <1>10, <1>t, <1>i DEF ReclaimStalled, Worker
  <2> QED BY <1>2, <1>10, <2>1, <2>2 DEF ReclaimStalled
<1>11. CASE ClaimBatch(i)
  <2>1. PICK batch \in SUBSET Claimable :
          /\ recipient' = [r \in Recipients |->
               IF r \in batch
               THEN [recipient[r] EXCEPT !.status = "sending", !.attempts = @ + 1]
               ELSE recipient[r]]
          /\ worker' = [worker EXCEPT ![i] =
               IF batch = {} THEN [@ EXCEPT !.pc = "finalise"]
               ELSE [@ EXCEPT !.pc = "send", !.jobs = {JobFor(r) : r \in batch},
                              !.recount = {CampaignOf(r) : r \in batch}]]
    BY <1>11 DEF ClaimBatch
  <2>2. \A r \in Recipients : recipient'[r] = recipient[r] \/ recipient[r].status = "pending"
    BY <2>1, <1>t DEF Claimable
  <2>3. worker[i].pc # "record" /\ worker'[i].pc # "record"
    BY <1>11, <2>1, <1>t, <1>i DEF ClaimBatch, Worker
  <2> QED BY <1>2, <1>11, <2>2, <2>3 DEF ClaimBatch
<1>12. ASSUME UNCHANGED <<recipient, inbox, failures>>, worker[i].pc # "record" /\ worker'[i].pc # "record"
       PROVE  Delivered(i)'
  BY <1>2, <1>12
<1>13. CASE PromoteScheduled(i) \/ StoreCounts(i) \/ FinaliseCompleted(i)
             \/ \E c \in Campaigns : CountResults(i, c)
  <2>1. worker[i].pc # "record" /\ UNCHANGED <<recipient, inbox, failures>>
    BY <1>13 DEF PromoteScheduled, StoreCounts, FinaliseCompleted, CountResults
  <2>2. worker'[i].pc # "record"
    <3>1. CASE PromoteScheduled(i)
      BY <3>1, <1>t, <1>i DEF PromoteScheduled, Worker
    <3>2. CASE StoreCounts(i)
      BY <3>2, <1>t, <1>i DEF StoreCounts, Asleep
    <3>4. CASE FinaliseCompleted(i)
      BY <3>4, <1>t, <1>i DEF FinaliseCompleted, Asleep
    <3>3. ASSUME NEW c \in Campaigns, CountResults(i, c) PROVE worker'[i].pc # "record"
      BY <3>3, <1>t, <1>i DEF CountResults, Worker
    <3> QED BY <1>13, <3>1, <3>2, <3>3, <3>4
  <2> QED BY <1>12, <2>1, <2>2
<1>14. CASE UNCHANGED <<recipient, worker, inbox, failures>>
  BY <1>2, <1>14
<1> QED BY <1>i, <1>3, <1>4, <1>5, <1>6, <1>7, <1>8, <1>9, <1>10, <1>11, <1>13, <1>14
        DEF Next, Staff, Request, Clock, Tick, vars, CreateCampaign, StartSend, StartCancel,
            ResolveAudience, OptOut, FallsDue

(* With one instance and a mail server whose replies arrive, each death of *)
(* a tick costs a recipient at most one extra copy of its row's message.   *)
THEOREM OneCopyEach ==
  ASSUME NEW i, Instances = {i}, "unconfirmed" \notin Outcomes
  PROVE  Spec => []OneCopyPlusCrashes
<1>1. Delivered(i) => OneCopyPlusCrashes
  BY DEF Delivered, OneCopyPlusCrashes
<1>2. Init => SingleInvariant(i) /\ Delivered(i)
  BY InitSingle
<1>3. TypeInvariant /\ TypeInvariant' /\ SingleInvariant(i) /\ Delivered(i) /\ [Next]_vars =>
        SingleInvariant(i)' /\ Delivered(i)'
  BY NextSingle, NextDelivered
<1> QED BY <1>1, <1>2, <1>3, InitTypes, NextTypes, PTL DEF Spec

-----------------------------------------------------------------------------
(* One staff request at a time: a campaign that is being sent is a draft   *)
(* until it is queued.                                                     *)
SendsADraft ==
  \A q \in Requests :
    request[q].pc \in {"resolve", "queue"} => campaign[request[q].campaign].status = "draft"

(* sendCampaign and cancelCampaign check the status before the transaction *)
(* that overwrites it; one request at a time, a cancelled campaign stays   *)
(* cancelled whatever any number of dispatchers do.                        *)
THEOREM CancellationStays ==
  ASSUME \A q, r \in Requests : q = r
  PROVE  Spec => CancelledStays
<1>1. Init => SendsADraft
  BY DEF Init, SendsADraft, NoRequest
<1>2. ASSUME TypeInvariant, SendsADraft, [Next]_vars
      PROVE  SendsADraft' /\ \A c \in Campaigns :
               campaign[c].status = "cancelled" => campaign'[c].status = "cancelled"
  <2>t. /\ campaign \in [Campaigns -> CampaignRow] /\ request \in [Requests -> StaffRequest]
        /\ \A q \in Requests : RequestHolds(request[q])
    BY <1>2 DEF TypeInvariant, TypeOK
  <2>s. \A q \in Requests : request[q].pc \in {"resolve", "queue"} =>
          request[q].campaign \in Campaigns /\ campaign[request[q].campaign].status = "draft"
    BY <1>2, <2>t DEF SendsADraft, RequestHolds
  (* Steps that leave the requests, drafts and cancelled campaigns alone.  *)
  <2>0. ASSUME request' = request,
               \A c \in Campaigns : campaign[c].status \in {"draft", "cancelled"} =>
                                      campaign'[c].status = campaign[c].status
        PROVE  SendsADraft' /\ \A c \in Campaigns :
                 campaign[c].status = "cancelled" => campaign'[c].status = "cancelled"
    BY <2>0, <2>s DEF SendsADraft
  <2>1. ASSUME NEW c \in Campaigns, NEW due \in BOOLEAN, CreateCampaign(c, due)
        PROVE  request' = request /\
               \A d \in Campaigns : campaign[d].status \in {"draft", "cancelled"} =>
                                      campaign'[d].status = campaign[d].status
    BY <2>1, <2>t DEF CreateCampaign
  <2>2. ASSUME NEW q \in Requests, NEW c \in Campaigns, StartSend(q, c) \/ StartCancel(q, c)
        PROVE  SendsADraft' /\ campaign' = campaign
    BY <2>2, <2>s, <2>t DEF StartSend, StartCancel, SendsADraft, NoRequest
  <2>3. ASSUME NEW q \in Requests, ResolveAudience(q) PROVE SendsADraft' /\ campaign' = campaign
    <3>1. campaign' = campaign /\ request[q].pc = "resolve"
      BY <2>3 DEF ResolveAudience
    <3>2. PICK audience \in SUBSET (Customers \ optedOut) :
            request' = [request EXCEPT ![q] =
              IF audience = {} THEN NoRequest
              ELSE [@ EXCEPT !.pc = "queue", !.audience = audience]]
      BY <2>3 DEF ResolveAudience
    <3>3. request'[q] = NoRequest \/ request'[q].campaign = request[q].campaign
      BY <3>2, <2>t DEF StaffRequest
    <3>4. \A r \in Requests : r # q => request'[r] = request[r]
      BY <3>2, <2>t
    <3> QED BY <3>1, <3>3, <3>4, <2>s DEF SendsADraft, NoRequest
  <2>4. ASSUME NEW q \in Requests, QueueCampaign(q) \/ CancelCampaign(q)
        PROVE  SendsADraft' /\ \A c \in Campaigns :
                 campaign[c].status = "cancelled" => campaign'[c].status = "cancelled"
    <3>1. \A r \in Requests : request'[r].pc = "idle"
      BY <2>4, <2>t DEF QueueCampaign, CancelCampaign, NoRequest
    <3>2. request[q].pc = "queue" => campaign[request[q].campaign].status = "draft"
      BY <2>s
    <3>3. \A c \in Campaigns : campaign[c].status = "cancelled" => campaign'[c].status = "cancelled"
      <4>1. CASE QueueCampaign(q)
        BY <4>1, <3>2, <2>t DEF QueueCampaign
      <4>2. CASE CancelCampaign(q)
        BY <4>2, <2>t DEF CancelCampaign, CampaignRow
      <4> QED BY <2>4, <4>1, <4>2
    <3> QED BY <3>1, <3>3 DEF SendsADraft
  <2>5. ASSUME NEW c \in Campaigns, FallsDue(c)
        PROVE  request' = request /\ \A d \in Campaigns : campaign'[d].status = campaign[d].status
    BY <2>5, <2>t DEF FallsDue, CampaignRow
  <2>6. ASSUME NEW i \in Instances, Tick(i)
        PROVE  request' = request /\
               \A d \in Campaigns : campaign[d].status \in {"draft", "cancelled"} =>
                                      campaign'[d].status = campaign[d].status
    <3>1. CASE PromoteScheduled(i)
      BY <3>1, <2>t DEF PromoteScheduled
    <3>2. CASE FinaliseCompleted(i)
      BY <3>2, <2>t DEF FinaliseCompleted, Complete
    <3>3. CASE StoreCounts(i)
      BY <3>3, <2>t DEF StoreCounts, CampaignRow
    <3>4. CASE ~PromoteScheduled(i) /\ ~FinaliseCompleted(i) /\ ~StoreCounts(i)
      BY <2>6, <3>4 DEF Tick, ReclaimStalled, ClaimBatch, SendMail, RecordResult, CountResults
    <3> QED BY <3>1, <3>2, <3>3, <3>4
  <2>7. ASSUME NEW q \in Requests, RequestDies(q) PROVE SendsADraft' /\ campaign' = campaign
    BY <2>7, <2>s, <2>t DEF RequestDies, SendsADraft, NoRequest
  <2>8. CASE UNCHANGED <<request, campaign>>
    BY <2>0, <2>8
  <2> QED BY <1>2, <2>0, <2>1, <2>2, <2>3, <2>4, <2>5, <2>6, <2>7, <2>8
          DEF Next, Staff, Request, Clock, vars, OptOut, RowsAge, TickDies
<1>3. TypeInvariant /\ SendsADraft /\ [Next]_vars =>
        [\A c \in Campaigns :
           campaign[c].status = "cancelled" => campaign'[c].status = "cancelled"]_vars
  BY <1>2
<1>4. TypeInvariant /\ SendsADraft /\ [Next]_vars => SendsADraft'
  BY <1>2
<1> QED BY <1>1, <1>3, <1>4, InitTypes, NextTypes, PTL DEF Spec, CancelledStays
=============================================================================

---------------------------- MODULE EmailDispatch ----------------------------
(***************************************************************************)
(* Email campaigns and the dispatcher that drains their recipients.        *)
(*                                                                         *)
(* email_campaign_recipients is the send queue. Every instance of the      *)
(* backend runs the same cron job; a tick is several statements with SMTP  *)
(* calls between them, so ticks of different instances, staff requests and *)
(* failures interleave between any two of them.                            *)
(***************************************************************************)
EXTENDS Naturals, FiniteSets

CONSTANTS
  Campaigns,
  Customers,
  Instances,   \* backend processes, each with its own running flag
  Requests,    \* concurrently running sendCampaign and cancelCampaign calls
  Outcomes,    \* what may come of an SMTP call
  BatchSize,   \* business.emailBatchSize
  OptOuts,     \* customers who may opt out; bound
  MaxFailures, \* bound: ticks and requests that die in a behaviour
  None

ASSUME EmailAssumption ==
  /\ Outcomes \subseteq {"accepted", "unconfirmed", "deferred", "refused"}
  /\ BatchSize \in Nat \ {0}
  /\ MaxFailures \in Nat
  /\ OptOuts \subseteq Customers
  /\ IsFiniteSet(Customers)

MaxAttempts == 3

VARIABLES
  campaign,  \* email_campaigns: status, whether it is due, counters
  recipient, \* email_campaign_recipients, unique per campaign and customer
  optedOut,  \* customers.emailOptOut
  worker,    \* local state of each instance's dispatch()
  request,   \* local state of each staff request
  inbox,     \* copies the mail server accepted of a recipient's latest row
  failures   \* ticks and requests that died so far

vars == <<campaign, recipient, optedOut, worker, request, inbox, failures>>

Recipients == Campaigns \X Customers
CampaignOf(r) == r[1]

NoCampaign == [status |-> "absent", due |-> FALSE, sent |-> 0, failed |-> 0]
(* Rows of one recipient are numbered: a deleted row leaves its id behind, *)
(* so that a row inserted again is another row.                            *)
NoRow == [status |-> "absent", attempts |-> 0, old |-> FALSE, id |-> 0]
Deleted(row) == [NoRow EXCEPT !.id = row.id]
Inserted(row) == [NoRow EXCEPT !.status = "pending", !.id = row.id + 1]
NoRequest == [pc |-> "idle", campaign |-> None, audience |-> {}]
NoCounts == [sent |-> 0, failed |-> 0]
(* A job is a claimed row with the id and the attempts the claim returned. *)
JobFor(r) == [row |-> r, id |-> recipient[r].id, attempt |-> recipient[r].attempts + 1]
Asleep == [pc |-> "idle", jobs |-> {}, job |-> None, status |-> "absent",
           recount |-> {}, counted |-> None, counts |-> NoCounts]

InStatus(c, status) == {r \in Recipients : CampaignOf(r) = c /\ recipient[r].status = status}

Init ==
  /\ campaign = [c \in Campaigns |-> NoCampaign]
  /\ recipient = [r \in Recipients |-> NoRow]
  /\ optedOut = {}
  /\ worker = [i \in Instances |-> Asleep]
  /\ request = [q \in Requests |-> NoRequest]
  /\ inbox = [r \in Recipients |-> 0]
  /\ failures = 0

-----------------------------------------------------------------------------
(* Staff: composing, sending and cancelling a campaign.                    *)

CreateCampaign(c, due) ==
  /\ campaign[c].status = "absent"
  /\ campaign' = [campaign EXCEPT ![c].status = "draft", ![c].due = due]
  /\ UNCHANGED <<recipient, optedOut, worker, request, inbox, failures>>

StartSend(q, c) ==
  /\ request[q].pc = "idle"
  /\ campaign[c].status = "draft"
  /\ request' = [request EXCEPT ![q] = [NoRequest EXCEPT !.pc = "resolve", !.campaign = c]]
  /\ UNCHANGED <<campaign, recipient, optedOut, worker, inbox, failures>>

(* A filter selects some of the customers who have not opted out. *)
ResolveAudience(q) ==
  /\ request[q].pc = "resolve"
  /\ \E audience \in SUBSET (Customers \ optedOut) :
       request' = [request EXCEPT ![q] =
         IF audience = {} THEN NoRequest
         ELSE [@ EXCEPT !.pc = "queue", !.audience = audience]]
  /\ UNCHANGED <<campaign, recipient, optedOut, worker, inbox, failures>>

(* A customer who is a recipient already violates uq_email_recipients. *)
QueueCampaign(q) ==
  LET c == request[q].campaign
      rows == {c} \X request[q].audience IN
  /\ request[q].pc = "queue"
  /\ IF \A r \in rows : recipient[r].status = "absent"
     THEN /\ recipient' = [r \in Recipients |->
                            IF r \in rows THEN Inserted(recipient[r]) ELSE recipient[r]]
          /\ inbox' = [r \in Recipients |-> IF r \in rows THEN 0 ELSE inbox[r]]
          /\ campaign' = [campaign EXCEPT ![c].status = "queued"]
     ELSE UNCHANGED <<recipient, inbox, campaign>>
  /\ request' = [request EXCEPT ![q] = NoRequest]
  /\ UNCHANGED <<optedOut, worker, failures>>

StartCancel(q, c) ==
  /\ request[q].pc = "idle"
  /\ campaign[c].status \in {"draft", "queued", "sending"}
  /\ request' = [request EXCEPT ![q] = [NoRequest EXCEPT !.pc = "cancel", !.campaign = c]]
  /\ UNCHANGED <<campaign, recipient, optedOut, worker, inbox, failures>>

CancelCampaign(q) ==
  LET c == request[q].campaign IN
  /\ request[q].pc = "cancel"
  /\ recipient' = [r \in Recipients |->
                     IF r \in InStatus(c, "pending") THEN Deleted(recipient[r])
                     ELSE recipient[r]]
  /\ campaign' = [campaign EXCEPT ![c].status = "cancelled"]
  /\ request' = [request EXCEPT ![q] = NoRequest]
  /\ UNCHANGED <<optedOut, worker, inbox, failures>>

OptOut(u) ==
  /\ optedOut' = optedOut \cup {u}
  /\ UNCHANGED <<campaign, recipient, worker, request, inbox, failures>>

-----------------------------------------------------------------------------
(* The clock.                                                              *)

FallsDue(c) ==
  /\ campaign[c].status # "absent" /\ ~campaign[c].due
  /\ campaign' = [campaign EXCEPT ![c].due = TRUE]
  /\ UNCHANGED <<recipient, optedOut, worker, request, inbox, failures>>

(* Ten minutes after a campaign was queued its rows are old, whenever they *)
(* were claimed: the stall window is counted from created_at.              *)
RowsAge(c) ==
  /\ \E r \in Recipients :
       CampaignOf(r) = c /\ recipient[r].status # "absent" /\ ~recipient[r].old
  /\ recipient' = [r \in Recipients |->
       IF CampaignOf(r) = c /\ recipient[r].status # "absent"
       THEN [recipient[r] EXCEPT !.old = TRUE] ELSE recipient[r]]
  /\ UNCHANGED <<campaign, optedOut, worker, request, inbox, failures>>

-----------------------------------------------------------------------------
(* One tick of the dispatcher of instance i.                               *)

(* Mutation: rows that were sent are reclaimed too. *)
StalledOrSent(r) ==
  /\ recipient[r].status \in {"sending", "sent"}
  /\ recipient[r].old /\ recipient[r].attempts < MaxAttempts

Stalled(r) ==
  recipient[r].status = "sending" /\ recipient[r].old /\ recipient[r].attempts < MaxAttempts

(* Mutation: a reclaimed row starts its attempts afresh. *)
ReclaimAfresh(i) ==
  /\ worker[i].pc = "idle"
  /\ recipient' = [r \in Recipients |->
       IF Stalled(r) THEN [recipient[r] EXCEPT !.status = "pending", !.attempts = 0]
       ELSE recipient[r]]
  /\ worker' = [worker EXCEPT ![i].pc = "promote"]
  /\ UNCHANGED <<campaign, optedOut, request, inbox, failures>>

ReclaimStalled(i) ==
  /\ worker[i].pc = "idle"
  /\ recipient' = [r \in Recipients |->
       IF Stalled(r) THEN [recipient[r] EXCEPT !.status = "pending"] ELSE recipient[r]]
  /\ worker' = [worker EXCEPT ![i].pc = "promote"]
  /\ UNCHANGED <<campaign, optedOut, request, inbox, failures>>

PromoteScheduled(i) ==
  /\ worker[i].pc = "promote"
  /\ campaign' = [c \in Campaigns |->
       IF campaign[c].status = "queued" /\ campaign[c].due
       THEN [campaign[c] EXCEPT !.status = "sending"] ELSE campaign[c]]
  /\ worker' = [worker EXCEPT ![i].pc = "claim"]
  /\ UNCHANGED <<recipient, optedOut, request, inbox, failures>>

(* Mutation: the claim does not look at the attempts. *)
ClaimableForever ==
  {r \in Recipients : /\ recipient[r].status = "pending"
                      /\ campaign[CampaignOf(r)].status = "sending"}

Claimable ==
  {r \in Recipients : /\ recipient[r].status = "pending"
                      /\ campaign[CampaignOf(r)].status = "sending"
                      /\ recipient[r].attempts < MaxAttempts}

(* The claim commits before anything is sent. An empty one skips the rest  *)
(* of sendBatch, the counters included.                                    *)
ClaimBatch(i) ==
  /\ worker[i].pc = "claim"
  /\ \E batch \in SUBSET Claimable :
       /\ batch # Claimable => Cardinality(batch) = BatchSize
       /\ Cardinality(batch) <= BatchSize
       /\ recipient' = [r \in Recipients |->
            IF r \in batch
            THEN [recipient[r] EXCEPT !.status = "sending", !.attempts = @ + 1]
            ELSE recipient[r]]
       /\ worker' = [worker EXCEPT ![i] =
            IF batch = {} THEN [@ EXCEPT !.pc = "finalise"]
            ELSE [@ EXCEPT !.pc = "send",
                           !.jobs = {JobFor(r) : r \in batch},
                           !.recount = {CampaignOf(r) : r \in batch}]]
  /\ UNCHANGED <<campaign, optedOut, request, inbox, failures>>

(* "unconfirmed": the server took the message, but the reply was lost and  *)
(* reads as a timeout, which is retryable like a 4xx ("deferred").         *)
Arrived(outcome) == outcome \in {"accepted", "unconfirmed"}

(* Mutation: a transient failure is retried without limit. *)
NextStatusUnlimited(outcome, attempts) ==
  IF outcome = "accepted" THEN "sent"
  ELSE IF outcome \in {"unconfirmed", "deferred"} THEN "pending" ELSE "failed"

NextStatus(outcome, attempts) ==
  IF outcome = "accepted" THEN "sent"
  ELSE IF outcome \in {"unconfirmed", "deferred"} /\ attempts < MaxAttempts THEN "pending"
  ELSE "failed"

SendMail(i, job, outcome) ==
  /\ worker[i].pc = "send"
  /\ job \in worker[i].jobs
  /\ inbox' = IF Arrived(outcome) /\ job.id = recipient[job.row].id
              THEN [inbox EXCEPT ![job.row] = @ + 1] ELSE inbox
  /\ worker' = [worker EXCEPT ![i].pc = "record", ![i].job = job,
                              ![i].status = NextStatus(outcome, job.attempt),
                              ![i].jobs = @ \ {job}]
  /\ UNCHANGED <<campaign, recipient, optedOut, request, failures>>

(* The result is written by id, whatever the row says by now; a row that   *)
(* was deleted stays deleted, and one queued again is not touched.         *)
RecordResult(i) ==
  LET job == worker[i].job
      row == recipient[job.row] IN
  /\ worker[i].pc = "record"
  /\ recipient' = IF row.status = "absent" \/ row.id # job.id THEN recipient
                  ELSE [recipient EXCEPT ![job.row].status = worker[i].status]
  /\ worker' = [worker EXCEPT ![i].pc = IF worker[i].jobs = {} THEN "count" ELSE "send",
                              ![i].job = None, ![i].status = "absent"]
  /\ UNCHANGED <<campaign, optedOut, request, inbox, failures>>

CountResults(i, c) ==
  /\ worker[i].pc = "count"
  /\ c \in worker[i].recount
  /\ worker' = [worker EXCEPT ![i].pc = "store", ![i].counted = c,
       ![i].counts = [sent |-> Cardinality(InStatus(c, "sent")),
                      failed |-> Cardinality(InStatus(c, "failed"))]]
  /\ UNCHANGED <<campaign, recipient, optedOut, request, inbox, failures>>

(* Mutation: the counters are incremented instead of replaced. *)
AddCounts(i) ==
  LET w == worker[i] IN
  /\ w.pc = "store"
  /\ campaign' = [campaign EXCEPT ![w.counted].sent = @ + w.counts.sent,
                                  ![w.counted].failed = @ + w.counts.failed]
  /\ worker' = [worker EXCEPT ![i] =
       [Asleep EXCEPT !.pc = IF w.recount = {w.counted} THEN "finalise" ELSE "count",
                      !.recount = w.recount \ {w.counted}]]
  /\ UNCHANGED <<recipient, optedOut, request, inbox, failures>>

StoreCounts(i) ==
  LET w == worker[i] IN
  /\ w.pc = "store"
  /\ campaign' = [campaign EXCEPT ![w.counted].sent = w.counts.sent,
                                  ![w.counted].failed = w.counts.failed]
  /\ worker' = [worker EXCEPT ![i] =
       [Asleep EXCEPT !.pc = IF w.recount = {w.counted} THEN "finalise" ELSE "count",
                      !.recount = w.recount \ {w.counted}]]
  /\ UNCHANGED <<recipient, optedOut, request, inbox, failures>>

(* Mutations: any campaign is completed; rows in flight are not waited for. *)
CompleteAnyStatus(c) ==
  /\ campaign[c].status # "absent"
  /\ InStatus(c, "pending") \cup InStatus(c, "sending") = {}
CompleteInFlight(c) ==
  /\ campaign[c].status = "sending"
  /\ InStatus(c, "pending") = {}

Complete(c) ==
  /\ campaign[c].status = "sending"
  /\ InStatus(c, "pending") \cup InStatus(c, "sending") = {}

FinaliseCompleted(i) ==
  /\ worker[i].pc = "finalise"
  /\ campaign' = [c \in Campaigns |->
       IF Complete(c)
       THEN [campaign[c] EXCEPT !.status = IF campaign[c].failed > 0 THEN "partial" ELSE "sent"]
       ELSE campaign[c]]
  /\ worker' = [worker EXCEPT ![i] = Asleep]
  /\ UNCHANGED <<recipient, optedOut, request, inbox, failures>>

-----------------------------------------------------------------------------
(* A database error that dispatch() logs, or the end of the process: what  *)
(* the tick had committed stays, the rest of it does not happen.           *)
TickDies(i) ==
  /\ failures < MaxFailures
  /\ worker[i].pc # "idle"
  /\ worker' = [worker EXCEPT ![i] = Asleep]
  /\ failures' = failures + 1
  /\ UNCHANGED <<campaign, recipient, optedOut, request, inbox>>

RequestDies(q) ==
  /\ failures < MaxFailures
  /\ request[q].pc # "idle"
  /\ request' = [request EXCEPT ![q] = NoRequest]
  /\ failures' = failures + 1
  /\ UNCHANGED <<campaign, recipient, optedOut, worker, inbox>>

-----------------------------------------------------------------------------
Tick(i) ==
  \/ ReclaimStalled(i) \/ PromoteScheduled(i) \/ ClaimBatch(i)
  \/ \E job \in worker[i].jobs, outcome \in Outcomes : SendMail(i, job, outcome)
  \/ RecordResult(i)
  \/ \E c \in Campaigns : CountResults(i, c)
  \/ StoreCounts(i) \/ FinaliseCompleted(i)

Staff ==
  \/ \E c \in Campaigns, due \in BOOLEAN : CreateCampaign(c, due)
  \/ \E q \in Requests, c \in Campaigns : StartSend(q, c) \/ StartCancel(q, c)

Request(q) == ResolveAudience(q) \/ QueueCampaign(q) \/ CancelCampaign(q)

Clock == \E c \in Campaigns : FallsDue(c) \/ RowsAge(c)

Next ==
  \/ Staff
  \/ \E q \in Requests : Request(q)
  \/ \E u \in OptOuts \ optedOut : OptOut(u)
  \/ Clock
  \/ \E i \in Instances : Tick(i)
  \/ \E i \in Instances : TickDies(i)
  \/ \E q \in Requests : RequestDies(q)

Spec == Init /\ [][Next]_vars

(* The cron job fires every 30 seconds and its statements finish; time     *)
(* passes. Staff are free to do nothing.                                   *)
Fairness ==
  /\ \A i \in Instances : WF_vars(Tick(i))
  /\ \A c \in Campaigns : WF_vars(FallsDue(c)) /\ WF_vars(RowsAge(c))
  /\ \A q \in Requests : WF_vars(Request(q))

FairSpec == Spec /\ Fairness

-----------------------------------------------------------------------------
(* Properties.                                                             *)

Statuses == {"absent", "draft", "queued", "sending", "sent", "partial", "cancelled"}
RowStatuses == {"absent", "pending", "sending", "sent", "failed"}
CampaignRow == [status: Statuses, due: BOOLEAN, sent: Nat, failed: Nat]
RecipientRow == [status: RowStatuses, attempts: 0..MaxAttempts, old: BOOLEAN, id: Nat]
Job == [row: Recipients, id: Nat, attempt: 1..MaxAttempts]
Worker ==
  [pc: {"idle", "promote", "claim", "send", "record", "count", "store", "finalise"},
   jobs: SUBSET Job, job: Job \cup {None},
   status: RowStatuses, recount: SUBSET Campaigns, counted: Campaigns \cup {None},
   counts: [sent: Nat, failed: Nat]]
StaffRequest ==
  [pc: {"idle", "resolve", "queue", "cancel"}, campaign: Campaigns \cup {None},
   audience: SUBSET Customers]

(* Rows keep the schema and no row is claimed more than three times.       *)
TypeOK ==
  /\ campaign \in [Campaigns -> CampaignRow]
  /\ recipient \in [Recipients -> RecipientRow]
  /\ optedOut \subseteq Customers
  /\ worker \in [Instances -> Worker]
  /\ request \in [Requests -> StaffRequest]
  /\ inbox \in [Recipients -> Nat]
  /\ failures \in Nat

(* However ticks of any number of instances race, die and are retried, and *)
(* whatever replies the mail server loses, a recipient gets no more copies *)
(* of a campaign than claims of its row: three at most (MAX_ATTEMPTS).     *)
CopiesWithinAttempts ==
  \A r \in Recipients :
    recipient[r].status # "absent" => inbox[r] <= recipient[r].attempts

(* With one instance and a server whose replies arrive, each crash costs a *)
(* recipient at most one extra copy, and nothing else costs any.           *)
OneCopyPlusCrashes == \A r \in Recipients : inbox[r] <= 1 + failures

(* A recipient recorded as sent is never queued, sent to or failed again.  *)
SentIsFinal ==
  [][\A r \in Recipients :
       recipient[r].status = "sent" => recipient'[r].status = "sent"]_vars

(* A campaign reported as finished has nothing left to send.               *)
FinishedIsDone ==
  \A c \in Campaigns :
    campaign[c].status \in {"sent", "partial"} =>
      InStatus(c, "pending") \cup InStatus(c, "sending") = {}

(* The counters of a finished campaign never say more than its rows, and,  *)
(* unless a tick died, say the same: it is reported partial exactly when   *)
(* some recipient failed.                                                  *)
CountersMatchRows ==
  \A c \in Campaigns :
    LET sent   == Cardinality(InStatus(c, "sent"))
        failed == Cardinality(InStatus(c, "failed"))
    IN  campaign[c].status \in {"sent", "partial"} =>
          /\ campaign[c].sent <= sent /\ campaign[c].failed <= failed
          /\ campaign[c].status = "partial" => failed > 0
          /\ failures = 0 =>
               /\ campaign[c].sent = sent /\ campaign[c].failed = failed
               /\ campaign[c].status = "sent" => failed = 0

(* A campaign that half-delivered is never reported as a clean success.    *)
NoFalseSuccess ==
  \A c \in Campaigns : campaign[c].status = "sent" => InStatus(c, "failed") = {}

(* A cancelled campaign stays cancelled, whatever the dispatcher is doing  *)
(* with it, as long as requests of the staff do not overlap: send() writes *)
(* the status without looking at it again, so a send that overlaps a       *)
(* cancellation can queue the cancelled campaign (README, section 6).      *)
CancelledStays ==
  [][\A c \in Campaigns :
       campaign[c].status = "cancelled" => campaign'[c].status = "cancelled"]_vars

(* A row whose last claim died: sending, out of attempts, in nobody's hand. *)
Stranded(r) ==
  /\ recipient[r].status = "sending" /\ recipient[r].attempts = MaxAttempts
  /\ \A i \in Instances : /\ worker[i].pc = "record" => worker[i].job.row # r
                          /\ \A job \in worker[i].jobs : job.row # r

(* Every campaign that was queued is finished or cancelled eventually,     *)
(* through retries, stalls and restarts, unless the death of a tick during *)
(* a third claim strands one of its rows.                                  *)
QueuedIsFinished ==
  \A c \in Campaigns :
    campaign[c].status = "queued" ~>
      \/ campaign[c].status \in {"sent", "partial", "cancelled"}
      \/ \E r \in Recipients : CampaignOf(r) = c /\ Stranded(r)
=============================================================================

-------------------------------- MODULE Spins --------------------------------
(***************************************************************************)
(* Spin events, their winners and the job that moves their status with the *)
(* clock. Eligibility and windows are read from the VIP component, which   *)
(* changes under the requests as VipList says.                             *)
(***************************************************************************)
EXTENDS VipList, FiniteSets

CONSTANTS
  Events,       \* rows of spin_events; bound: how many there can be
  Calls,        \* concurrently running createEvent and recordWinners calls
  NoRow         \* SQL NULL in a foreign key

ASSUME SpinsAssumption ==
  /\ LastDay \in Nat \ {0} /\ Thresholds \subseteq Nat \ {0}
  /\ NoRow \notin Events /\ NoRow \notin Criteria

VARIABLES
  event,      \* spin_events: status, criteria, whether scheduled_at has passed
  winners,    \* spin_winners, unique per event and customer
  request,    \* local state of each running request
  tick,       \* the statement of the status job that is next
  everListed  \* history: who has ever been on a criteria's list

spinVars == <<event, winners, request, tick>>
vip == <<listVars, everListed>>
vipAndSpins == <<vip, spinVars>>

NoEvent == [status |-> "none", criteria |-> NoRow, due |-> FALSE, deleted |-> FALSE]
NoRequest == [pc |-> "idle", event |-> NoRow, criteria |-> NoRow, terms |-> NoTerms,
              due |-> FALSE, chosen |-> {}]

Exists(v) == event[v].status # "none" /\ ~event[v].deleted
Open(v) == event[v].status \in {"scheduled", "live"}
Window(v) == criteria[event[v].criteria].terms

SpinInit ==
  /\ ListInit
  /\ event = [v \in Events |-> NoEvent]
  /\ winners = [v \in Events |-> {}]
  /\ request = [q \in Calls |-> NoRequest]
  /\ tick = "live"
  /\ everListed = [k \in Criteria |-> {}]

-----------------------------------------------------------------------------
(* createEvent: the window is read with the check and used at the insert,  *)
(* where statusFor looks at it only when the date has passed.              *)

(* Mutation: the criteria is not looked up. *)
StartCreateUnchecked(q, k, due, chosen) ==
  /\ request[q].pc = "idle"
  /\ request' = [request EXCEPT ![q] =
       [pc |-> IF chosen = {} THEN "create" ELSE "preselect", event |-> NoRow,
        criteria |-> k, terms |-> NoTerms, due |-> due, chosen |-> chosen]]
  /\ UNCHANGED <<vip, event, winners, tick>>

(* An event with winners is preselected, one without is drawn later. *)
StartCreate(q, k, due, chosen) ==
  /\ request[q].pc = "idle"
  /\ Current(k)
  /\ request' = [request EXCEPT ![q] =
       [pc |-> IF chosen = {} THEN "create" ELSE "preselect", event |-> NoRow,
        criteria |-> k, terms |-> IF due THEN criteria[k].terms ELSE NoTerms,
        due |-> due, chosen |-> chosen]]
  /\ UNCHANGED <<vip, event, winners, tick>>

(* Mutation: winners are only checked when they are preselected. *)
EligiblePreselected(q) ==
  request[q].pc = "preselect" => request[q].chosen \subseteq qualified[request[q].criteria]

Eligible(q) == request[q].chosen \subseteq qualified[request[q].criteria]

AssertAllEligible(q) ==
  LET d == request[q] IN
  /\ d.pc \in {"preselect", "record"}
  /\ request' = [request EXCEPT ![q] =
       IF ~Eligible(q) THEN NoRequest
       ELSE [d EXCEPT !.pc = IF d.pc = "preselect" THEN "create" ELSE "duplicates"]]
  /\ UNCHANGED <<vip, event, winners, tick>>

StatusFor(due, terms) ==
  IF ~due THEN "scheduled" ELSE IF Covers(terms, today) THEN "live" ELSE "completed"

CreateEvent(q, v) ==
  LET d == request[q] IN
  /\ d.pc = "create"
  /\ event[v].status = "none"
  /\ event' = [event EXCEPT ![v] =
       [status |-> StatusFor(d.due, d.terms), criteria |-> d.criteria,
        due |-> d.due, deleted |-> FALSE]]
  /\ winners' = [winners EXCEPT ![v] = d.chosen]
  /\ request' = [request EXCEPT ![q] = NoRequest]
  /\ UNCHANGED <<vip, tick>>

-----------------------------------------------------------------------------
(* recordWinners: event, eligibility and duplicates, then the insert.      *)

StartRecord(q, v, chosen) ==
  /\ request[q].pc = "idle"
  /\ Exists(v) /\ Open(v) /\ chosen # {}
  /\ request' = [request EXCEPT ![q] =
       [NoRequest EXCEPT !.pc = "record", !.event = v,
                         !.criteria = event[v].criteria, !.chosen = chosen]]
  /\ UNCHANGED <<vip, event, winners, tick>>

CheckDuplicates(q) ==
  LET d == request[q] IN
  /\ d.pc = "duplicates"
  /\ request' = [request EXCEPT ![q] =
       IF d.chosen \cap winners[d.event] # {} THEN NoRequest
       ELSE [d EXCEPT !.pc = "insert"]]
  /\ UNCHANGED <<vip, event, winners, tick>>

(* uq_spin_winners: one row that is there already fails them all. *)
InsertWinners(q) ==
  LET d == request[q] IN
  /\ d.pc = "insert"
  /\ winners' = IF d.chosen \cap winners[d.event] # {} THEN winners
                ELSE [winners EXCEPT ![d.event] = @ \cup d.chosen]
  /\ request' = [request EXCEPT ![q] = NoRequest]
  /\ UNCHANGED <<vip, event, tick>>

-----------------------------------------------------------------------------
(* Other staff requests. updateEvent takes any status and any date.        *)

UpdateEvent(v, status, due) ==
  /\ Exists(v)
  /\ event' = [event EXCEPT ![v].status = status, ![v].due = due]
  /\ UNCHANGED <<vip, winners, request, tick>>

RemoveWinner(v, c) ==
  /\ Exists(v) /\ c \in winners[v]
  /\ winners' = [winners EXCEPT ![v] = @ \ {c}]
  /\ UNCHANGED <<vip, event, request, tick>>

RemoveEvent(v) ==
  /\ Exists(v)
  /\ event' = [event EXCEPT ![v].deleted = TRUE]
  /\ UNCHANGED <<vip, winners, request, tick>>

-----------------------------------------------------------------------------
(* The clock and the status job.                                           *)

FallsDue(v) ==
  /\ event[v].status # "none" /\ ~event[v].due
  /\ event' = [event EXCEPT ![v].due = TRUE]
  /\ UNCHANGED <<vip, winners, request, tick>>

Moved(status, moves(_)) ==
  event' = [v \in Events |-> IF Exists(v) /\ moves(v)
                             THEN [event[v] EXCEPT !.status = status] ELSE event[v]]

AdvanceToLive ==
  /\ tick = "live" /\ tick' = "completed"
  /\ Moved("live", LAMBDA v : /\ event[v].status = "scheduled" /\ event[v].due
                              /\ Covers(Window(v), today))
  /\ UNCHANGED <<vip, winners, request>>

(* Mutation: only live events are completed. *)
AdvanceLiveToCompleted ==
  /\ tick = "completed" /\ tick' = "live"
  /\ Moved("completed", LAMBDA v : event[v].status = "live" /\ today > Window(v).last)
  /\ UNCHANGED <<vip, winners, request>>

AdvanceToCompleted ==
  /\ tick = "completed" /\ tick' = "live"
  /\ Moved("completed", LAMBDA v : Open(v) /\ today > Window(v).last)
  /\ UNCHANGED <<vip, winners, request>>

-----------------------------------------------------------------------------
RequestDies(q) ==
  /\ request[q].pc # "idle"
  /\ request' = [request EXCEPT ![q] = NoRequest]
  /\ UNCHANGED <<vip, event, winners, tick>>

TickDies ==
  /\ tick = "completed" /\ tick' = "live"
  /\ UNCHANGED <<vip, event, winners, request>>

Staff ==
  \/ \E q \in Calls, chosen \in SUBSET Customers :
       \/ \E k \in Criteria, due \in BOOLEAN : StartCreate(q, k, due, chosen)
       \/ \E v \in Events : StartRecord(q, v, chosen)
  \/ \E v \in Events :
       \/ \E status \in {"scheduled", "live", "completed", "cancelled"},
             due \in BOOLEAN : UpdateEvent(v, status, due)
       \/ \E c \in Customers : RemoveWinner(v, c)
       \/ RemoveEvent(v)

Request(q) ==
  \/ AssertAllEligible(q) \/ CheckDuplicates(q) \/ InsertWinners(q)
  \/ \E v \in Events : CreateEvent(q, v)

Vip ==
  /\ ListNext
  /\ everListed' = [k \in Criteria |-> everListed[k] \cup qualified'[k]]
  /\ UNCHANGED spinVars

SpinNext ==
  \/ Vip \/ Staff
  \/ \E q \in Calls : Request(q) \/ RequestDies(q)
  \/ \E v \in Events : FallsDue(v)
  \/ AdvanceToLive \/ AdvanceToCompleted \/ TickDies

SpinSpec == SpinInit /\ [][SpinNext]_vipAndSpins

(* The cron job fires every ten minutes; of those ticks that get to its    *)
(* second statement not all die there.                                     *)
FairSpinSpec ==
  SpinSpec /\ WF_vipAndSpins(AdvanceToLive) /\ SF_vipAndSpins(AdvanceToCompleted)

-----------------------------------------------------------------------------
(* Properties.                                                             *)

Statuses == {"none", "scheduled", "live", "completed", "cancelled"}

(* Rows keep the schema, and every event has a criteria there is a row of. *)
SpinTypeOK ==
  /\ event \in [Events -> [status: Statuses, criteria: Criteria \cup {NoRow},
                           due: BOOLEAN, deleted: BOOLEAN]]
  /\ \A v \in Events : event[v].status # "none" =>
       event[v].criteria \in Criteria /\ criteria[event[v].criteria].status # "none"
  /\ winners \in [Events -> SUBSET Customers]
  /\ everListed \in [Criteria -> SUBSET Customers]
  /\ request \in [Calls ->
       [pc: {"idle", "preselect", "create", "record", "duplicates", "insert"},
        event: Events \cup {NoRow}, criteria: Criteria \cup {NoRow},
        terms: Terms \cup {NoTerms}, due: BOOLEAN, chosen: SUBSET Customers]]
  /\ tick \in {"live", "completed"}

(* However the list is rebuilt, the criteria edited and requests race,     *)
(* nobody is a winner who was never on the list of the event's criteria.   *)
WinnersWereListed ==
  \A v \in Events : winners[v] # {} => winners[v] \subseteq everListed[event[v].criteria]

(* From some time on event v changes only by the job. *)
LeftToTheClock(v) ==
  <>[][AdvanceToLive \/ AdvanceToCompleted]_(event[v]) /\ <>[][FALSE]_criteria

(* No restart and no missed tick leaves an event stuck: left to the clock, *)
(* an event that is due goes live in its window, and ends with it.         *)
EventFollowsWindow ==
  \A v \in Events : LeftToTheClock(v) =>
    /\ <>[](Exists(v) /\ event[v].due /\ Covers(Window(v), today)) =>
         <>[](event[v].status # "scheduled")
    /\ <>[](Exists(v) /\ today > Window(v).last) => <>[]~Open(v)
=============================================================================

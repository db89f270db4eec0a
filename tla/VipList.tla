------------------------------- MODULE VipList -------------------------------
(***************************************************************************)
(* What the VIP component is to those who read it: criteria that masters   *)
(* create, edit and remove, a calendar, and a list of customers for each   *)
(* criteria there has ever been, which may change at any time.             *)
(***************************************************************************)
EXTENDS Integers

CONSTANTS
  Customers,
  Criteria,   \* rows of vip_criteria; bound: how many there can be
  LastDay,    \* bound: the calendar ends here
  Thresholds  \* what a master may enter as thresholdAmount

VARIABLES
  today,
  criteria,   \* vip_criteria
  qualified   \* vip_qualifications: customers with a row, per criteria

listVars == <<today, criteria, qualified>>

Days == 1..LastDay
Terms == {t \in [threshold: Thresholds, first: Days, last: Days] : t.first <= t.last}
NoTerms == [threshold |-> 0, first |-> 1, last |-> 1]
NoCriteria == [status |-> "none", active |-> FALSE, terms |-> NoTerms]

Covers(terms, day) == terms.first <= day /\ day <= terms.last
Listed(k) == criteria[k].status = "listed"
Current(k) == Listed(k) /\ criteria[k].active /\ Covers(criteria[k].terms, today)

ListInit ==
  /\ today = 1
  /\ criteria = [k \in Criteria |-> NoCriteria]
  /\ qualified = [k \in Criteria |-> {}]

NewDay ==
  /\ today < LastDay
  /\ today' = today + 1
  /\ UNCHANGED <<criteria, qualified>>

Create(k, terms) ==
  /\ criteria[k].status = "none"
  /\ criteria' = [criteria EXCEPT ![k] =
                    [status |-> "listed", active |-> TRUE, terms |-> terms]]
  /\ UNCHANGED <<today, qualified>>

(* In any window, past or to come; a criteria removed under the request    *)
(* that edits it is edited all the same.                                   *)
Edit(k, terms, active) ==
  /\ criteria[k].status # "none"
  /\ criteria' = [criteria EXCEPT ![k].terms = terms, ![k].active = active]
  /\ UNCHANGED <<today, qualified>>

(* Removing a criteria keeps its terms and its list. *)
Remove(k) ==
  /\ Listed(k)
  /\ criteria' = [criteria EXCEPT ![k].status = "removed"]
  /\ UNCHANGED <<today, qualified>>

Relist(k, customers) ==
  /\ criteria[k].status # "none"
  /\ qualified' = [qualified EXCEPT ![k] = customers]
  /\ UNCHANGED <<today, criteria>>

ListNext ==
  \/ NewDay
  \/ \E k \in Criteria :
       \/ \E terms \in Terms :
            Create(k, terms) \/ \E active \in BOOLEAN : Edit(k, terms, active)
       \/ Remove(k)
       \/ \E customers \in SUBSET Customers : Relist(k, customers)

ListSpec == ListInit /\ [][ListNext]_listVars
=============================================================================

-------------------------------- MODULE Ledger --------------------------------
(***************************************************************************)
(* The transactions service: entries, corrections and deletions of the     *)
(* money ledger, and the customer balances they move.                      *)
(*                                                                         *)
(* A request is the handler of createCorrection or remove: it reads the    *)
(* entry, then the corrections against it, then commits one transaction.   *)
(* With one request this is the service used by one person at a time;      *)
(* with several, requests interleave between any two of those statements.  *)
(***************************************************************************)
EXTENDS Integers, FiniteSets, Functions

CONSTANTS
  Customers,
  Entries,   \* rows of the transactions table; bound: how many there can be
  Requests,  \* concurrently running corrections and deletions
  Types,     \* kinds of entry staff key in
  Amounts,   \* amounts staff key in, in minor units
  None       \* SQL NULL in a foreign key

ASSUME LedgerAssumption ==
  /\ IsFiniteSet(Entries)
  /\ Types \subseteq {"debit", "credit"}
  /\ Amounts \subseteq Nat \ {0}
  /\ None \notin Customers /\ None \notin Entries

VARIABLES
  row,      \* the transactions table
  balance,  \* customers.balance
  request   \* local state of each running request

vars == <<row, balance, request>>

Unused == [status |-> "unused", customer |-> None, type |-> "credit",
           amount |-> 0, parent |-> None, deleted |-> FALSE]
Idle == [pc |-> "idle", target |-> None, amount |-> 0, fully |-> FALSE]

Used(t) == row[t].status # "unused"
Live(t) == Used(t) /\ ~row[t].deleted

(* findCorrections: the corrections against t that are not deleted. *)
Corrections(t) == {n \in Entries : Live(n) /\ row[n].parent = t}

Total(entries) == SumFunctionOnSet([t \in Entries |-> row[t].amount], entries)

CorrectedTotal(t) == Total(Corrections(t))

(* What an entry keyed in by staff does to the balance. *)
Effect(type, a) == IF type = "debit" THEN a ELSE -a

Init ==
  /\ row = [t \in Entries |-> Unused]
  /\ balance = [c \in Customers |-> 0]
  /\ request = [q \in Requests |-> Idle]

-----------------------------------------------------------------------------
(* create: the insert and the balance update commit together.              *)
Create(t, c, type, a) ==
  /\ ~Used(t)
  /\ row' = [row EXCEPT ![t] =
               [status |-> "completed", customer |-> c, type |-> type,
                amount |-> a, parent |-> None, deleted |-> FALSE]]
  /\ balance' = [balance EXCEPT ![c] = @ + Effect(type, a)]
  /\ UNCHANGED request

-----------------------------------------------------------------------------
(* createCorrection: load the parent, sum what was corrected, insert.      *)

StartCorrection(q, t, a) ==
  /\ request[q].pc = "idle"
  /\ Live(t)
  /\ row[t].parent = None
  /\ row[t].status # "reversed"
  /\ request' = [request EXCEPT ![q] =
                   [pc |-> "sum", target |-> t, amount |-> a, fully |-> FALSE]]
  /\ UNCHANGED <<row, balance>>

(* Mutation: earlier corrections are not taken into account. *)
SumNothing(q) ==
  LET t == request[q].target
      a == request[q].amount IN
  /\ request[q].pc = "sum"
  /\ request' = [request EXCEPT ![q] =
       IF a > row[t].amount THEN Idle
       ELSE [@ EXCEPT !.pc = "insert", !.fully = (a = row[t].amount)]]
  /\ UNCHANGED <<row, balance>>

SumCorrections(q) ==
  LET t == request[q].target
      a == request[q].amount
      remaining == row[t].amount - CorrectedTotal(t) IN
  /\ request[q].pc = "sum"
  /\ request' = [request EXCEPT ![q] =
       IF a > remaining THEN Idle
       ELSE [@ EXCEPT !.pc = "insert", !.fully = (a = remaining)]]
  /\ UNCHANGED <<row, balance>>

(* Mutation: the parent is never marked reversed. *)
InsertCorrectionUnmarked(q, n) ==
  LET t == request[q].target
      a == request[q].amount IN
  /\ request[q].pc = "insert"
  /\ ~Used(n)
  /\ row' = [row EXCEPT ![n] = [status |-> "completed", customer |-> row[t].customer,
                                type |-> "credit", amount |-> a, parent |-> t,
                                deleted |-> FALSE]]
  /\ balance' = [balance EXCEPT ![row[t].customer] = @ - Effect(row[t].type, a)]
  /\ request' = [request EXCEPT ![q] = Idle]

(* The correction is always a credit, and takes back the parent's effect.  *)
InsertCorrection(q, n) ==
  LET t == request[q].target
      a == request[q].amount
      correction == [status |-> "completed", customer |-> row[t].customer,
                     type |-> "credit", amount |-> a, parent |-> t,
                     deleted |-> FALSE] IN
  /\ request[q].pc = "insert"
  /\ ~Used(n)
  /\ row' = IF request[q].fully
            THEN [row EXCEPT ![n] = correction, ![t].status = "reversed"]
            ELSE [row EXCEPT ![n] = correction]
  /\ balance' = [balance EXCEPT ![row[t].customer] = @ - Effect(row[t].type, a)]
  /\ request' = [request EXCEPT ![q] = Idle]

-----------------------------------------------------------------------------
(* remove, a master's: load the entry, look for corrections, soft-delete.  *)

StartRemoval(q, t) ==
  /\ request[q].pc = "idle"
  /\ Live(t)
  /\ request' = [request EXCEPT ![q] = [Idle EXCEPT !.pc = "check", !.target = t]]
  /\ UNCHANGED <<row, balance>>

(* Mutation: an entry with corrections is deleted too. *)
CheckNothing(q) ==
  /\ request[q].pc = "check"
  /\ request' = [request EXCEPT ![q].pc = "delete"]
  /\ UNCHANGED <<row, balance>>

CheckCorrections(q) ==
  /\ request[q].pc = "check"
  /\ request' = [request EXCEPT ![q] =
       IF Corrections(request[q].target) = {} THEN [@ EXCEPT !.pc = "delete"]
       ELSE Idle]
  /\ UNCHANGED <<row, balance>>

(* Mutations: deleting a correction reopens its parent; deleting leaves    *)
(* the balance alone.                                                      *)
DeleteReopens(q) ==
  LET t == request[q].target IN
  /\ request[q].pc = "delete"
  /\ row' = [n \in Entries |->
       IF n = t THEN [row[n] EXCEPT !.deleted = TRUE]
       ELSE IF n = row[t].parent THEN [row[n] EXCEPT !.status = "completed"]
       ELSE row[n]]
  /\ balance' = [balance EXCEPT ![row[t].customer] =
                   @ - Effect(row[t].type, row[t].amount)]
  /\ request' = [request EXCEPT ![q] = Idle]
DeleteRowOnly(q) ==
  /\ request[q].pc = "delete"
  /\ row' = [row EXCEPT ![request[q].target].deleted = TRUE]
  /\ request' = [request EXCEPT ![q] = Idle]
  /\ UNCHANGED balance

Delete(q) ==
  LET t == request[q].target IN
  /\ request[q].pc = "delete"
  /\ row' = [row EXCEPT ![t].deleted = TRUE]
  /\ balance' = [balance EXCEPT ![row[t].customer] =
                   @ - Effect(row[t].type, row[t].amount)]
  /\ request' = [request EXCEPT ![q] = Idle]

(* A database error, or the process dies, between two statements. *)
RequestFails(q) ==
  /\ request[q].pc # "idle"
  /\ request' = [request EXCEPT ![q] = Idle]
  /\ UNCHANGED <<row, balance>>

-----------------------------------------------------------------------------
Enter == \E t \in Entries, c \in Customers, type \in Types, a \in Amounts :
           Create(t, c, type, a)

Correct(q) ==
  \/ \E t \in Entries, a \in Amounts : StartCorrection(q, t, a)
  \/ SumCorrections(q)
  \/ \E n \in Entries : InsertCorrection(q, n)

Remove(q) ==
  \/ \E t \in Entries : StartRemoval(q, t)
  \/ CheckCorrections(q)
  \/ Delete(q)

Next == Enter \/ \E q \in Requests : Correct(q) \/ Remove(q) \/ RequestFails(q)

Spec == Init /\ [][Next]_vars

-----------------------------------------------------------------------------
(* Properties of any number of concurrent requests.                        *)

Row ==
  {r \in [status: {"unused", "completed", "reversed"}, customer: Customers \cup {None},
          type: {"debit", "credit"}, amount: Nat, parent: Entries \cup {None},
          deleted: BOOLEAN] :
     r.status # "unused" => r.customer \in Customers}
Request ==
  {r \in [pc: {"idle", "sum", "insert", "check", "delete"},
          target: Entries \cup {None}, amount: Nat, fully: BOOLEAN] :
     r.pc # "idle" => r.target \in Entries}

(* Every row keeps the schema, and a request works on a row there is.      *)
TypeOK ==
  /\ row \in [Entries -> Row]
  /\ balance \in [Customers -> Int]
  /\ request \in [Requests -> Request]
  /\ \A q \in Requests : request[q].pc # "idle" => Used(request[q].target)

(* A correction is a credit of the customer whose entry it corrects, and   *)
(* corrections are never corrected: what total_withdrawn leaves out and    *)
(* what correctedTotal sums are the same rows, however requests race.      *)
CorrectionShape ==
  \A n \in Entries :
    (Used(n) /\ row[n].parent # None) =>
      /\ row[n].type = "credit" /\ row[n].status = "completed"
      /\ LET t == row[n].parent IN
           /\ t # n /\ Used(t)
           /\ row[t].parent = None
           /\ row[t].customer = row[n].customer

(* History stays intact: what an entry says about money never changes, a   *)
(* deleted one stays deleted, a reversed one reversed.                     *)
HistoryKept ==
  [][\A t \in Entries : Used(t) =>
       /\ \A field \in {"customer", "type", "amount", "parent"} :
            row'[t][field] = row[t][field]
       /\ row[t].deleted => row'[t].deleted
       /\ row[t].status = "reversed" => row'[t].status = "reversed"]_vars

-----------------------------------------------------------------------------
(* Properties of requests that do not overlap: their checks and writes are *)
(* statements of their own, and two requests at a time can break them      *)
(* (README, section 6).                                                    *)

(* Corrections against one parent do not exceed its amount in aggregate    *)
(* (createCorrection).                                                     *)
CorrectionsWithinParent ==
  \A t \in Entries : Used(t) => CorrectedTotal(t) <= row[t].amount

(* No correction outlives its parent (remove).                             *)
NoOrphanCorrection ==
  \A n \in Entries : (Live(n) /\ row[n].parent # None) => Live(row[n].parent)

(* An entry corrected in full is marked reversed, so it is not corrected   *)
(* again (createCorrection).                                               *)
FullyCorrectedIsReversed ==
  \A t \in Entries :
    (Live(t) /\ row[t].parent = None /\ CorrectedTotal(t) = row[t].amount) =>
      row[t].status = "reversed"

Net(c) ==
  LET of(type) == {t \in Entries : Live(t) /\ row[t].customer = c /\ row[t].type = type}
  IN  Total(of("debit")) - Total(of("credit"))

(* The balance staff quote is the net of the ledger.                       *)
BalanceAgreesWithLedger == \A c \in Customers : balance[c] = Net(c)

(* The same for customers none of whose withdrawals was ever corrected.    *)
BalanceAgreesForDeposits ==
  \A c \in Customers :
    (\A n \in Entries : (Used(n) /\ row[n].parent # None /\ row[n].customer = c) =>
        row[row[n].parent].type = "debit")
    => balance[c] = Net(c)

-----------------------------------------------------------------------------
(* What is left of each original entry, for the abstract book.             *)
Original(t) == Used(t) /\ row[t].parent = None

State ==
  [t \in Entries |-> IF ~Original(t) THEN "none"
                     ELSE IF row[t].deleted THEN "void" ELSE "open"]
Face == [t \in Entries |-> IF Original(t) THEN row[t].amount ELSE 0]
Left == [t \in Entries |-> IF Original(t) THEN row[t].amount - CorrectedTotal(t) ELSE 0]

(* Requests one at a time keep the book of LedgerBook: entries are open    *)
(* until they are voided whole, and corrections draw on what is left.      *)
Book == INSTANCE LedgerBook WITH state <- State, face <- Face, left <- Left
KeepsBook == Book!Spec
=============================================================================

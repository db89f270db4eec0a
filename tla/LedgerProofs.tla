----------------------------- MODULE LedgerProofs -----------------------------
(* Theorems about Ledger for every set of customers, entries and amounts,  *)
(* and (where not stated otherwise) any number of concurrent requests.     *)
EXTENDS Ledger, Sums, TLAPS

(* What an entry does to a balance is an integer.                          *)
LEMMA EffectType ==
  ASSUME NEW type, NEW a \in Nat
  PROVE  Effect(type, a) \in Int
BY DEF Effect

LEMMA InitTypeOK == Init => TypeOK
BY DEF Init, TypeOK, Unused, Idle, Row, Request, Used

(* The row a request inserts is a row of the schema.                       *)
LEMMA RowType ==
  ASSUME NEW c \in Customers, NEW type \in {"debit", "credit"}, NEW a \in Nat,
         NEW p \in Entries \cup {None}
  PROVE  [status |-> "completed", customer |-> c, type |-> type, amount |-> a,
          parent |-> p, deleted |-> FALSE] \in Row
BY DEF Row

(* A row marked reversed or deleted keeps the rest of it.                  *)
LEMMA RowMarked ==
  ASSUME NEW r \in Row, r.status # "unused"
  PROVE  /\ [r EXCEPT !.status = "reversed"] \in Row
         /\ [r EXCEPT !.deleted = TRUE] \in Row
BY DEF Row

LEMMA RequestMoves ==
  /\ Idle \in Request /\ Idle.pc = "idle"
  /\ \A t \in Entries, a \in Nat :
       [pc |-> "sum", target |-> t, amount |-> a, fully |-> FALSE] \in Request
  /\ \A t \in Entries : [Idle EXCEPT !.pc = "check", !.target = t] \in Request
  /\ \A r \in Request : r.pc # "idle" =>
       /\ \A b \in BOOLEAN : [r EXCEPT !.pc = "insert", !.fully = b] \in Request
       /\ [r EXCEPT !.pc = "delete"] \in Request
BY DEF Idle, Request

(* What an insertion does to the table.                                    *)
Inserts(q, n, t) ==
  /\ t = request[q].target
  /\ Used(t) /\ ~Used(n) /\ n # t
  /\ row'[n].status = "completed" /\ row'[n].customer = row[t].customer
  /\ row'[n].type = "credit" /\ row'[n].amount = request[q].amount
  /\ row'[n].parent = t /\ row'[n].deleted = FALSE
  /\ row'[t] = row[t] \/ row'[t] = [row[t] EXCEPT !.status = "reversed"]
  /\ \A s \in Entries : s = n \/ s = t \/ row'[s] = row[s]
  /\ row' \in [Entries -> Row]

LEMMA InsertedRow ==
  ASSUME TypeOK, NEW q \in Requests, NEW n \in Entries, InsertCorrection(q, n)
  PROVE  \E t \in Entries : Inserts(q, n, t)
<1> PICK t \in Entries : t = request[q].target
  BY DEF InsertCorrection, TypeOK, Request
<1> DEFINE a == request[q].amount
           correction == [status |-> "completed", customer |-> row[t].customer,
                          type |-> "credit", amount |-> a, parent |-> t,
                          deleted |-> FALSE]
<1>1. Used(t) /\ ~Used(n) /\ n # t /\ a \in Nat
  BY DEF InsertCorrection, TypeOK, Request
<1>2. row[t] \in Row /\ row[t].customer \in Customers
  BY <1>1 DEF TypeOK, Row, Used
<1>3. correction \in Row
  BY <1>1, <1>2, RowType
<1>4. [row[t] EXCEPT !.status = "reversed"] \in Row
  BY <1>1, <1>2, RowMarked DEF Used
<1>5. \/ row' = [row EXCEPT ![n] = correction, ![t].status = "reversed"]
      \/ row' = [row EXCEPT ![n] = correction]
  BY DEF InsertCorrection
<1> HIDE DEF correction
<1>6. /\ row'[n] = correction
      /\ row'[t] = row[t] \/ row'[t] = [row[t] EXCEPT !.status = "reversed"]
      /\ \A s \in Entries : s = n \/ s = t \/ row'[s] = row[s]
      /\ row' \in [Entries -> Row]
  BY <1>1, <1>3, <1>4, <1>5 DEF TypeOK
<1> QED BY <1>1, <1>6 DEF correction, Inserts

LEMMA NextTypeOK == TypeOK /\ [Next]_vars => TypeOK'
<1> SUFFICES ASSUME TypeOK, [Next]_vars PROVE TypeOK'
  OBVIOUS
<1>0. \A r \in Requests : request[r].pc # "idle" => request[r].target \in Entries
  BY DEF TypeOK, Request
<1>1. ASSUME NEW t \in Entries, NEW c \in Customers, NEW type \in Types,
             NEW a \in Amounts, Create(t, c, type, a)
      PROVE  TypeOK'
  <2>1. a \in Nat /\ type \in {"debit", "credit"}
    BY LedgerAssumption
  <2> DEFINE r == [status |-> "completed", customer |-> c, type |-> type,
                   amount |-> a, parent |-> None, deleted |-> FALSE]
  <2>2. r \in Row /\ r.status # "unused"
    BY <2>1, RowType
  <2>3. row' = [row EXCEPT ![t] = r]
    BY <1>1 DEF Create
  <2>4. balance' \in [Customers -> Int]
    BY <1>1, <2>1, EffectType DEF Create, TypeOK
  <2> HIDE DEF r
  <2> QED BY <1>0, <1>1, <2>2, <2>3, <2>4 DEF Create, TypeOK, Used
<1>2. ASSUME NEW q \in Requests, NEW t \in Entries, NEW a \in Amounts,
             StartCorrection(q, t, a)
      PROVE  TypeOK'
  <2>1. a \in Nat
    BY LedgerAssumption
  <2> QED BY <1>2, <2>1, RequestMoves DEF StartCorrection, TypeOK, Live, Used
<1>3. ASSUME NEW q \in Requests, SumCorrections(q)
      PROVE  TypeOK'
  <2>1. \/ request' = [request EXCEPT ![q] = Idle]
        \/ \E b \in BOOLEAN :
             request' = [request EXCEPT ![q] =
                           [request[q] EXCEPT !.pc = "insert", !.fully = b]]
    BY <1>3 DEF SumCorrections
  <2>2. \A b \in BOOLEAN : [request[q] EXCEPT !.pc = "insert", !.fully = b].target
                             = request[q].target
    BY DEF TypeOK, Request
  <2>3. CASE request' = [request EXCEPT ![q] = Idle]
    BY <1>0, <1>3, <2>3, RequestMoves DEF SumCorrections, TypeOK, Used
  <2>4. ASSUME NEW b \in BOOLEAN,
               request' = [request EXCEPT ![q] =
                             [request[q] EXCEPT !.pc = "insert", !.fully = b]]
        PROVE  TypeOK'
    <3> DEFINE r == [request[q] EXCEPT !.pc = "insert", !.fully = b]
    <3>1. r \in Request /\ r.target = request[q].target
      BY <1>3, <2>2, RequestMoves DEF SumCorrections, TypeOK
    <3> HIDE DEF r
    <3> QED BY <1>0, <1>3, <2>4, <3>1 DEF SumCorrections, TypeOK, Used, r
  <2> QED BY <2>1, <2>3, <2>4
<1>4. ASSUME NEW q \in Requests, NEW n \in Entries, InsertCorrection(q, n)
      PROVE  TypeOK'
  <2>0. PICK t \in Entries : Inserts(q, n, t)
    BY <1>4, InsertedRow
  <2>1. row' \in [Entries -> Row] /\ \A s \in Entries : Used(s) => Used(s)'
    BY <2>0 DEF Inserts, Used, TypeOK, Row
  <2>2. \A type : Effect(type, request[q].amount) \in Int
    BY EffectType DEF TypeOK, Request
  <2> DEFINE c == row[request[q].target].customer
             d == Effect(row[request[q].target].type, request[q].amount)
  <2>3. balance' \in [Customers -> Int]
    <3>1. c \in Customers /\ d \in Int
      <4>1. row[t] \in Row /\ row[t].status # "unused" /\ t = request[q].target
        BY <2>0 DEF Inserts, Used, TypeOK
      <4> QED BY <2>2, <4>1 DEF Row
    <3>2. balance' = [balance EXCEPT ![c] = @ - d]
      BY <1>4 DEF InsertCorrection
    <3> HIDE DEF c, d
    <3> QED BY <3>1, <3>2 DEF TypeOK
  <2> QED BY <1>0, <1>4, <2>1, <2>3, RequestMoves DEF InsertCorrection, TypeOK
<1>5. ASSUME NEW q \in Requests, NEW t \in Entries, StartRemoval(q, t)
      PROVE  TypeOK'
  BY <1>0, <1>5, RequestMoves DEF StartRemoval, TypeOK, Live, Used, Idle
<1>6. ASSUME NEW q \in Requests, CheckCorrections(q)
      PROVE  TypeOK'
  <2>1. [request[q] EXCEPT !.pc = "delete"].target = request[q].target
    BY DEF TypeOK, Request
  <2> QED BY <1>0, <1>6, <2>1, RequestMoves DEF CheckCorrections, TypeOK, Used
<1>7. ASSUME NEW q \in Requests, Delete(q)
      PROVE  TypeOK'
  <2> DEFINE t == request[q].target
  <2>1. t \in Entries /\ Used(t) /\ row[t] \in Row
    BY <1>7 DEF Delete, TypeOK, Request
  <2>2. [row[t] EXCEPT !.deleted = TRUE] \in Row
    BY <2>1, RowMarked DEF Used
  <2>3. [row[t] EXCEPT !.deleted = TRUE].status = row[t].status
    BY <2>1 DEF Row
  <2>4. Effect(row[t].type, row[t].amount) \in Int
    BY <2>1, EffectType DEF Row
  <2>5. balance' \in [Customers -> Int]
    <3> DEFINE c == row[t].customer
               d == Effect(row[t].type, row[t].amount)
    <3>1. c \in Customers /\ d \in Int
      BY <2>1, <2>4 DEF Row, Used
    <3>2. balance' = [balance EXCEPT ![c] = @ - d]
      BY <1>7 DEF Delete
    <3> HIDE DEF c, d
    <3> QED BY <3>1, <3>2 DEF TypeOK
  <2>6. row' = [row EXCEPT ![t] = [row[t] EXCEPT !.deleted = TRUE]]
    BY <1>7 DEF Delete
  <2>7. row' \in [Entries -> Row] /\ \A s \in Entries : Used(s) => Used(s)'
    BY <2>1, <2>2, <2>3, <2>6 DEF TypeOK, Used
  <2> QED BY <1>0, <1>7, <2>5, <2>7, RequestMoves DEF Delete, TypeOK
<1>8. ASSUME NEW q \in Requests, RequestFails(q)
      PROVE  TypeOK'
  BY <1>0, <1>8, RequestMoves DEF RequestFails, TypeOK, Used
<1>9. CASE UNCHANGED vars
  BY <1>0, <1>9 DEF vars, TypeOK, Used
<1> QED
  BY <1>1, <1>2, <1>3, <1>4, <1>5, <1>6, <1>7, <1>8, <1>9
  DEF Next, Enter, Correct, Remove

(* Rows keep their schema and requests work on rows there are.             *)
THEOREM TypeCorrect == Spec => []TypeOK
BY InitTypeOK, NextTypeOK, PTL DEF Spec

-----------------------------------------------------------------------------
(* A step leaves the table alone or is one of the three commits.           *)
LEMMA RowWriters ==
  ASSUME [Next]_vars
  PROVE  \/ UNCHANGED row
         \/ \E t \in Entries, c \in Customers, type \in Types, a \in Amounts :
              Create(t, c, type, a)
         \/ \E q \in Requests, n \in Entries : InsertCorrection(q, n)
         \/ \E q \in Requests : Delete(q)
BY DEF Next, Enter, Correct, Remove, StartCorrection, SumCorrections, StartRemoval,
       CheckCorrections, RequestFails, vars

(* A used row keeps what it says about money, and its marks only grow.     *)
Kept(t) ==
  /\ row'[t].customer = row[t].customer
  /\ row'[t].type = row[t].type
  /\ row'[t].amount = row[t].amount
  /\ row'[t].parent = row[t].parent
  /\ row[t].deleted => row'[t].deleted
  /\ row[t].status = "reversed" => row'[t].status = "reversed"
  /\ Used(t)'

LEMMA RowsKept ==
  ASSUME TypeOK, [Next]_vars, NEW s \in Entries, Used(s)
  PROVE  Kept(s)
<1>1. CASE UNCHANGED row
  BY <1>1 DEF Kept, Used
<1>2. CASE \E t \in Entries, c \in Customers, type \in Types, a \in Amounts :
             Create(t, c, type, a)
  BY <1>2 DEF Create, Kept, Used, TypeOK
<1>3. CASE \E q \in Requests, n \in Entries : InsertCorrection(q, n)
  <2> PICK q \in Requests, n \in Entries : InsertCorrection(q, n)
    BY <1>3
  <2>1. row'[s] = row[s] \/ row'[s] = [row[s] EXCEPT !.status = "reversed"]
    BY InsertedRow DEF Inserts, Used
  <2> QED BY <2>1 DEF Kept, Used, TypeOK, Row
<1>4. CASE \E q \in Requests : Delete(q)
  <2>1. row'[s] = row[s] \/ row'[s] = [row[s] EXCEPT !.deleted = TRUE]
    BY <1>4 DEF Delete, TypeOK
  <2> QED BY <2>1 DEF Kept, Used, TypeOK, Row
<1> QED BY <1>1, <1>2, <1>3, <1>4, RowWriters

(* No request, alone or racing another, rewrites history.                  *)
THEOREM HistoryStays == Spec => HistoryKept
<1>1. TypeOK /\ [Next]_vars =>
        [\A t \in Entries : Used(t) =>
           /\ \A field \in {"customer", "type", "amount", "parent"} :
                row'[t][field] = row[t][field]
           /\ row[t].deleted => row'[t].deleted
           /\ row[t].status = "reversed" => row'[t].status = "reversed"]_vars
  BY RowsKept DEF Kept
<1> QED BY <1>1, TypeCorrect, PTL DEF Spec, HistoryKept

-----------------------------------------------------------------------------
(* What one request does to its own state.                                 *)
LEMMA RequestSteps ==
  ASSUME TypeOK, [Next]_vars, NEW q \in Requests
  PROVE  \/ request'[q] = request[q]
         \/ request'[q] = Idle
         \/ \E t \in Entries, a \in Amounts : StartCorrection(q, t, a)
         \/ SumCorrections(q)
         \/ \E t \in Entries : StartRemoval(q, t)
         \/ CheckCorrections(q)
<1>1. CASE Enter \/ UNCHANGED vars
  BY <1>1 DEF Enter, Create, vars
<1>2. ASSUME NEW r \in Requests, r # q, Correct(r) \/ Remove(r) \/ RequestFails(r)
      PROVE  request'[q] = request[q]
  BY <1>2 DEF Correct, Remove, RequestFails, StartCorrection, SumCorrections,
              InsertCorrection, StartRemoval, CheckCorrections, Delete, TypeOK
<1>3. ASSUME \/ RequestFails(q) \/ Delete(q)
             \/ \E n \in Entries : InsertCorrection(q, n)
      PROVE  request'[q] = Idle
  BY <1>3 DEF RequestFails, Delete, InsertCorrection, TypeOK
<1> QED BY <1>1, <1>2, <1>3 DEF Next, Correct, Remove

(* CorrectionShape of one correction in a table of rows.                   *)
Shape(table, n) ==
  /\ table[n].type = "credit" /\ table[n].status = "completed"
  /\ table[n].parent # n
  /\ table[table[n].parent].status # "unused"
  /\ table[table[n].parent].parent = None
  /\ table[table[n].parent].customer = table[n].customer

LEMMA ShapeDef ==
  CorrectionShape <=>
    \A n \in Entries : (Used(n) /\ row[n].parent # None) => Shape(row, n)
BY DEF CorrectionShape, Shape, Used

(* A correction under way aims at an entry that is not itself one. This,   *)
(* checked when the parent was loaded, is never revised: rows keep their   *)
(* parent.                                                                 *)
ShapeInvariant ==
  /\ \A n \in Entries : (Used(n) /\ row[n].parent # None) => Shape(row, n)
  /\ \A q \in Requests :
       request[q].pc \in {"sum", "insert"} => row[request[q].target].parent = None

LEMMA ShapeKept ==
  ASSUME TypeOK, ShapeInvariant, [Next]_vars,
         NEW n \in Entries, Used(n), row[n].parent # None
  PROVE  Shape(row', n)
<1> PICK t \in Entries : t = row[n].parent
  BY DEF TypeOK, Row
<1>1. /\ t # n /\ Used(t) /\ row[t].parent = None
      /\ row[t].customer = row[n].customer
      /\ row[n].type = "credit" /\ row[n].status = "completed"
  BY DEF ShapeInvariant, Shape, Used
<1>2. Kept(n) /\ Kept(t)
  BY <1>1, RowsKept
<1>3. row'[n].status = "completed"
  <2>1. CASE UNCHANGED row
    BY <1>1, <2>1
  <2>2. CASE \E s \in Entries, c \in Customers, type \in Types, a \in Amounts :
               Create(s, c, type, a)
    BY <1>1, <2>2 DEF Create, TypeOK
  <2>3. CASE \E q \in Requests, m \in Entries : InsertCorrection(q, m)
    <3> PICK q \in Requests, m \in Entries : InsertCorrection(q, m)
      BY <2>3
    <3>1. PICK s \in Entries : Inserts(q, m, s)
      BY InsertedRow
    <3>2. s # n /\ m # n
      BY <3>1 DEF Inserts, ShapeInvariant, InsertCorrection
    <3> QED BY <1>1, <3>1, <3>2 DEF Inserts
  <2>4. CASE \E q \in Requests : Delete(q)
    BY <1>1, <2>4 DEF Delete, TypeOK, Row
  <2> QED BY <2>1, <2>2, <2>3, <2>4, RowWriters
<1> QED BY <1>1, <1>2, <1>3 DEF Kept, Shape, Used

LEMMA ShapeOfNew ==
  ASSUME TypeOK, ShapeInvariant, [Next]_vars,
         NEW n \in Entries, ~Used(n), row'[n].status # "unused", row'[n].parent # None
  PROVE  Shape(row', n)
<1>1. \E q \in Requests : InsertCorrection(q, n)
  <2>1. CASE UNCHANGED row
    BY <2>1 DEF Used
  <2>2. CASE \E s \in Entries, c \in Customers, type \in Types, a \in Amounts :
               Create(s, c, type, a)
    BY <2>2 DEF Create, TypeOK, Used
  <2>3. CASE \E q \in Requests, m \in Entries : InsertCorrection(q, m)
    <3> PICK q \in Requests, m \in Entries : InsertCorrection(q, m)
      BY <2>3
    <3>1. PICK s \in Entries : Inserts(q, m, s)
      BY InsertedRow
    <3>2. n = m
      BY <3>1 DEF Inserts, Used
    <3> QED BY <3>2
  <2>4. CASE \E q \in Requests : Delete(q)
    BY <2>4 DEF Delete, TypeOK, Used, Row
  <2> QED BY <2>1, <2>2, <2>3, <2>4, RowWriters
<1> PICK q \in Requests : InsertCorrection(q, n)
  BY <1>1
<1>0. PICK t \in Entries : Inserts(q, n, t)
  BY InsertedRow
<1>2. row[t].parent = None
  BY <1>0 DEF Inserts, ShapeInvariant, InsertCorrection
<1>3. Used(t) /\ Kept(t)
  BY <1>0, RowsKept DEF Inserts
<1>4. /\ row'[n].type = "credit" /\ row'[n].status = "completed"
      /\ row'[n].parent = t /\ row'[n].customer = row[t].customer /\ n # t
  BY <1>0 DEF Inserts
<1> QED BY <1>2, <1>3, <1>4 DEF Kept, Shape, Used

LEMMA NextShape == TypeOK /\ ShapeInvariant /\ [Next]_vars => ShapeInvariant'
<1> SUFFICES ASSUME TypeOK, ShapeInvariant, [Next]_vars PROVE ShapeInvariant'
  OBVIOUS
<1>1. ASSUME NEW n \in Entries, row'[n].status # "unused", row'[n].parent # None
      PROVE  Shape(row', n)
  <2>1. CASE Used(n)
    <3>1. row[n].parent # None
      BY <1>1, <2>1, RowsKept DEF Kept
    <3> QED BY <2>1, <3>1, ShapeKept
  <2>2. CASE ~Used(n)
    BY <1>1, <2>2, ShapeOfNew
  <2> QED BY <2>1, <2>2
<1>2. ASSUME NEW q \in Requests, request'[q].pc \in {"sum", "insert"}
      PROVE  row'[request'[q].target].parent = None
  <2>1. /\ request'[q].target \in Entries /\ Used(request'[q].target)
        /\ row[request'[q].target].parent = None
    <3>1. CASE request'[q] = request[q]
      BY <1>2, <3>1 DEF ShapeInvariant, TypeOK, Request
    <3>2. CASE \E t \in Entries, a \in Amounts : StartCorrection(q, t, a)
      BY <3>2 DEF StartCorrection, Live, TypeOK
    <3>3. CASE SumCorrections(q)
      BY <1>2, <3>3 DEF SumCorrections, ShapeInvariant, TypeOK, Request, Idle
    <3>4. CASE \E t \in Entries : StartRemoval(q, t)
      BY <1>2, <3>4 DEF StartRemoval, TypeOK, Idle
    <3>5. CASE CheckCorrections(q)
      BY <1>2, <3>5 DEF CheckCorrections, TypeOK, Request, Idle
    <3>6. CASE request'[q] = Idle
      BY <1>2, <3>6 DEF Idle
    <3> QED BY <3>1, <3>2, <3>3, <3>4, <3>5, <3>6, RequestSteps
  <2> QED BY <2>1, RowsKept DEF Kept
<1> QED BY <1>1, <1>2 DEF ShapeInvariant, Used

(* Corrections are credits on original entries of the same customer, for   *)
(* any number of requests racing each other.                               *)
THEOREM CorrectionsWellShaped == Spec => []CorrectionShape
<1>1. Init => ShapeInvariant
  BY DEF Init, ShapeInvariant, Used, Unused, Idle
<1>2. ShapeInvariant => CorrectionShape
  BY ShapeDef DEF ShapeInvariant
<1> QED BY <1>1, <1>2, NextShape, TypeCorrect, PTL DEF Spec

-----------------------------------------------------------------------------
(* When requests do not overlap, an entry about to be deleted still has no *)
(* correction, and one about to be corrected is still there.               *)
OrphanInvariant ==
  /\ NoOrphanCorrection
  /\ \A q \in Requests : request[q].pc # "idle" => Live(request[q].target)
  /\ \A q \in Requests :
       request[q].pc = "delete" =>
         \A n \in Entries : Live(n) => row[n].parent # request[q].target

LEMMA NextOrphan ==
  ASSUME TypeOK, OrphanInvariant, [Next]_vars,
         \A q, r \in Requests : q = r
  PROVE  OrphanInvariant'
<1>1. ASSUME NEW t \in Entries, NEW c \in Customers, NEW type \in Types,
             NEW a \in Amounts, Create(t, c, type, a)
      PROVE  OrphanInvariant'
  <2>1. /\ ~Used(t) /\ row'[t].parent = None /\ request' = request
        /\ \A s \in Entries \ {t} : row'[s] = row[s]
        /\ Live(t)'
    BY <1>1 DEF Create, TypeOK, Used, Live
  <2>2. \A s \in Entries : Live(s) => Live(s)'
    BY <2>1 DEF Live, Used
  <2>3. \A s \in Entries : row'[s].parent # None => row'[s] = row[s] /\ row[s].parent \in Entries
    BY <2>1 DEF TypeOK, Row
  <2>4. \A q \in Requests : request[q].pc # "idle" => request[q].target \in Entries
    BY DEF TypeOK, Request
  <2> QED BY <2>1, <2>2, <2>3, <2>4, LedgerAssumption
        DEF OrphanInvariant, NoOrphanCorrection, Live, Used
<1>2. ASSUME NEW q \in Requests, NEW n \in Entries, InsertCorrection(q, n)
      PROVE  OrphanInvariant'
  <2> PICK t \in Entries : Inserts(q, n, t)
    BY <1>2, InsertedRow
  <2>0. Live(t)
    BY <1>2 DEF Inserts, InsertCorrection, OrphanInvariant
  <2>1. /\ Live(t) /\ n # t /\ Live(t)' /\ Live(n)'
        /\ row'[n].parent = t /\ row'[t].parent = row[t].parent
        /\ \A s \in Entries \ {n, t} : row'[s] = row[s]
    BY <2>0 DEF Inserts, Live, Used, TypeOK, Row
  <2>2. \A r \in Requests : request'[r].pc = "idle"
    BY <1>2 DEF InsertCorrection, TypeOK, Idle
  <2>3. ~Used(n)
    BY <1>2 DEF InsertCorrection
  <2>4. \A s \in Entries : Live(s) => Live(s)'
    BY <2>1, <2>3 DEF Live, Used
  <2>5. \A s \in Entries \ {n} : Live(s)' => Live(s) /\ row'[s].parent = row[s].parent
    BY <2>1 DEF Live, Used
  <2>6. \A s \in Entries : row[s].parent # None => row[s].parent \in Entries
    BY DEF TypeOK, Row
  <2> QED BY <2>1, <2>2, <2>4, <2>5, <2>6 DEF OrphanInvariant, NoOrphanCorrection
<1>3. ASSUME NEW q \in Requests, Delete(q)
      PROVE  OrphanInvariant'
  <2> PICK t \in Entries : t = request[q].target
    BY <1>3 DEF Delete, TypeOK, Request
  <2>1. /\ \A n \in Entries : Live(n) => row[n].parent # t
        /\ \A s \in Entries : row'[s].parent = row[s].parent
        /\ \A s \in Entries \ {t} : row'[s] = row[s]
        /\ row'[t].deleted
    BY <1>3 DEF OrphanInvariant, Delete, TypeOK, Row, Request
  <2>2. \A r \in Requests : request'[r].pc = "idle"
    BY <1>3 DEF Delete, TypeOK, Idle
  <2>3. \A s \in Entries : Live(s)' <=> Live(s) /\ s # t
    BY <2>1 DEF Live, Used
  <2>4. \A s \in Entries : row[s].parent # None => row[s].parent \in Entries
    BY DEF TypeOK, Row
  <2> QED BY <2>1, <2>2, <2>3, <2>4 DEF OrphanInvariant, NoOrphanCorrection
<1>4. CASE UNCHANGED row
  <2>1. \A s \in Entries : Live(s)' = Live(s)
    BY <1>4 DEF Live, Used
  <2>2. NoOrphanCorrection'
    BY <1>4, <2>1 DEF OrphanInvariant, NoOrphanCorrection, Live, Used
  <2>3. ASSUME NEW q \in Requests, request'[q].pc # "idle"
        PROVE  /\ Live(request'[q].target)
               /\ request'[q].pc = "delete" =>
                    \A n \in Entries : Live(n) => row[n].parent # request'[q].target
    <3>1. CASE request'[q] = request[q]
      BY <2>3, <3>1 DEF OrphanInvariant
    <3>2. CASE \E t \in Entries, a \in Amounts : StartCorrection(q, t, a)
      BY <3>2 DEF StartCorrection, TypeOK
    <3>3. CASE SumCorrections(q)
      BY <2>3, <3>3 DEF SumCorrections, OrphanInvariant, TypeOK, Request, Idle
    <3>4. CASE \E t \in Entries : StartRemoval(q, t)
      BY <3>4 DEF StartRemoval, TypeOK, Idle
    <3>5. CASE CheckCorrections(q)
      BY <2>3, <3>5
      DEF CheckCorrections, Corrections, OrphanInvariant, TypeOK, Request, Idle
    <3>6. CASE request'[q] = Idle
      BY <2>3, <3>6 DEF Idle
    <3> QED BY <3>1, <3>2, <3>3, <3>4, <3>5, <3>6, RequestSteps
  <2> QED BY <1>4, <2>2, <2>3 DEF OrphanInvariant, Live, Used
<1> QED BY <1>1, <1>2, <1>3, <1>4, RowWriters

(* Used by one request at a time, the service never leaves a correction    *)
(* without its parent. (With two, one can be inserted between a deletion's *)
(* check for corrections and its soft-delete.)                             *)
THEOREM SerialCorrectionsKeepParents ==
  ASSUME \A q, r \in Requests : q = r
  PROVE  Spec => []NoOrphanCorrection
<1>1. Init => OrphanInvariant
  BY DEF Init, OrphanInvariant, NoOrphanCorrection, Live, Used, Unused, Idle
<1>2. TypeOK /\ OrphanInvariant /\ [Next]_vars => OrphanInvariant'
  BY NextOrphan
<1>3. OrphanInvariant => NoOrphanCorrection
  BY DEF OrphanInvariant
<1> QED BY <1>1, <1>2, <1>3, TypeCorrect, PTL DEF Spec

-----------------------------------------------------------------------------
(* The sums of the ledger, as functions of the table, so that the table    *)
(* before and after a step can be compared.                                *)
LiveIn(tab, t) == tab[t].status # "unused" /\ ~tab[t].deleted

TotalIn(tab, S) == SumFunctionOnSet([t \in Entries |-> tab[t].amount], S)

CorrectionsIn(tab, t) == {n \in Entries : LiveIn(tab, n) /\ tab[n].parent = t}

CorrectedIn(tab, t) == TotalIn(tab, CorrectionsIn(tab, t))

KindIn(tab, c, type) ==
  {t \in Entries : LiveIn(tab, t) /\ tab[t].customer = c /\ tab[t].type = type}

NetIn(tab, c) ==
  TotalIn(tab, KindIn(tab, c, "debit")) - TotalIn(tab, KindIn(tab, c, "credit"))

LEMMA TablesNow ==
  /\ \A t \in Entries : Live(t) <=> LiveIn(row, t)
  /\ \A t : Corrections(t) = CorrectionsIn(row, t)
  /\ \A t : CorrectedTotal(t) = CorrectedIn(row, t)
  /\ \A c : Net(c) = NetIn(row, c)
BY DEF Live, Used, Corrections, CorrectedTotal, Net, Total,
       LiveIn, TotalIn, CorrectionsIn, CorrectedIn, KindIn, NetIn

LEMMA TotalNat ==
  ASSUME NEW tab \in [Entries -> Row], NEW S \in SUBSET Entries
  PROVE  TotalIn(tab, S) \in Nat
<1> DEFINE f == [t \in Entries |-> tab[t].amount]
<1>1. \A x \in S : f[x] \in Nat
  BY DEF Row
<1>2. IsFiniteSet(S)
  BY FS_Subset, LedgerAssumption
<1> HIDE DEF f
<1>3. SumFunctionOnSet(f, S) \in Nat
  BY <1>1, <1>2, SumNat
<1> QED BY <1>3 DEF TotalIn, f

LEMMA TotalSame ==
  ASSUME NEW tab, NEW new, NEW S \in SUBSET Entries,
         \A s \in S : new[s].amount = tab[s].amount
  PROVE  TotalIn(new, S) = TotalIn(tab, S)
<1> DEFINE f == [t \in Entries |-> tab[t].amount]
           g == [t \in Entries |-> new[t].amount]
<1>1. \A x \in S : f[x] = g[x]
  OBVIOUS
<1>2. IsFiniteSet(S)
  BY FS_Subset, LedgerAssumption
<1> HIDE DEF f, g
<1>3. SumFunctionOnSet(f, S) = SumFunctionOnSet(g, S)
  BY <1>1, <1>2, SumSame
<1> QED BY <1>3 DEF TotalIn, f, g

LEMMA TotalAdd ==
  ASSUME NEW tab \in [Entries -> Row], NEW S \in SUBSET Entries, NEW n \in Entries \ S
  PROVE  TotalIn(tab, S \cup {n}) = TotalIn(tab, S) + tab[n].amount
<1> DEFINE f == [t \in Entries |-> tab[t].amount]
<1>1. \A x \in S \cup {n} : f[x] \in Int
  BY DEF Row
<1>2. IsFiniteSet(S)
  BY FS_Subset, LedgerAssumption
<1>3. f[n] = tab[n].amount
  OBVIOUS
<1> HIDE DEF f
<1>4. SumFunctionOnSet(f, S \cup {n}) = f[n] + SumFunctionOnSet(f, S)
  BY <1>1, <1>2, SumAdd
<1>5. SumFunctionOnSet(f, S) \in Int
  BY <1>1, <1>2, SumInt
<1>6. f[n] \in Int
  BY <1>1
<1>7. SumFunctionOnSet(f, S \cup {n}) = SumFunctionOnSet(f, S) + f[n]
  BY <1>4, <1>5, <1>6
<1> QED BY <1>3, <1>7 DEF TotalIn, f

(* The entry n is live in new and not in tab; the rest is equally live and *)
(* says the same about money.                                              *)
Joins(tab, new, n) ==
  /\ n \in Entries /\ ~LiveIn(tab, n) /\ LiveIn(new, n)
  /\ \A s \in Entries \ {n} :
       /\ LiveIn(new, s) <=> LiveIn(tab, s)
       /\ new[s].customer = tab[s].customer /\ new[s].type = tab[s].type
       /\ new[s].amount = tab[s].amount /\ new[s].parent = tab[s].parent

LEMMA JoinedTotal ==
  ASSUME NEW tab \in [Entries -> Row], NEW new \in [Entries -> Row],
         NEW n \in Entries, Joins(tab, new, n), NEW S \in SUBSET (Entries \ {n})
  PROVE  /\ TotalIn(new, S) = TotalIn(tab, S)
         /\ TotalIn(new, S \cup {n}) = TotalIn(tab, S) + new[n].amount
<1>1. TotalIn(new, S) = TotalIn(tab, S)
  <2>1. \A s \in S : new[s].amount = tab[s].amount
    BY DEF Joins
  <2> QED BY <2>1, TotalSame
<1>2. n \in Entries \ S
  BY DEF Joins
<1>3. TotalIn(new, S \cup {n}) = TotalIn(new, S) + new[n].amount
  BY <1>2, TotalAdd
<1> QED BY <1>1, <1>3

(* It counts towards what corrects its parent, and nowhere else.           *)
LEMMA JoinedCorrected ==
  ASSUME NEW tab \in [Entries -> Row], NEW new \in [Entries -> Row],
         NEW n \in Entries, Joins(tab, new, n), NEW t
  PROVE  CorrectedIn(new, t) =
           CorrectedIn(tab, t) + (IF new[n].parent = t THEN new[n].amount ELSE 0)
<1> DEFINE S == CorrectionsIn(tab, t)
<1>1. S \in SUBSET (Entries \ {n})
  BY DEF CorrectionsIn, Joins
<1>2. CorrectionsIn(new, t) = IF new[n].parent = t THEN S \cup {n} ELSE S
  BY DEF CorrectionsIn, Joins
<1> HIDE DEF S
<1>3. TotalIn(tab, S) \in Nat
  BY <1>1, TotalNat
<1>4. /\ TotalIn(new, S) = TotalIn(tab, S)
      /\ TotalIn(new, S \cup {n}) = TotalIn(tab, S) + new[n].amount
  BY <1>1, JoinedTotal
<1>5. CASE new[n].parent = t
  BY <1>2, <1>4, <1>5 DEF CorrectedIn, S
<1>6. CASE new[n].parent # t
  BY <1>2, <1>3, <1>4, <1>6 DEF CorrectedIn, S
<1> QED BY <1>5, <1>6

LEMMA JoinedKind ==
  ASSUME NEW tab \in [Entries -> Row], NEW new \in [Entries -> Row],
         NEW n \in Entries, Joins(tab, new, n), NEW c, NEW type
  PROVE  TotalIn(new, KindIn(new, c, type)) =
           TotalIn(tab, KindIn(tab, c, type))
           + (IF new[n].customer = c /\ new[n].type = type THEN new[n].amount ELSE 0)
<1> DEFINE S == KindIn(tab, c, type)
           same == new[n].customer = c /\ new[n].type = type
<1>1. S \in SUBSET (Entries \ {n})
  BY DEF KindIn, Joins
<1>2. KindIn(new, c, type) = IF same THEN S \cup {n} ELSE S
  BY DEF KindIn, Joins
<1> HIDE DEF S
<1>3. TotalIn(tab, S) \in Nat
  BY <1>1, TotalNat
<1>4. /\ TotalIn(new, S) = TotalIn(tab, S)
      /\ TotalIn(new, S \cup {n}) = TotalIn(tab, S) + new[n].amount
  BY <1>1, JoinedTotal
<1>5. CASE same
  BY <1>2, <1>4, <1>5 DEF S
<1>6. CASE ~same
  BY <1>2, <1>3, <1>4, <1>6 DEF S
<1> QED BY <1>5, <1>6

(* And towards the net of its customer, with its sign.                     *)
LEMMA JoinedNet ==
  ASSUME NEW tab \in [Entries -> Row], NEW new \in [Entries -> Row],
         NEW n \in Entries, Joins(tab, new, n), NEW c
  PROVE  /\ NetIn(tab, c) \in Int
         /\ NetIn(new, c) =
              NetIn(tab, c)
              + (IF new[n].customer = c THEN Effect(new[n].type, new[n].amount) ELSE 0)
<1> DEFINE d == TotalIn(tab, KindIn(tab, c, "debit"))
           k == TotalIn(tab, KindIn(tab, c, "credit"))
<1>1. d \in Nat /\ k \in Nat
  <2>1. KindIn(tab, c, "debit") \in SUBSET Entries /\ KindIn(tab, c, "credit") \in SUBSET Entries
    BY DEF KindIn
  <2> QED BY <2>1, TotalNat
<1>2. new[n].amount \in Nat /\ new[n].type \in {"debit", "credit"}
  BY DEF Joins, Row
<1>3. /\ TotalIn(new, KindIn(new, c, "debit")) =
           d + (IF new[n].customer = c /\ new[n].type = "debit" THEN new[n].amount ELSE 0)
      /\ TotalIn(new, KindIn(new, c, "credit")) =
           k + (IF new[n].customer = c /\ new[n].type = "credit" THEN new[n].amount ELSE 0)
  BY JoinedKind
<1>4. NetIn(tab, c) = d - k
  BY DEF NetIn
<1> HIDE DEF d, k
<1> QED BY <1>1, <1>2, <1>3, <1>4 DEF NetIn, Effect

LEMMA NoCorrections ==
  ASSUME NEW tab, NEW t, \A n \in Entries : LiveIn(tab, n) => tab[n].parent # t
  PROVE  CorrectedIn(tab, t) = 0
<1>1. CorrectionsIn(tab, t) = {}
  BY DEF CorrectionsIn
<1> QED BY <1>1, SumEmpty DEF CorrectedIn, TotalIn

-----------------------------------------------------------------------------
(* The three commits as changes of the table: an entry joins the live ones *)
(* or leaves them.                                                         *)
LEMMA Commits ==
  ASSUME [Next]_vars
  PROVE  \/ UNCHANGED <<row, balance>>
         \/ \E t \in Entries, c \in Customers, type \in Types, a \in Amounts :
              Create(t, c, type, a)
         \/ \E q \in Requests, n \in Entries : InsertCorrection(q, n)
         \/ \E q \in Requests : Delete(q)
BY DEF Next, Enter, Correct, Remove, StartCorrection, SumCorrections, StartRemoval,
       CheckCorrections, RequestFails, vars

LEMMA CreateJoins ==
  ASSUME TypeOK, NEW t \in Entries, NEW c \in Customers, NEW type \in Types,
         NEW a \in Amounts, Create(t, c, type, a)
  PROVE  /\ Joins(row, row', t) /\ ~Used(t)
         /\ row'[t].customer = c /\ row'[t].type = type /\ row'[t].amount = a
         /\ row'[t].parent = None /\ row'[t].status = "completed"
         /\ \A s \in Entries \ {t} : row'[s] = row[s]
<1>1. ~Used(t)
  BY DEF Create
<1>2. /\ row'[t] = [status |-> "completed", customer |-> c, type |-> type,
                    amount |-> a, parent |-> None, deleted |-> FALSE]
      /\ \A s \in Entries \ {t} : row'[s] = row[s]
  BY DEF Create, TypeOK
<1> QED BY <1>1, <1>2 DEF Joins, LiveIn, Used

LEMMA InsertJoins ==
  ASSUME TypeOK, NEW q \in Requests, NEW n \in Entries, NEW t \in Entries,
         Inserts(q, n, t)
  PROVE  /\ Joins(row, row', n) /\ n # t /\ ~Used(n)
         /\ row'[n].parent = t /\ row'[n].customer = row[t].customer
         /\ row'[n].type = "credit" /\ row'[n].amount = request[q].amount
<1>1. row[t] \in Row /\ row[t].status # "unused"
  BY DEF Inserts, TypeOK, Used
<1>2. /\ LiveIn(row', t) <=> LiveIn(row, t)
      /\ row'[t].customer = row[t].customer /\ row'[t].type = row[t].type
      /\ row'[t].amount = row[t].amount /\ row'[t].parent = row[t].parent
  BY <1>1 DEF Inserts, LiveIn, Row
<1>3. ~LiveIn(row, n) /\ LiveIn(row', n)
  BY DEF Inserts, LiveIn, Used
<1>4. \A s \in Entries \ {n} : s # t => row'[s] = row[s]
  BY DEF Inserts
<1> QED BY <1>2, <1>3, <1>4 DEF Joins, Inserts, LiveIn

LEMMA DeleteLeaves ==
  ASSUME TypeOK, NEW q \in Requests, NEW t \in Entries, Delete(q),
         t = request[q].target, Live(t)
  PROVE  /\ Joins(row', row, t)
         /\ row'[t].parent = row[t].parent /\ row'[t].status = row[t].status
         /\ row'[t].amount = row[t].amount /\ row'[t].deleted
         /\ \A s \in Entries \ {t} : row'[s] = row[s]
<1>1. row' = [row EXCEPT ![t].deleted = TRUE]
  BY DEF Delete
<1>2. row[t] \in Row
  BY DEF TypeOK
<1>3. /\ row'[t] = [row[t] EXCEPT !.deleted = TRUE]
      /\ \A s \in Entries \ {t} : row'[s] = row[s]
  BY <1>1 DEF TypeOK
<1>4. /\ row'[t].parent = row[t].parent /\ row'[t].status = row[t].status
      /\ row'[t].amount = row[t].amount /\ row'[t].deleted
  BY <1>2, <1>3 DEF Row
<1> QED BY <1>3, <1>4 DEF Joins, LiveIn, Live, Used

-----------------------------------------------------------------------------
(* Requests that do not overlap: what was summed for a correction is still *)
(* the sum when it is inserted.                                            *)
Positive ==
  /\ \A t \in Entries : Used(t) => row[t].amount > 0
  /\ \A q \in Requests : request[q].pc \in {"sum", "insert"} => request[q].amount > 0

Remaining(tab, t) == tab[t].amount - CorrectedIn(tab, t)

Settled ==
  \A q \in Requests : request[q].pc = "insert" =>
    /\ request[q].amount <= Remaining(row, request[q].target)
    /\ request[q].fully <=> request[q].amount = Remaining(row, request[q].target)

SerialInvariant ==
  /\ ShapeInvariant /\ OrphanInvariant
  /\ Positive /\ Settled
  /\ CorrectionsWithinParent /\ FullyCorrectedIsReversed

LEMMA NextPositive ==
  ASSUME TypeOK, Positive, [Next]_vars
  PROVE  Positive'
<1>1. ASSUME NEW t \in Entries, row'[t].status # "unused" PROVE row'[t].amount > 0
  <2>1. CASE Used(t)
    BY <2>1, RowsKept DEF Kept, Positive
  <2>2. CASE ~Used(t)
    <3>1. CASE UNCHANGED <<row, balance>>
      BY <1>1, <2>2, <3>1 DEF Used
    <3>2. ASSUME NEW s \in Entries, NEW c \in Customers, NEW type \in Types,
                 NEW a \in Amounts, Create(s, c, type, a)
          PROVE  row'[t].amount > 0
      <4>1. a \in Nat /\ a > 0
        BY LedgerAssumption
      <4>2. row'[s].amount = a /\ \A r \in Entries \ {s} : row'[r] = row[r]
        BY <3>2, CreateJoins
      <4> QED BY <1>1, <2>2, <4>1, <4>2 DEF Used
    <3>3. ASSUME NEW q \in Requests, NEW n \in Entries, InsertCorrection(q, n)
          PROVE  row'[t].amount > 0
      <4>1. PICK s \in Entries : Inserts(q, n, s)
        BY <3>3, InsertedRow
      <4>2. t = n
        BY <1>1, <2>2, <4>1 DEF Inserts, Used
      <4>3. request[q].amount > 0
        BY <3>3 DEF InsertCorrection, Positive
      <4> QED BY <4>1, <4>2, <4>3 DEF Inserts
    <3>4. CASE \E q \in Requests : Delete(q)
      BY <1>1, <2>2, <3>4 DEF Delete, TypeOK, Used, Row
    <3> QED BY <3>1, <3>2, <3>3, <3>4, Commits
  <2> QED BY <2>1, <2>2
<1>2. ASSUME NEW q \in Requests, request'[q].pc \in {"sum", "insert"}
      PROVE  request'[q].amount > 0
  <2>1. CASE request'[q] = request[q]
    BY <1>2, <2>1 DEF Positive
  <2>2. CASE \E t \in Entries, a \in Amounts : StartCorrection(q, t, a)
    BY <2>2, LedgerAssumption DEF StartCorrection, TypeOK
  <2>3. CASE SumCorrections(q)
    BY <1>2, <2>3 DEF SumCorrections, Positive, TypeOK, Request, Idle
  <2>4. CASE \E t \in Entries : StartRemoval(q, t)
    BY <1>2, <2>4 DEF StartRemoval, TypeOK, Idle
  <2>5. CASE CheckCorrections(q)
    BY <1>2, <2>5 DEF CheckCorrections, TypeOK, Request, Idle
  <2>6. CASE request'[q] = Idle
    BY <1>2, <2>6 DEF Idle
  <2> QED BY <2>1, <2>2, <2>3, <2>4, <2>5, <2>6, RequestSteps
<1> QED BY <1>1, <1>2 DEF Positive, Used

(* A row that is not there has no correction.                              *)
LEMMA UnusedUncorrected ==
  ASSUME TypeOK, ShapeInvariant, NEW t \in Entries, ~Used(t)
  PROVE  CorrectedIn(row, t) = 0
<1>1. \A n \in Entries : LiveIn(row, n) => row[n].parent # t
  BY LedgerAssumption DEF ShapeInvariant, Shape, LiveIn, Used
<1> QED BY <1>1, NoCorrections

LEMMA CorrectedNat ==
  ASSUME NEW tab \in [Entries -> Row], NEW t
  PROVE  CorrectedIn(tab, t) \in Nat
<1>1. CorrectionsIn(tab, t) \in SUBSET Entries
  BY DEF CorrectionsIn
<1> QED BY <1>1, TotalNat DEF CorrectedIn

(* One request: when it is about to insert, the last step was its own or   *)
(* somebody keyed in a new entry.                                          *)
LEMMA NextSettled ==
  ASSUME TypeOK, TypeOK', SerialInvariant, [Next]_vars, \A q, r \in Requests : q = r
  PROVE  Settled'
<1> SUFFICES ASSUME NEW q \in Requests, request'[q].pc = "insert"
             PROVE  /\ request'[q].amount <= Remaining(row', request'[q].target)
                    /\ request'[q].fully <=>
                         request'[q].amount = Remaining(row', request'[q].target)
  BY DEF Settled
<1>0. row \in [Entries -> Row] /\ row' \in [Entries -> Row]
  BY DEF TypeOK
<1>1. CASE UNCHANGED <<row, balance>>
  <2>1. CASE request'[q] = request[q]
    BY <1>1, <2>1 DEF SerialInvariant, Settled
  <2>2. CASE \E t \in Entries, a \in Amounts : StartCorrection(q, t, a)
    BY <2>2 DEF StartCorrection, TypeOK
  <2>3. CASE SumCorrections(q)
    <3>1. PICK t \in Entries : t = request[q].target
      BY <2>3 DEF SumCorrections, TypeOK, Request
    <3> DEFINE a == request[q].amount
               left == row[t].amount - CorrectedTotal(t)
    <3>2. left = Remaining(row, t)
      BY TablesNow DEF Remaining
    <3>3. a \in Int /\ left \in Int
      BY <1>0, <3>2, CorrectedNat DEF Remaining, TypeOK, Request, Row
    <3>4. request' = [request EXCEPT ![q] =
            IF a > left THEN Idle
            ELSE [request[q] EXCEPT !.pc = "insert", !.fully = (a = left)]]
      BY <2>3, <3>1 DEF SumCorrections
    <3> DEFINE r == [request[q] EXCEPT !.pc = "insert", !.fully = (a = left)]
    <3>5. r.target = t /\ r.amount = a /\ (r.fully <=> a = left)
      <4> DEFINE old == request[q]
      <4>1. old \in Request /\ old.target = t /\ old.amount = a
        BY <3>1 DEF TypeOK
      <4> HIDE DEF old, a, left
      <4>2. \A b \in BOOLEAN : LET new == [old EXCEPT !.pc = "insert", !.fully = b]
                               IN  new.target = t /\ new.amount = a /\ new.fully = b
        BY <4>1 DEF Request
      <4> USE DEF r
      <4>3. r = [old EXCEPT !.pc = "insert", !.fully = (a = left)]
        BY DEF old
      <4>4. (a = left) \in BOOLEAN
        OBVIOUS
      <4> HIDE DEF r
      <4> QED BY <4>2, <4>3, <4>4
    <3> HIDE DEF a, left, r
    <3>6. request'[q] = IF a > left THEN Idle ELSE r
      BY <3>4 DEF TypeOK, r
    <3>7. ~(a > left) /\ request'[q] = r
      BY <3>6 DEF Idle
    <3> QED BY <1>1, <3>2, <3>3, <3>5, <3>7
  <2>4. CASE \E t \in Entries : StartRemoval(q, t)
    BY <2>4 DEF StartRemoval, TypeOK, Idle
  <2>5. CASE CheckCorrections(q)
    BY <2>5 DEF CheckCorrections, TypeOK, Request, Idle
  <2>6. CASE request'[q] = Idle
    BY <2>6 DEF Idle
  <2> QED BY <2>1, <2>2, <2>3, <2>4, <2>5, <2>6, RequestSteps
<1>2. ASSUME NEW t \in Entries, NEW c \in Customers, NEW type \in Types,
             NEW a \in Amounts, Create(t, c, type, a)
      PROVE  /\ request'[q].amount <= Remaining(row', request'[q].target)
             /\ request'[q].fully <=>
                  request'[q].amount = Remaining(row', request'[q].target)
  <2>1. request' = request
    BY <1>2 DEF Create
  <2>2. PICK s \in Entries : s = request[q].target /\ Used(s)
    BY <2>1 DEF TypeOK, Request
  <2>3. /\ Joins(row, row', t) /\ row'[t].parent = None /\ ~Used(t)
        /\ \A x \in Entries \ {t} : row'[x] = row[x]
    BY <1>2, CreateJoins
  <2>4. row'[s] = row[s] /\ s # None
    BY <2>2, <2>3, LedgerAssumption
  <2>5. CorrectedIn(row', s) = CorrectedIn(row, s)
    <3>1. CorrectedIn(row', s) =
            CorrectedIn(row, s) + (IF row'[t].parent = s THEN row'[t].amount ELSE 0)
      BY <1>0, <2>3, JoinedCorrected
    <3> QED BY <1>0, <2>3, <2>4, <3>1, CorrectedNat
  <2>6. Remaining(row', s) = Remaining(row, s)
    BY <2>4, <2>5 DEF Remaining
  <2> QED BY <2>1, <2>2, <2>6 DEF SerialInvariant, Settled
<1>3. ASSUME NEW r \in Requests, NEW n \in Entries, InsertCorrection(r, n) PROVE FALSE
  BY <1>3 DEF InsertCorrection, TypeOK, Idle
<1>4. ASSUME NEW r \in Requests, Delete(r) PROVE FALSE
  BY <1>4 DEF Delete, TypeOK, Idle
<1> QED BY <1>1, <1>2, <1>3, <1>4, Commits

(* What corrects each entry after a commit, and what is left of it.        *)
LEMMA AfterCreate ==
  ASSUME TypeOK, TypeOK', ShapeInvariant, NEW t \in Entries, NEW c \in Customers,
         NEW type \in Types, NEW a \in Amounts, Create(t, c, type, a)
  PROVE  /\ \A x \in Entries : CorrectedIn(row', x) = CorrectedIn(row, x)
         /\ CorrectedIn(row', t) = 0
<1>1. ASSUME NEW x \in Entries PROVE CorrectedIn(row', x) = CorrectedIn(row, x)
  <2>0. row \in [Entries -> Row] /\ row' \in [Entries -> Row]
    BY DEF TypeOK
  <2>1. Joins(row, row', t) /\ row'[t].parent = None
    BY CreateJoins
  <2>2. x # None
    BY LedgerAssumption
  <2>3. CorrectedIn(row', x) =
          CorrectedIn(row, x) + (IF row'[t].parent = x THEN row'[t].amount ELSE 0)
    BY <2>0, <2>1, JoinedCorrected
  <2> QED BY <2>0, <2>1, <2>2, <2>3, CorrectedNat
<1>2. CorrectedIn(row, t) = 0
  BY UnusedUncorrected DEF Create
<1> QED BY <1>1, <1>2

LEMMA AfterInsert ==
  ASSUME TypeOK, TypeOK', ShapeInvariant, NEW q \in Requests, NEW n \in Entries,
         NEW t \in Entries, Inserts(q, n, t)
  PROVE  /\ \A x \in Entries \ {t} : CorrectedIn(row', x) = CorrectedIn(row, x)
         /\ CorrectedIn(row', t) = CorrectedIn(row, t) + request[q].amount
         /\ CorrectedIn(row, n) = 0
<1>0. row \in [Entries -> Row] /\ row' \in [Entries -> Row]
  BY DEF TypeOK
<1>1. Joins(row, row', n) /\ row'[n].parent = t /\ row'[n].amount = request[q].amount
      /\ ~Used(n)
  BY InsertJoins
<1>2. \A x : CorrectedIn(row', x) =
        CorrectedIn(row, x) + (IF row'[n].parent = x THEN row'[n].amount ELSE 0)
  BY <1>0, <1>1, JoinedCorrected
<1>3. \A x : CorrectedIn(row, x) \in Nat
  BY <1>0, CorrectedNat
<1>4. CorrectedIn(row, n) = 0
  BY <1>1, UnusedUncorrected
<1> QED BY <1>1, <1>2, <1>3, <1>4

LEMMA AfterDelete ==
  ASSUME TypeOK, TypeOK', NEW q \in Requests, NEW t \in Entries, Delete(q),
         t = request[q].target, Live(t), NEW x \in Entries
  PROVE  CorrectedIn(row, x) =
           CorrectedIn(row', x) + (IF row[t].parent = x THEN row[t].amount ELSE 0)
<1>0. row \in [Entries -> Row] /\ row' \in [Entries -> Row]
  BY DEF TypeOK
<1>1. Joins(row', row, t)
  BY DeleteLeaves
<1> QED BY <1>0, <1>1, JoinedCorrected

LEMMA WithinDef ==
  CorrectionsWithinParent <=>
    \A t \in Entries : Used(t) => CorrectedIn(row, t) <= row[t].amount
BY TablesNow DEF CorrectionsWithinParent

LEMMA FullyDef ==
  FullyCorrectedIsReversed <=>
    \A t \in Entries :
      (LiveIn(row, t) /\ row[t].parent = None /\ CorrectedIn(row, t) = row[t].amount) =>
        row[t].status = "reversed"
BY TablesNow DEF FullyCorrectedIsReversed

(* The amount of an entry and what corrects it are numbers.                *)
LEMMA Numbers ==
  ASSUME TypeOK, NEW t \in Entries
  PROVE  row[t].amount \in Nat /\ CorrectedIn(row, t) \in Nat
<1>1. row \in [Entries -> Row]
  BY DEF TypeOK
<1> QED BY <1>1, CorrectedNat DEF Row

(* An insertion that uses up what is left marks the parent.                *)
LEMMA FullInsertMarks ==
  ASSUME TypeOK, NEW q \in Requests, NEW n \in Entries, NEW t \in Entries,
         InsertCorrection(q, n), Inserts(q, n, t), request[q].fully
  PROVE  row'[t].status = "reversed"
<1> DEFINE correction == [status |-> "completed", customer |-> row[t].customer,
                          type |-> "credit", amount |-> request[q].amount, parent |-> t,
                          deleted |-> FALSE]
<1>1. row' = [row EXCEPT ![n] = correction, ![t].status = "reversed"]
  BY DEF InsertCorrection, Inserts
<1>2. n # t /\ row[t] \in Row
  BY DEF Inserts, TypeOK
<1> HIDE DEF correction
<1>3. row'[t] = [row[t] EXCEPT !.status = "reversed"]
  BY <1>1, <1>2 DEF TypeOK
<1> QED BY <1>2, <1>3 DEF Row

LEMMA NextWithin ==
  ASSUME TypeOK, TypeOK', SerialInvariant, [Next]_vars
  PROVE  CorrectionsWithinParent'
<1>0. \A t \in Entries : Used(t) => CorrectedIn(row, t) <= row[t].amount
  BY WithinDef DEF SerialInvariant
<1>1. \A t \in Entries : row[t].amount \in Nat /\ CorrectedIn(row, t) \in Nat
  BY Numbers
<1>2. row' \in [Entries -> Row]
  BY DEF TypeOK
<1>3. \A t \in Entries : row'[t].amount \in Nat /\ CorrectedIn(row', t) \in Nat
  BY <1>2, CorrectedNat DEF Row
<1>4. SUFFICES ASSUME NEW x \in Entries, row'[x].status # "unused"
               PROVE  CorrectedIn(row', x) <= row'[x].amount
  BY DEF CorrectionsWithinParent, CorrectedTotal, Total, Corrections, Live, Used,
         CorrectedIn, TotalIn, CorrectionsIn, LiveIn
<1>5. Used(x) => row'[x].amount = row[x].amount
  BY RowsKept DEF Kept
<1>6. CASE UNCHANGED <<row, balance>>
  BY <1>0, <1>4, <1>6 DEF Used
<1>7. ASSUME NEW t \in Entries, NEW c \in Customers, NEW type \in Types,
             NEW a \in Amounts, Create(t, c, type, a)
      PROVE  CorrectedIn(row', x) <= row'[x].amount
  <2>1. CorrectedIn(row', x) = CorrectedIn(row, x) /\ CorrectedIn(row', t) = 0
    BY <1>7, AfterCreate DEF SerialInvariant
  <2>2. x = t \/ Used(x)
    BY <1>4, <1>7, CreateJoins DEF Used
  <2> QED BY <1>0, <1>3, <1>5, <2>1, <2>2
<1>8. ASSUME NEW q \in Requests, NEW n \in Entries, InsertCorrection(q, n)
      PROVE  CorrectedIn(row', x) <= row'[x].amount
  <2>1. PICK t \in Entries : Inserts(q, n, t)
    BY <1>8, InsertedRow
  <2>2. /\ \A y \in Entries \ {t} : CorrectedIn(row', y) = CorrectedIn(row, y)
        /\ CorrectedIn(row', t) = CorrectedIn(row, t) + request[q].amount
        /\ CorrectedIn(row, n) = 0
    BY <2>1, AfterInsert DEF SerialInvariant
  <2>3. request[q].amount <= row[t].amount - CorrectedIn(row, t)
    BY <1>8, <2>1 DEF Inserts, InsertCorrection, SerialInvariant, Settled, Remaining
  <2>4. request[q].amount \in Nat
    BY DEF TypeOK, Request
  <2>5. Used(t) /\ n # t
    BY <2>1 DEF Inserts
  <2>6. CASE x = t
    BY <1>1, <1>5, <2>2, <2>3, <2>4, <2>5, <2>6
  <2>7. CASE x = n
    BY <1>3, <2>2, <2>5, <2>7
  <2>8. CASE x # t /\ x # n
    <3>1. Used(x)
      BY <1>4, <2>1, <2>8 DEF Inserts, Used
    <3> QED BY <1>0, <1>5, <2>2, <2>8, <3>1
  <2> QED BY <2>6, <2>7, <2>8
<1>9. ASSUME NEW q \in Requests, Delete(q)
      PROVE  CorrectedIn(row', x) <= row'[x].amount
  <2>1. PICK t \in Entries : t = request[q].target /\ Live(t)
    BY <1>9 DEF Delete, SerialInvariant, OrphanInvariant, TypeOK, Request
  <2>2. CorrectedIn(row, x) =
          CorrectedIn(row', x) + (IF row[t].parent = x THEN row[t].amount ELSE 0)
    BY <1>9, <2>1, AfterDelete
  <2>3. CorrectedIn(row', x) <= CorrectedIn(row, x)
    BY <1>1, <1>3, <2>2
  <2>4. Used(x)
    BY <1>4, <1>9, <2>1, DeleteLeaves DEF Used
  <2> QED BY <1>0, <1>1, <1>3, <1>5, <2>3, <2>4
<1> QED BY <1>6, <1>7, <1>8, <1>9, Commits

LEMMA NextFully ==
  ASSUME TypeOK, TypeOK', SerialInvariant, [Next]_vars
  PROVE  FullyCorrectedIsReversed'
<1>0. \A t \in Entries :
        (LiveIn(row, t) /\ row[t].parent = None /\ CorrectedIn(row, t) = row[t].amount) =>
          row[t].status = "reversed"
  BY FullyDef DEF SerialInvariant
<1>1. \A t \in Entries : row[t].amount \in Nat /\ CorrectedIn(row, t) \in Nat
  BY Numbers
<1>2. row' \in [Entries -> Row]
  BY DEF TypeOK
<1>3. \A t \in Entries : row'[t].amount \in Nat /\ CorrectedIn(row', t) \in Nat
  BY <1>2, CorrectedNat DEF Row
<1>4. SUFFICES ASSUME NEW x \in Entries, LiveIn(row', x), row'[x].parent = None,
                      CorrectedIn(row', x) = row'[x].amount
               PROVE  row'[x].status = "reversed"
  BY DEF FullyCorrectedIsReversed, CorrectedTotal, Total, Corrections,
         Live, Used, CorrectedIn, TotalIn, CorrectionsIn, LiveIn
<1>5. Used(x) => Kept(x)
  BY RowsKept
<1>6. CASE UNCHANGED <<row, balance>>
  BY <1>0, <1>4, <1>6
<1>7. ASSUME NEW t \in Entries, NEW c \in Customers, NEW type \in Types,
             NEW a \in Amounts, Create(t, c, type, a)
      PROVE  row'[x].status = "reversed"
  <2>1. CorrectedIn(row', x) = CorrectedIn(row, x) /\ CorrectedIn(row', t) = 0
    BY <1>7, AfterCreate DEF SerialInvariant
  <2>2. row'[t].amount > 0
    BY <1>7, CreateJoins, LedgerAssumption
  <2>3. x # t
    <3>1. CorrectedIn(row', t) # row'[t].amount
      BY <2>1, <2>2
    <3> QED BY <1>4, <3>1
  <2>4. row'[x] = row[x]
    BY <1>7, <2>3, CreateJoins
  <2> QED BY <1>0, <1>4, <2>1, <2>4 DEF LiveIn
<1>8. ASSUME NEW q \in Requests, NEW n \in Entries, InsertCorrection(q, n)
      PROVE  row'[x].status = "reversed"
  <2>1. PICK t \in Entries : Inserts(q, n, t)
    BY <1>8, InsertedRow
  <2>2. /\ \A y \in Entries \ {t} : CorrectedIn(row', y) = CorrectedIn(row, y)
        /\ CorrectedIn(row', t) = CorrectedIn(row, t) + request[q].amount
    BY <2>1, AfterInsert DEF SerialInvariant
  <2>3. request[q].fully <=> request[q].amount = row[t].amount - CorrectedIn(row, t)
    BY <1>8, <2>1 DEF Inserts, InsertCorrection, SerialInvariant, Settled, Remaining
  <2>4. request[q].amount \in Nat
    BY DEF TypeOK, Request
  <2>5. Used(t) /\ row'[n].parent = t
    BY <2>1 DEF Inserts
  <2>6. CASE x = t
    <3>1. CorrectedIn(row, t) + request[q].amount = row[t].amount
      BY <1>4, <1>5, <2>2, <2>5, <2>6 DEF Kept
    <3>2. request[q].fully
      BY <1>1, <2>3, <2>4, <3>1
    <3> QED BY <1>8, <2>1, <2>6, <3>2, FullInsertMarks
  <2>7. CASE x # t
    <3>1. x # n
      BY <1>4, <2>5, LedgerAssumption
    <3>2. row'[x] = row[x]
      BY <2>1, <2>7, <3>1 DEF Inserts
    <3> QED BY <1>0, <1>4, <2>2, <2>7, <3>2 DEF LiveIn
  <2> QED BY <2>6, <2>7
<1>9. ASSUME NEW q \in Requests, Delete(q)
      PROVE  row'[x].status = "reversed"
  <2>1. PICK t \in Entries : t = request[q].target /\ Live(t)
    BY <1>9 DEF Delete, SerialInvariant, OrphanInvariant, TypeOK, Request
  <2>2. CorrectedIn(row, x) =
          CorrectedIn(row', x) + (IF row[t].parent = x THEN row[t].amount ELSE 0)
    BY <1>9, <2>1, AfterDelete
  <2>3. x # t /\ row'[x] = row[x]
    BY <1>4, <1>9, <2>1, DeleteLeaves DEF LiveIn
  <2>4. row[t].amount > 0 /\ Used(x)
    BY <1>4, <2>1, <2>3 DEF Live, SerialInvariant, Positive, LiveIn, Used
  <2>5. CorrectedIn(row, x) <= row[x].amount
    BY <2>4, WithinDef DEF SerialInvariant
  <2>6. CorrectedIn(row, x) = CorrectedIn(row', x)
    BY <1>1, <1>3, <1>4, <2>2, <2>3, <2>4, <2>5
  <2> QED BY <1>0, <1>4, <2>3, <2>6 DEF LiveIn
<1> QED BY <1>6, <1>7, <1>8, <1>9, Commits

LEMMA NextSerial ==
  ASSUME \A q, r \in Requests : q = r
  PROVE  TypeOK /\ TypeOK' /\ SerialInvariant /\ [Next]_vars => SerialInvariant'
BY NextShape, NextOrphan, NextPositive, NextSettled, NextWithin, NextFully
DEF SerialInvariant

LEMMA InitSerial == Init => SerialInvariant
<1> SUFFICES ASSUME Init PROVE SerialInvariant
  OBVIOUS
<1>1. \A t \in Entries : ~Used(t) /\ ~Live(t)
  BY DEF Init, Unused, Used, Live
<1>2. \A q \in Requests : request[q].pc = "idle"
  BY DEF Init, Idle
<1> QED BY <1>1, <1>2 DEF SerialInvariant, ShapeInvariant, OrphanInvariant, NoOrphanCorrection,
          Positive, Settled, CorrectionsWithinParent, FullyCorrectedIsReversed

LEMMA SerialHolds ==
  ASSUME \A q, r \in Requests : q = r
  PROVE  Spec => [](TypeOK /\ SerialInvariant)
<1>1. TypeOK /\ SerialInvariant /\ [Next]_vars => (TypeOK /\ SerialInvariant)'
  BY NextTypeOK, NextSerial
<1> QED BY <1>1, InitTypeOK, InitSerial, PTL DEF Spec

(* Used by one request at a time, the service never takes back more of an  *)
(* entry than it was made for.                                             *)
THEOREM SerialCorrectionsStayWithin ==
  ASSUME \A q, r \in Requests : q = r
  PROVE  Spec => []CorrectionsWithinParent
<1>1. SerialInvariant => CorrectionsWithinParent
  BY DEF SerialInvariant
<1> QED BY <1>1, SerialHolds, PTL

(* And an entry taken back in full is marked so, for as long as it is.     *)
THEOREM SerialFullMeansReversed ==
  ASSUME \A q, r \in Requests : q = r
  PROVE  Spec => []FullyCorrectedIsReversed
<1>1. SerialInvariant => FullyCorrectedIsReversed
  BY DEF SerialInvariant
<1> QED BY <1>1, SerialHolds, PTL

-----------------------------------------------------------------------------
(* Only deposits of this customer were ever corrected.                     *)
OnlyDeposits(tab, c) ==
  \A n \in Entries :
    (tab[n].status # "unused" /\ tab[n].parent # None /\ tab[n].customer = c) =>
      tab[tab[n].parent].type = "debit"

Balanced(tab, bal) == \A c \in Customers : OnlyDeposits(tab, c) => bal[c] = NetIn(tab, c)

LEMMA BalancedDef ==
  /\ BalanceAgreesForDeposits <=> Balanced(row, balance)
  /\ BalanceAgreesForDeposits' <=> Balanced(row', balance')
BY DEF BalanceAgreesForDeposits, Balanced, OnlyDeposits, Net, NetIn, Total, TotalIn,
       KindIn, LiveIn, Live, Used

LEMMA OnlyDepositsBefore ==
  ASSUME TypeOK, ShapeInvariant, [Next]_vars, NEW c, OnlyDeposits(row', c)
  PROVE  OnlyDeposits(row, c)
<1> SUFFICES ASSUME NEW n \in Entries, Used(n), row[n].parent # None, row[n].customer = c
             PROVE  row[row[n].parent].type = "debit"
  BY DEF OnlyDeposits, Used
<1> PICK t \in Entries : t = row[n].parent
  BY DEF TypeOK, Row
<1>1. Used(t)
  BY DEF ShapeInvariant, Shape, Used
<1>2. Kept(n) /\ Kept(t)
  BY <1>1, RowsKept
<1>3. row'[row'[n].parent].type = "debit"
  BY <1>2 DEF OnlyDeposits, Kept, Used
<1> QED BY <1>2, <1>3 DEF Kept

LEMMA NextBalanced ==
  ASSUME TypeOK, TypeOK', SerialInvariant, [Next]_vars, Balanced(row, balance)
  PROVE  Balanced(row', balance')
<1>0. row \in [Entries -> Row] /\ row' \in [Entries -> Row]
  BY DEF TypeOK
<1> SUFFICES ASSUME NEW c \in Customers, OnlyDeposits(row', c)
             PROVE  balance'[c] = NetIn(row', c)
  BY DEF Balanced
<1>1. balance[c] = NetIn(row, c) /\ balance \in [Customers -> Int]
  BY OnlyDepositsBefore DEF Balanced, SerialInvariant, TypeOK
<1>2. CASE UNCHANGED <<row, balance>>
  BY <1>1, <1>2
<1>3. ASSUME NEW t \in Entries, NEW d \in Customers, NEW type \in Types,
             NEW a \in Amounts, Create(t, d, type, a)
      PROVE  balance'[c] = NetIn(row', c)
  <2>1. /\ Joins(row, row', t) /\ row'[t].customer = d /\ row'[t].type = type
        /\ row'[t].amount = a
    BY <1>3, CreateJoins
  <2>2. NetIn(row', c) =
          NetIn(row, c)
          + (IF row'[t].customer = c THEN Effect(row'[t].type, row'[t].amount) ELSE 0)
    BY <1>0, <2>1, JoinedNet
  <2> DEFINE e == Effect(type, a)
  <2>3. balance' = [balance EXCEPT ![d] = @ + e]
    BY <1>3 DEF Create
  <2>4. e \in Int
    BY EffectType, LedgerAssumption
  <2>5. NetIn(row', c) = NetIn(row, c) + (IF d = c THEN e ELSE 0)
    BY <2>1, <2>2
  <2> HIDE DEF e
  <2> QED BY <1>1, <2>3, <2>4, <2>5
<1>4. ASSUME NEW q \in Requests, NEW n \in Entries, InsertCorrection(q, n)
      PROVE  balance'[c] = NetIn(row', c)
  <2>1. PICK t \in Entries : Inserts(q, n, t)
    BY <1>4, InsertedRow
  <2> DEFINE a == request[q].amount
             d == row[t].customer
             e == Effect(row[t].type, a)
  <2>2. /\ Joins(row, row', n) /\ row'[n].customer = d /\ row'[n].type = "credit"
        /\ row'[n].amount = a /\ row'[n].parent = t
    BY <2>1, InsertJoins
  <2>3. NetIn(row', c) =
          NetIn(row, c)
          + (IF row'[n].customer = c THEN Effect(row'[n].type, row'[n].amount) ELSE 0)
    BY <1>0, <2>2, JoinedNet
  <2>4. NetIn(row', c) = NetIn(row, c) + (IF d = c THEN -a ELSE 0)
    BY <2>2, <2>3 DEF Effect
  <2>5. balance' = [balance EXCEPT ![d] = @ - e]
    BY <1>4, <2>1 DEF InsertCorrection, Inserts
  <2>6. a \in Nat
    BY DEF TypeOK, Request
  <2>7. d = c => e = a
    <3> SUFFICES ASSUME d = c PROVE e = a
      OBVIOUS
    <3>1. row'[n].status # "unused" /\ row'[n].parent # None
      BY <2>1, LedgerAssumption DEF Inserts
    <3>2. row'[t].type = "debit"
      BY <2>2, <3>1 DEF OnlyDeposits
    <3>3. row[t].type = "debit"
      BY <2>1, <3>2, RowsKept DEF Kept, Inserts
    <3> QED BY <3>3 DEF Effect
  <2> HIDE DEF a, d, e
  <2>8. CASE d = c
    BY <1>1, <2>4, <2>5, <2>6, <2>7, <2>8
  <2>9. CASE d # c
    BY <1>1, <2>4, <2>5, <2>9
  <2> QED BY <2>8, <2>9
<1>5. ASSUME NEW q \in Requests, Delete(q)
      PROVE  balance'[c] = NetIn(row', c)
  <2>1. PICK t \in Entries : t = request[q].target /\ Live(t)
    BY <1>5 DEF Delete, SerialInvariant, OrphanInvariant, TypeOK, Request
  <2> DEFINE d == row[t].customer
             e == Effect(row[t].type, row[t].amount)
  <2>2. Joins(row', row, t)
    BY <1>5, <2>1, DeleteLeaves
  <2>3. /\ NetIn(row', c) \in Int
        /\ NetIn(row, c) = NetIn(row', c) + (IF d = c THEN e ELSE 0)
    BY <1>0, <2>2, JoinedNet
  <2>4. balance' = [balance EXCEPT ![d] = @ - e]
    BY <1>5, <2>1 DEF Delete
  <2>5. e \in Int
    BY <1>0, EffectType DEF Row
  <2> HIDE DEF d, e
  <2>6. CASE d = c
    BY <1>1, <2>3, <2>4, <2>5, <2>6
  <2>7. CASE d # c
    BY <1>1, <2>3, <2>4, <2>7
  <2> QED BY <2>6, <2>7
<1> QED BY <1>2, <1>3, <1>4, <1>5, Commits

LEMMA InitBalanced == Init => Balanced(row, balance)
<1> SUFFICES ASSUME Init, NEW c \in Customers PROVE balance[c] = NetIn(row, c)
  BY DEF Balanced
<1>1. KindIn(row, c, "debit") = {} /\ KindIn(row, c, "credit") = {}
  BY DEF Init, KindIn, LiveIn, Unused
<1> DEFINE f == [t \in Entries |-> row[t].amount]
<1>2. SumFunctionOnSet(f, {}) = 0
  BY SumEmpty
<1>3. TotalIn(row, {}) = 0
  BY <1>2 DEF TotalIn
<1>4. NetIn(row, c) = 0
  BY <1>1, <1>3 DEF NetIn
<1> QED BY <1>4 DEF Init

(* Used by one request at a time, the service keeps the balance of every   *)
(* customer whose withdrawals were never corrected equal to the net of the *)
(* ledger.                                                                 *)
THEOREM SerialBalanceAgrees ==
  ASSUME \A q, r \in Requests : q = r
  PROVE  Spec => []BalanceAgreesForDeposits
<1>1. Init => BalanceAgreesForDeposits
  BY InitBalanced, BalancedDef
<1>2. TypeOK /\ TypeOK' /\ SerialInvariant /\ BalanceAgreesForDeposits /\ [Next]_vars
        => BalanceAgreesForDeposits'
  BY NextBalanced, BalancedDef
<1> QED BY <1>1, <1>2, SerialHolds, PTL DEF Spec

-----------------------------------------------------------------------------
(* The book of LedgerBook, as functions of the table.                      *)
OriginalIn(tab, t) == tab[t].status # "unused" /\ tab[t].parent = None

StateOf(tab, t) == IF ~OriginalIn(tab, t) THEN "none"
                   ELSE IF tab[t].deleted THEN "void" ELSE "open"
FaceOf(tab, t) == IF OriginalIn(tab, t) THEN tab[t].amount ELSE 0
LeftOf(tab, t) == IF OriginalIn(tab, t) THEN Remaining(tab, t) ELSE 0

LEMMA BookNow ==
  /\ State = [t \in Entries |-> StateOf(row, t)]
  /\ State' = [t \in Entries |-> StateOf(row', t)]
  /\ Face = [t \in Entries |-> FaceOf(row, t)]
  /\ Face' = [t \in Entries |-> FaceOf(row', t)]
  /\ Left = [t \in Entries |-> LeftOf(row, t)]
  /\ Left' = [t \in Entries |-> LeftOf(row', t)]
BY DEF State, Face, Left, StateOf, FaceOf, LeftOf, Original, OriginalIn, Used, Remaining,
       CorrectedTotal, Corrections, Total, Live, CorrectedIn, CorrectionsIn, TotalIn, LiveIn

(* The page of an entry in the book.                                       *)
Same(t) ==
  /\ StateOf(row', t) = StateOf(row, t) /\ FaceOf(row', t) = FaceOf(row, t)
  /\ LeftOf(row', t) = LeftOf(row, t)

(* Steps of the book, page by page.                                        *)
LEMMA BookSteps ==
  ASSUME NEW t \in Entries, \A s \in Entries \ {t} : Same(s)
  PROVE  /\ (/\ StateOf(row, t) = "none" /\ StateOf(row', t) = "open"
             /\ FaceOf(row', t) > 0 /\ LeftOf(row', t) = FaceOf(row', t))
              => Book!Open(t)
         /\ (/\ StateOf(row, t) = "open" /\ StateOf(row', t) = "open"
             /\ FaceOf(row', t) = FaceOf(row, t)
             /\ LeftOf(row', t) \in 0..FaceOf(row, t))
              => Book!Draw(t)
         /\ (/\ StateOf(row, t) = "open" /\ StateOf(row', t) = "void"
             /\ FaceOf(row', t) = FaceOf(row, t) /\ LeftOf(row', t) = LeftOf(row, t)
             /\ LeftOf(row, t) = FaceOf(row, t))
              => Book!Void(t)
BY BookNow DEF Book!Open, Book!Draw, Book!Void, Same

LEMMA BookStep ==
  ASSUME TypeOK, TypeOK', SerialInvariant, SerialInvariant', [Next]_vars
  PROVE  [Book!Next]_<<State, Face, Left>>
<1>0. \A x \in Entries : row'[x].amount \in Nat /\ CorrectedIn(row', x) \in Nat
  BY CorrectedNat DEF TypeOK, Row
<1>1. \A x \in Entries : row[x].amount \in Nat /\ CorrectedIn(row, x) \in Nat
  BY Numbers
<1>2. CASE UNCHANGED <<row, balance>>
  <2>1. State' = State /\ Face' = Face /\ Left' = Left
    BY <1>2, BookNow
  <2> QED BY <2>1
<1>3. ASSUME NEW t \in Entries, NEW c \in Customers, NEW type \in Types,
             NEW a \in Amounts, Create(t, c, type, a)
      PROVE  Book!Open(t)
  <2>1. /\ ~Used(t) /\ row'[t].amount = a /\ row'[t].parent = None
        /\ row'[t].status = "completed" /\ LiveIn(row', t)
        /\ \A s \in Entries \ {t} : row'[s] = row[s]
    BY <1>3, CreateJoins DEF Joins
  <2>2. /\ \A x \in Entries : CorrectedIn(row', x) = CorrectedIn(row, x)
        /\ CorrectedIn(row', t) = 0
    BY <1>3, AfterCreate DEF SerialInvariant
  <2>3. \A s \in Entries \ {t} : Same(s)
    BY <2>1, <2>2 DEF Same, StateOf, FaceOf, LeftOf, OriginalIn, Remaining
  <2>4. a \in Nat /\ a > 0
    BY LedgerAssumption
  <2>5. OriginalIn(row', t) /\ ~OriginalIn(row, t) /\ ~row'[t].deleted
    BY <2>1 DEF OriginalIn, Used, LiveIn
  <2>6. /\ StateOf(row, t) = "none" /\ StateOf(row', t) = "open"
        /\ FaceOf(row', t) = a /\ LeftOf(row', t) = a
    BY <2>1, <2>2, <2>4, <2>5 DEF StateOf, FaceOf, LeftOf, Remaining
  <2> QED BY <2>3, <2>4, <2>6, BookSteps
<1>4. ASSUME NEW q \in Requests, NEW n \in Entries, InsertCorrection(q, n)
      PROVE  \E t \in Entries : Book!Draw(t)
  <2>1. PICK t \in Entries : Inserts(q, n, t)
    BY <1>4, InsertedRow
  <2>2. /\ \A x \in Entries \ {t} : CorrectedIn(row', x) = CorrectedIn(row, x)
        /\ CorrectedIn(row', t) = CorrectedIn(row, t) + request[q].amount
    BY <2>1, AfterInsert DEF SerialInvariant
  <2>3. n # t /\ row'[n].parent = t /\ ~Used(n) /\ Used(t)
        /\ \A s \in Entries \ {n, t} : row'[s] = row[s]
    BY <2>1 DEF Inserts
  <2>4. ASSUME NEW s \in Entries \ {t} PROVE Same(s)
    <3>1. CASE s = n
      <4>1. ~OriginalIn(row, n) /\ ~OriginalIn(row', n)
        BY <2>3, LedgerAssumption DEF OriginalIn, Used
      <4> QED BY <3>1, <4>1 DEF Same, StateOf, FaceOf, LeftOf
    <3>2. CASE s # n
      <4>1. row'[s] = row[s] /\ CorrectedIn(row', s) = CorrectedIn(row, s)
        BY <2>2, <2>3, <3>2
      <4> QED BY <4>1 DEF Same, StateOf, FaceOf, LeftOf, OriginalIn, Remaining
    <3> QED BY <3>1, <3>2
  <2>5. row[t].parent = None /\ LiveIn(row, t)
    <3>1. t = request[q].target /\ request[q].pc = "insert"
      BY <1>4, <2>1 DEF Inserts, InsertCorrection
    <3>2. row[t].parent = None
      BY <3>1 DEF SerialInvariant, ShapeInvariant
    <3>3. Live(t)
      BY <3>1 DEF SerialInvariant, OrphanInvariant
    <3> QED BY <3>2, <3>3, TablesNow
  <2>6. Kept(t) /\ LiveIn(row', t)
    <3>1. Kept(t)
      BY <2>3, RowsKept
    <3>2. row'[t] = row[t] \/ row'[t] = [row[t] EXCEPT !.status = "reversed"]
      BY <2>1 DEF Inserts
    <3>3. row[t] \in Row
      BY DEF TypeOK
    <3> QED BY <2>5, <3>1, <3>2, <3>3 DEF LiveIn, Row
  <2>7. OriginalIn(row, t) /\ OriginalIn(row', t)
    BY <2>5, <2>6 DEF OriginalIn, LiveIn, Kept
  <2>8. /\ StateOf(row, t) = "open" /\ StateOf(row', t) = "open"
        /\ FaceOf(row', t) = FaceOf(row, t)
    BY <2>5, <2>6, <2>7 DEF StateOf, FaceOf, LiveIn, Kept
  <2>9. LeftOf(row', t) \in 0..FaceOf(row, t)
    <3>1. request[q].amount <= row[t].amount - CorrectedIn(row, t)
      BY <1>4, <2>1 DEF Inserts, InsertCorrection, SerialInvariant, Settled, Remaining
    <3>2. request[q].amount \in Nat
      BY DEF TypeOK, Request
    <3>3. LeftOf(row', t) = row[t].amount - (CorrectedIn(row, t) + request[q].amount)
      BY <2>2, <2>6, <2>7 DEF LeftOf, Remaining, Kept
    <3>4. FaceOf(row, t) = row[t].amount
      BY <2>7 DEF FaceOf
    <3> QED BY <1>1, <3>1, <3>2, <3>3, <3>4
  <2> QED BY <2>4, <2>8, <2>9, BookSteps
<1>5. ASSUME NEW q \in Requests, Delete(q)
      PROVE  \E t \in Entries : Book!Draw(t) \/ Book!Void(t)
  <2>1. PICK t \in Entries : t = request[q].target /\ Live(t)
    BY <1>5 DEF Delete, SerialInvariant, OrphanInvariant, TypeOK, Request
  <2>2. /\ row'[t].parent = row[t].parent /\ row'[t].status = row[t].status
        /\ row'[t].amount = row[t].amount /\ row'[t].deleted
        /\ \A s \in Entries \ {t} : row'[s] = row[s]
    BY <1>5, <2>1, DeleteLeaves
  <2>3. \A x \in Entries :
          CorrectedIn(row, x) =
            CorrectedIn(row', x) + (IF row[t].parent = x THEN row[t].amount ELSE 0)
    BY <1>5, <2>1, AfterDelete
  <2>4. CASE row[t].parent = None
    <3>1. \A x \in Entries : CorrectedIn(row', x) = CorrectedIn(row, x)
      BY <1>0, <2>3, <2>4, LedgerAssumption
    <3>2. CorrectedIn(row, t) = 0
      <4>1. \A n \in Entries : LiveIn(row, n) => row[n].parent # t
        BY <1>5, <2>1, TablesNow DEF Delete, SerialInvariant, OrphanInvariant
      <4> QED BY <4>1, NoCorrections
    <3>3. \A s \in Entries \ {t} : Same(s)
      BY <2>2, <3>1 DEF Same, StateOf, FaceOf, LeftOf, OriginalIn, Remaining
    <3>4. OriginalIn(row, t) /\ OriginalIn(row', t) /\ ~row[t].deleted
      BY <2>1, <2>2, <2>4 DEF OriginalIn, Live, Used
    <3>5. /\ StateOf(row, t) = "open" /\ StateOf(row', t) = "void"
          /\ FaceOf(row', t) = FaceOf(row, t) /\ LeftOf(row', t) = LeftOf(row, t)
          /\ LeftOf(row, t) = FaceOf(row, t)
      BY <1>1, <2>2, <3>1, <3>2, <3>4 DEF StateOf, FaceOf, LeftOf, Remaining
    <3>6. Book!Void(t)
      BY <3>3, <3>5, BookSteps
    <3> QED BY <3>6
  <2>5. CASE row[t].parent # None
    <3>1. PICK p \in Entries : p = row[t].parent
      BY <2>5 DEF TypeOK, Row
    <3>2. p # t /\ row[p].parent = None /\ Live(p)
      BY <2>1, <2>5, <3>1
      DEF SerialInvariant, ShapeInvariant, Shape, OrphanInvariant, NoOrphanCorrection,
          Live, Used
    <3>3. row'[p] = row[p]
      BY <2>2, <3>2
    <3>4. ASSUME NEW s \in Entries \ {p} PROVE Same(s)
      <4>1. CASE s = t
        <5>1. ~OriginalIn(row, t) /\ ~OriginalIn(row', t)
          BY <2>2, <2>5 DEF OriginalIn
        <5> QED BY <4>1, <5>1 DEF Same, StateOf, FaceOf, LeftOf
      <4>2. CASE s # t
        <5>1. row'[s] = row[s] /\ CorrectedIn(row', s) = CorrectedIn(row, s)
          BY <1>0, <2>2, <2>3, <3>1, <4>2
        <5> QED BY <5>1 DEF Same, StateOf, FaceOf, LeftOf, OriginalIn, Remaining
      <4> QED BY <4>1, <4>2
    <3>5. OriginalIn(row, p) /\ OriginalIn(row', p) /\ ~row[p].deleted
      BY <3>2, <3>3 DEF OriginalIn, Live, Used
    <3>6. /\ StateOf(row, p) = "open" /\ StateOf(row', p) = "open"
          /\ FaceOf(row', p) = FaceOf(row, p)
      BY <3>3, <3>5 DEF StateOf, FaceOf
    <3>7. LeftOf(row', p) \in 0..FaceOf(row, p)
      <4>1. CorrectedIn(row, p) = CorrectedIn(row', p) + row[t].amount
        BY <2>3, <3>1
      <4>2. CorrectedIn(row, p) <= row[p].amount
        BY <3>2, WithinDef DEF SerialInvariant, Live
      <4>3. LeftOf(row', p) = row[p].amount - CorrectedIn(row', p)
        BY <3>3, <3>5 DEF LeftOf, Remaining
      <4>4. FaceOf(row, p) = row[p].amount
        BY <3>5 DEF FaceOf
      <4> QED BY <1>0, <1>1, <4>1, <4>2, <4>3, <4>4
    <3>8. Book!Draw(p)
      BY <3>4, <3>6, <3>7, BookSteps
    <3> QED BY <3>8
  <2> QED BY <2>4, <2>5
<1> QED BY <1>2, <1>3, <1>4, <1>5, Commits DEF Book!Next

LEMMA BookInit == Init => Book!Init
<1> SUFFICES ASSUME Init PROVE Book!Init
  OBVIOUS
<1>1. \A t \in Entries : ~OriginalIn(row, t)
  BY DEF Init, Unused, OriginalIn
<1>2. \A t \in Entries : StateOf(row, t) = "none" /\ FaceOf(row, t) = 0 /\ LeftOf(row, t) = 0
  BY <1>1 DEF StateOf, FaceOf, LeftOf
<1> QED BY <1>2, BookNow DEF Book!Init

(* Used by one request at a time, corrections and removals implement the   *)
(* book: an open entry is drawn on within its face value, and only an      *)
(* entry nothing was drawn from is voided.                                 *)
THEOREM SerialKeepsBook ==
  ASSUME \A q, r \in Requests : q = r
  PROVE  Spec => KeepsBook
<1>1. TypeOK /\ TypeOK' /\ SerialInvariant /\ SerialInvariant' /\ [Next]_vars
        => [Book!Next]_<<State, Face, Left>>
  BY BookStep
<1> QED BY <1>1, BookInit, SerialHolds, PTL DEF Spec, KeepsBook, Book!Spec

=============================================================================

--------------------------- MODULE MessagingProofs ---------------------------
(* Theorems about Messaging for any threads, staff, messages, requests and *)
(* page size.                                                              *)
EXTENDS Messaging, FiniteSetTheorems, TLAPS

RequestsType == [Requests -> Request]

(* What a request holds at the step it is about to take.                   *)
Prepared(q) ==
  /\ q.pc \in {"create", "insert", "update", "mark"} => q.thread \in Threads
  /\ q.pc \in {"create", "insert", "update"} => q.by \in Writers
  /\ q.pc = "mark" => q.by \in Staff
  /\ q.pc = "update" => q.message \in Messages
  /\ q.pc \notin {"mark", "done"} => q.page = {}

(***************************************************************************)
(* An open transaction holds a message of its thread nobody else sees, and *)
(* no two hold the same.                                                   *)
(***************************************************************************)
Transactions ==
  /\ \A r \in Requests : request[r].pc = "update" =>
       /\ ~message[request[r].message].kept
       /\ message[request[r].message].thread = request[r].thread
  /\ \A r, s \in Requests :
       request[r].pc = "update" /\ request[s].pc = "update"
       /\ request[r].message = request[s].message => r = s

MarkersPast == \A v \in Staff, t \in Threads : marker[v][t] <= clock

(* A message is on a page on its way to the viewer.                        *)
Awaited(v, m) == \E r \in Requests : request[r].by = v /\ m \in request[r].page
Accounted(v, m) == m \in shown[v] \/ m \in missed[v] \/ Awaited(v, m)

(* A request about to move a marker leaves no message unaccounted for.     *)
Looked ==
  \A r \in Requests : request[r].pc = "mark" =>
    \A m \in Begun(request[r].thread) :
      m \in request[r].page \/ m \in shown[request[r].by] \/ m \in missed[request[r].by]

(***************************************************************************)
(* What a marker has passed is accounted for, even before it commits.      *)
(***************************************************************************)
PassedAccounted ==
  \A v \in Staff, t \in Threads :
    \A m \in Begun(t) : message[m].at <= marker[v][t] => Accounted(v, m)

IInv ==
  /\ TypeOK
  /\ \A r \in Requests : Prepared(request[r])
  /\ Transactions
  /\ MarkersPast
  /\ Looked
  /\ PassedAccounted
  /\ CountMatchesThread

-----------------------------------------------------------------------------

LEMMA IdleRequest == Idle \in Request /\ Prepared(Idle)
BY MessagingAssumption DEF Idle, Request, Prepared, Times

LEMMA UnsentMessage == Unsent \in Message /\ Unsent.thread \notin Threads /\ ~Unsent.kept
BY MessagingAssumption DEF Unsent, Message, Times

LEMMA Kinds ==
  /\ Unsent.thread \notin Threads
  /\ \A m \in Messages : message[m] = Unsent => \A t \in Threads : m \notin Begun(t)
BY UnsentMessage DEF Begun

(* Kept messages of a thread are finitely many.                            *)
LEMMA KeptFinite == \A t : IsFiniteSet(Kept(t)) /\ IsFiniteSet(Kept(t))'
<1>1. \A t : Kept(t) \in SUBSET Messages /\ Kept(t)' \in SUBSET Messages
  BY DEF Kept, Begun
<1> QED BY <1>1, FS_Subset, MessagingAssumption

(* Whatever was accounted for stays so when a request gives its page up    *)
(* only to its viewer or to what is missed.                                *)
LEMMA AccountedStays ==
  ASSUME TypeOK, NEW r \in Requests, NEW q,
         request' = [request EXCEPT ![r] = q],
         \A v \in Staff : shown[v] \subseteq shown'[v] /\ missed[v] \subseteq missed'[v],
         \A v \in Staff, m \in request[r].page : request[r].by = v =>
           (q.by = v /\ m \in q.page) \/ m \in shown'[v] \/ m \in missed'[v]
  PROVE  \A v \in Staff : \A m : Accounted(v, m) => Accounted(v, m)'
<1> SUFFICES ASSUME NEW v \in Staff, NEW m, Accounted(v, m) PROVE Accounted(v, m)'
  OBVIOUS
<1>1. \A s \in Requests : request'[s] = IF s = r THEN q ELSE request[s]
  BY DEF TypeOK
<1>2. CASE m \in shown[v] \/ m \in missed[v]
  BY <1>2 DEF Accounted
<1>3. CASE Awaited(v, m)
  <2>1. PICK s \in Requests : request[s].by = v /\ m \in request[s].page
    BY <1>3 DEF Awaited
  <2>2. CASE s = r
    <3>1. (q.by = v /\ m \in q.page) \/ m \in shown'[v] \/ m \in missed'[v]
      BY <2>1, <2>2
    <3>2. request'[r] = q
      BY <1>1
    <3> QED BY <3>1, <3>2 DEF Accounted, Awaited
  <2>3. CASE s # r
    <3>1. request'[s] = request[s]
      BY <1>1, <2>3
    <3> QED BY <2>1, <3>1 DEF Accounted, Awaited
  <2> QED BY <2>2, <2>3
<1> QED BY <1>2, <1>3 DEF Accounted

-----------------------------------------------------------------------------

(***************************************************************************)
(* A step of one request that touches neither messages nor markers, and    *)
(* threads only beside their count.                                        *)
(***************************************************************************)
LEMMA SendMoves ==
  ASSUME IInv, NEW r \in Requests, NEW q \in Request, Prepared(q),
         request' = [request EXCEPT ![r] = q],
         q.pc \notin {"mark", "update"},
         request[r].page = {} \/ (q.page = request[r].page /\ q.by = request[r].by),
         thread' \in [Threads -> Thread],
         \A t \in Threads : thread'[t].count = thread[t].count,
         clock' \in Times, clock <= clock', crossed' \in SUBSET Threads,
         UNCHANGED <<message, marker, shown, missed>>
  PROVE  IInv'
<1>1. request' \in RequestsType
  BY DEF IInv, TypeOK, RequestsType
<1>2. \A s \in Requests : request'[s] = IF s = r THEN q ELSE request[s]
  BY DEF IInv, TypeOK
<1>3. TypeOK'
  BY <1>1 DEF IInv, TypeOK, RequestsType
<1>4. \A s \in Requests : Prepared(request'[s])
  BY <1>2 DEF IInv
<1>5. Transactions'
  BY <1>2 DEF IInv, Transactions
<1>6. MarkersPast'
  <2>1. \A v \in Staff, t \in Threads : marker[v][t] \in Times
    BY DEF IInv, TypeOK
  <2>2. clock \in Times
    BY DEF IInv, TypeOK
  <2> QED BY <2>1, <2>2, MessagingAssumption DEF IInv, MarkersPast, Times
<1>7. Looked'
  BY <1>2 DEF IInv, Looked, Begun
<1>8. PassedAccounted'
  <2>1. \A v \in Staff : \A m : Accounted(v, m) => Accounted(v, m)'
    BY AccountedStays DEF IInv
  <2> QED BY <2>1 DEF IInv, PassedAccounted, Begun
<1>9. CountMatchesThread'
  BY DEF IInv, CountMatchesThread, Kept, Begun
<1> QED BY <1>3, <1>4, <1>5, <1>6, <1>7, <1>8, <1>9 DEF IInv

LEMMA InitIInv == Init => IInv
<1> SUFFICES ASSUME Init PROVE IInv
  OBVIOUS
<1>1. \A r \in Requests : request[r] = Idle
  BY DEF Init
<1>2. \A t \in Threads : Begun(t) = {}
  BY Kinds DEF Init, Begun
<1>3. 0 \in Times
  BY MessagingAssumption DEF Times
<1>4. TypeOK
  <2>1. [open |-> FALSE, count |-> 0, preview |-> None, customerAt |-> 0, staffAt |-> 0] \in Thread
    BY <1>3 DEF Thread
  <2>2. thread \in [Threads -> Thread]
    BY <2>1 DEF Init
  <2>3. message \in [Messages -> Message]
    BY UnsentMessage DEF Init
  <2>4. request \in [Requests -> Request]
    BY IdleRequest DEF Init
  <2>5. marker \in [Staff -> [Threads -> Times]]
    BY <1>3 DEF Init
  <2> QED BY <1>3, <2>2, <2>3, <2>4, <2>5 DEF TypeOK, Init
<1>5. Transactions /\ Looked
  BY <1>1 DEF Transactions, Looked, Idle
<1>6. MarkersPast
  BY DEF Init, MarkersPast
<1>7. PassedAccounted
  BY <1>2 DEF PassedAccounted
<1>8. CountMatchesThread
  <2>1. \A t \in Threads : Kept(t) = {}
    BY <1>2 DEF Kept
  <2> QED BY <2>1, FS_EmptySet DEF CountMatchesThread, Init
<1> QED BY <1>1, <1>4, <1>5, <1>6, <1>7, <1>8, IdleRequest DEF IInv

-----------------------------------------------------------------------------

(* The clock moves within its bound.                                       *)
LEMMA StampMoves ==
  ASSUME TypeOK, Stamp
  PROVE  clock' \in Times /\ clock < clock' /\ clock' = clock + 1 /\ clock \in Times
BY MessagingAssumption DEF TypeOK, Stamp, Times

LEMMA AppendRequest ==
  ASSUME TypeOK, NEW r \in Requests, NEW w \in Writers, NEW t \in Threads, Append(r, w, t)
  PROVE  LET q == [Idle EXCEPT !.pc = "insert", !.thread = t, !.by = w, !.now = clock + 1]
         IN /\ q \in Request /\ Prepared(q) /\ q.pc = "insert" /\ q.page = {}
            /\ request' = [request EXCEPT ![r] = q]
            /\ crossed' \in SUBSET Threads
<1>1. clock + 1 \in Times
  BY StampMoves DEF Append
<1>2. crossed' \in SUBSET Threads
  BY DEF Append, TypeOK
<1> QED BY <1>1, <1>2 DEF Append, Goto, Idle, Request, Prepared

LEMMA StartSendKeeps ==
  ASSUME IInv, NEW r \in Requests, NEW w \in Writers, NEW t \in Threads, StartSend(r, w, t)
  PROVE  IInv'
<1>1. request[r].page = {}
  BY DEF IInv, Prepared, StartSend
<1>2. thread' \in [Threads -> Thread]
  BY DEF IInv, TypeOK, StartSend
<1>3. CASE Append(r, w, t)
  <2>1. TypeOK
    BY DEF IInv
  <2>2. clock' \in Times /\ clock <= clock'
    BY <1>3, <2>1, StampMoves DEF Append, Times
  <2> QED BY <1>1, <1>2, <1>3, <2>1, <2>2, AppendRequest, SendMoves DEF StartSend
<1>4. CASE ~thread[t].open
  <2> DEFINE q == [Idle EXCEPT !.pc = "create", !.thread = t, !.by = w]
  <2>1. q \in Request /\ Prepared(q) /\ q.pc = "create"
    BY IdleRequest DEF Idle, Request, Prepared
  <2>2. request' = [request EXCEPT ![r] = q] /\ UNCHANGED <<clock, crossed>>
    BY <1>4 DEF StartSend, Goto
  <2>3. clock' \in Times /\ clock <= clock' /\ crossed' \in SUBSET Threads
    BY <2>2 DEF IInv, TypeOK, Times
  <2> HIDE DEF q
  <2> QED BY <1>1, <1>2, <2>1, <2>2, <2>3, SendMoves DEF StartSend
<1> QED BY <1>3, <1>4 DEF StartSend

LEMMA CreateKeeps ==
  ASSUME IInv, NEW r \in Requests, Create(r)
  PROVE  IInv'
<1> DEFINE t == request[r].thread
           w == request[r].by
<1>1. t \in Threads /\ w \in Writers /\ request[r].page = {} /\ TypeOK
  BY DEF IInv, Prepared, Create
<1>2. Append(r, w, t) /\ thread' = [thread EXCEPT ![t].open = TRUE]
  BY DEF Create
<1>3. thread' \in [Threads -> Thread]
  BY <1>1, <1>2 DEF TypeOK, Thread
<1>4. \A d \in Threads : thread'[d].count = thread[d].count
  BY <1>1, <1>2 DEF TypeOK, Thread
<1>5. clock' \in Times /\ clock <= clock'
  BY <1>1, <1>2, StampMoves DEF Append, Times
<1> HIDE DEF t, w
<1> QED BY <1>1, <1>2, <1>3, <1>4, <1>5, AppendRequest, SendMoves DEF Create

LEMMA EmitKeeps ==
  ASSUME IInv, NEW r \in Requests, Emit(r)
  PROVE  IInv'
<1> DEFINE q == [request[r] EXCEPT !.pc = "done"]
<1>1. request[r] \in Request
  BY DEF IInv, TypeOK
<1>2. q \in Request /\ Prepared(q) /\ q.pc = "done"
      /\ q.page = request[r].page /\ q.by = request[r].by
  BY <1>1 DEF Request, Prepared
<1>3. request' = [request EXCEPT ![r] = q]
  BY DEF Emit, Goto
<1>4. /\ clock' \in Times /\ clock <= clock' /\ crossed' \in SUBSET Threads
      /\ thread' \in [Threads -> Thread] /\ UNCHANGED <<thread, message, marker, shown, missed>>
  BY DEF IInv, TypeOK, Emit, Times
<1> HIDE DEF q
<1> QED BY <1>2, <1>3, <1>4, SendMoves

LEMMA InsertKeeps ==
  ASSUME IInv, NEW r \in Requests, Insert(r)
  PROVE  IInv'
<1>0. PICK old \in Request : old = request[r]
  BY DEF IInv, TypeOK
<1> DEFINE d == old.thread
<1>1. PICK m \in Messages :
        /\ message[m] = Unsent
        /\ message' = [message EXCEPT ![m] =
             [kept |-> FALSE, thread |-> d, by |-> old.by, at |-> clock + 1]]
        /\ request' = [request EXCEPT ![r] = [old EXCEPT !.pc = "update", !.message = m]]
        /\ missed' = [v \in Staff |->
             IF v \in Looking(request[r].thread) THEN missed[v] \cup {m} ELSE missed[v]]
  BY <1>0 DEF Insert, Goto
<1>2. /\ TypeOK /\ Prepared(old) /\ old.pc = "insert"
  BY <1>0 DEF IInv, Insert
<1>3. d \in Threads /\ old.by \in Writers /\ old.page = {}
  BY <1>2 DEF Prepared
<1>4. clock' \in Times /\ clock' = clock + 1 /\ clock \in Times
  BY <1>2, StampMoves DEF Insert
<1>5. PICK new \in Message :
        new = [kept |-> FALSE, thread |-> d, by |-> old.by, at |-> clock + 1]
  BY <1>3, <1>4 DEF Message
<1>6. PICK q \in Request : /\ q = [old EXCEPT !.pc = "update", !.message = m]
                           /\ Prepared(q) /\ q.pc = "update" /\ q.message = m
                           /\ q.thread = d /\ q.by = old.by /\ q.page = {}
  <2> DEFINE p == [old EXCEPT !.pc = "update", !.message = m]
  <2>1. /\ p \in Request /\ p = [old EXCEPT !.pc = "update", !.message = m]
        /\ Prepared(p) /\ p.pc = "update" /\ p.message = m
        /\ p.thread = d /\ p.by = old.by /\ p.page = {}
    BY <1>2, <1>3 DEF Request, Prepared
  <2> HIDE DEF p
  <2> QED BY <2>1
<1>7. \A s \in Requests : request'[s] = IF s = r THEN q ELSE request[s]
  BY <1>1, <1>2, <1>6 DEF TypeOK
<1>8. \A n \in Messages : message'[n] = IF n = m THEN new ELSE message[n]
  BY <1>1, <1>2, <1>5 DEF TypeOK
<1>9. \A v \in Staff :
        missed'[v] = IF v \in Looking(request[r].thread) THEN missed[v] \cup {m} ELSE missed[v]
  BY <1>1
<1>10. UNCHANGED <<thread, marker, shown, crossed>>
  BY DEF Insert
<1>11. \A t \in Threads : \A n \in Begun(t)' : n = m \/ (n \in Begun(t) /\ message'[n] = message[n])
  BY <1>8 DEF Begun
<1>12. TypeOK'
  <2>1. message' \in [Messages -> Message]
    BY <1>1, <1>2, <1>5 DEF TypeOK
  <2>2. request' \in [Requests -> Request]
    BY <1>1, <1>2, <1>6 DEF TypeOK
  <2>3. missed' \in [Staff -> SUBSET Messages]
    BY <1>2 DEF TypeOK, Insert
  <2> QED BY <1>2, <1>4, <1>10, <2>1, <2>2, <2>3 DEF TypeOK
<1>13. \A s \in Requests : Prepared(request'[s])
  BY <1>6, <1>7 DEF IInv
<1>14. Transactions'
  <2>1. \A s \in Requests : request[s].pc = "update" =>
          request[s].message # m /\ request[s].message \in Messages
    <3> SUFFICES ASSUME NEW s \in Requests, request[s].pc = "update"
                 PROVE  request[s].message # m /\ request[s].message \in Messages
      OBVIOUS
    <3>1. request[s].message \in Messages /\ request[s].thread \in Threads
      BY DEF IInv, Prepared
    <3>2. message[request[s].message].thread = request[s].thread
      BY DEF IInv, Transactions
    <3> QED BY <1>1, <3>1, <3>2, UnsentMessage
  <2>2. \A s \in Requests : request'[s].pc = "update" =>
          /\ ~message'[request'[s].message].kept
          /\ message'[request'[s].message].thread = request'[s].thread
    <3> SUFFICES ASSUME NEW s \in Requests, request'[s].pc = "update"
                 PROVE  /\ ~message'[request'[s].message].kept
                        /\ message'[request'[s].message].thread = request'[s].thread
      OBVIOUS
    <3>1. CASE s = r
      <4>1. request'[s] = q /\ message'[m] = new
        BY <1>7, <1>8, <3>1
      <4> QED BY <1>5, <1>6, <4>1
    <3>2. CASE s # r
      <4>1. request'[s] = request[s] /\ message'[request[s].message] = message[request[s].message]
        BY <1>7, <1>8, <2>1, <3>2
      <4> QED BY <4>1 DEF IInv, Transactions
    <3> QED BY <3>1, <3>2
  <2>3. \A s, u \in Requests :
          request'[s].pc = "update" /\ request'[u].pc = "update"
          /\ request'[s].message = request'[u].message => s = u
    <3> SUFFICES ASSUME NEW s \in Requests, NEW u \in Requests, s # u,
                        request'[s].pc = "update", request'[u].pc = "update"
                 PROVE  request'[s].message # request'[u].message
      OBVIOUS
    <3>1. CASE s = r
      <4>1. request'[s] = q /\ request'[u] = request[u]
        BY <1>7, <3>1
      <4> QED BY <1>6, <2>1, <4>1
    <3>2. CASE u = r
      <4>1. request'[u] = q /\ request'[s] = request[s]
        BY <1>7, <3>2
      <4> QED BY <1>6, <2>1, <4>1
    <3>3. CASE s # r /\ u # r
      <4>1. request'[s] = request[s] /\ request'[u] = request[u]
        BY <1>7, <3>3
      <4> QED BY <4>1 DEF IInv, Transactions
    <3> QED BY <3>1, <3>2, <3>3
  <2> QED BY <2>2, <2>3 DEF Transactions
<1>15. MarkersPast'
  <2>1. \A v \in Staff, t \in Threads : marker[v][t] \in Times
    BY <1>2 DEF TypeOK
  <2> QED BY <1>4, <1>10, <2>1, MessagingAssumption DEF IInv, MarkersPast, Times
<1>16. Looked'
  <2> SUFFICES ASSUME NEW s \in Requests, request'[s].pc = "mark",
                      NEW n \in Begun(request[s].thread)'
               PROVE  \/ n \in request'[s].page \/ n \in shown'[request'[s].by]
                      \/ n \in missed'[request'[s].by]
    BY DEF Looked
  <2>1. s # r /\ request'[s] = request[s] /\ request[s].pc = "mark"
    BY <1>6, <1>7
  <2>2. request[s].thread \in Threads /\ request[s].by \in Staff
    BY <2>1 DEF IInv, Prepared
  <2>3. CASE n = m /\ request[s].thread = d
    <3>1. request[s].by \in Looking(request[r].thread)
      BY <1>0, <2>1, <2>2, <2>3 DEF Looking
    <3> QED BY <1>9, <2>1, <2>2, <2>3, <3>1
  <2>4. CASE n = m /\ request[s].thread # d
    BY <1>5, <1>8, <2>1, <2>4 DEF Begun
  <2>5. CASE n # m
    <3>1. n \in Begun(request[s].thread)
      BY <1>11, <2>1, <2>2, <2>5
    <3> QED BY <1>9, <1>10, <2>1, <2>2, <3>1 DEF IInv, Looked
  <2> QED BY <2>3, <2>4, <2>5
<1>17. PassedAccounted'
  <2>1. \A v \in Staff : \A n : Accounted(v, n) => Accounted(v, n)'
    <3>1. \A v \in Staff : shown[v] \subseteq shown'[v] /\ missed[v] \subseteq missed'[v]
      BY <1>9, <1>10
    <3> QED BY <1>0, <1>1, <1>2, <1>3, <1>6, <3>1, AccountedStays
  <2> SUFFICES ASSUME NEW v \in Staff, NEW t \in Threads, NEW n \in Begun(t)',
                      message'[n].at <= marker'[v][t]
               PROVE  Accounted(v, n)'
    BY DEF PassedAccounted
  <2>2. n # m
    <3>1. marker[v][t] \in Times /\ marker[v][t] <= clock
      BY <1>2 DEF TypeOK, IInv, MarkersPast
    <3>2. n = m => message'[n].at = clock + 1
      BY <1>5, <1>8
    <3> QED BY <1>4, <1>10, <3>1, <3>2, MessagingAssumption DEF Times
  <2> QED BY <1>10, <1>11, <2>1, <2>2 DEF IInv, PassedAccounted
<1>18. CountMatchesThread'
  <2>1. \A t \in Threads : Kept(t)' = Kept(t)
    BY <1>1, <1>5, <1>8, UnsentMessage DEF Kept, Begun
  <2> QED BY <1>10, <2>1 DEF IInv, CountMatchesThread
<1> QED BY <1>12, <1>13, <1>14, <1>15, <1>16, <1>17, <1>18 DEF IInv

LEMMA CommitKeeps ==
  ASSUME IInv, NEW r \in Requests, Commit(r)
  PROVE  IInv'
<1>0. PICK old \in Request : old = request[r]
  BY DEF IInv, TypeOK
<1> DEFINE m == old.message
           d == old.thread
<1>1. /\ TypeOK /\ Prepared(old) /\ old.pc = "update"
  BY <1>0 DEF IInv, Commit
<1>2. m \in Messages /\ d \in Threads /\ old.page = {} /\ old.by \in Writers
  BY <1>1 DEF Prepared
<1>3. ~message[m].kept /\ message[m].thread = d
  BY <1>0, <1>1 DEF IInv, Transactions
<1>4. /\ message' = [message EXCEPT ![m] = [message[m] EXCEPT !.kept = TRUE]]
      /\ thread' = [thread EXCEPT ![d] = Updated(thread[d], old)]
      /\ request' = [request EXCEPT ![r] = [old EXCEPT !.pc = "emit", !.now = 0]]
      /\ UNCHANGED <<marker, clock, shown, crossed>>
  BY <1>0, <1>1, <1>2 DEF Commit, Goto, TypeOK
<1>5. PICK q \in Request : /\ q = [old EXCEPT !.pc = "emit", !.now = 0]
                           /\ Prepared(q) /\ q.pc = "emit" /\ q.page = {}
  <2> DEFINE p == [old EXCEPT !.pc = "emit", !.now = 0]
  <2>1. /\ p \in Request /\ p = [old EXCEPT !.pc = "emit", !.now = 0]
        /\ Prepared(p) /\ p.pc = "emit" /\ p.page = {}
    <3>1. 0 \in Times
      BY MessagingAssumption DEF Times
    <3> QED BY <1>1, <1>2, <3>1 DEF Request, Prepared
  <2> HIDE DEF p
  <2> QED BY <2>1
<1>6. \A s \in Requests : request'[s] = IF s = r THEN q ELSE request[s]
  BY <1>1, <1>4, <1>5 DEF TypeOK
<1>7. \A n \in Messages : /\ message'[n].thread = message[n].thread
                          /\ message'[n].at = message[n].at
                          /\ message'[n].kept <=> (n = m \/ message[n].kept)
  BY <1>1, <1>2, <1>4 DEF TypeOK, Message
<1>8. \A v \in Staff : missed'[v] = IF v \in Looking(d) THEN missed[v] \cup {m} ELSE missed[v]
  BY <1>0 DEF Commit, Looking
<1>9. \A t : Begun(t)' = Begun(t)
  BY <1>7 DEF Begun
<1>10. /\ Updated(thread[d], old) \in Thread
       /\ Updated(thread[d], old).count = thread[d].count + 1
  <2>1. PICK row \in Thread : row = thread[d]
    BY <1>1, <1>2 DEF TypeOK
  <2>2. PICK c \in Times, w \in Times :
          /\ c = IF old.thread \notin TeamThreads /\ old.by = Customer THEN old.now ELSE row.customerAt
          /\ w = IF old.thread \notin TeamThreads /\ old.by # Customer THEN old.now ELSE row.staffAt
    BY DEF Request, Thread
  <2>3. Updated(row, old) = [row EXCEPT !.count = row.count + 1, !.preview = old.message,
                                        !.customerAt = c, !.staffAt = w]
    BY <2>2 DEF Updated
  <2>4. old.message \in Messages \cup {None}
    BY DEF Request
  <2>5. row.count \in Nat /\ row.open \in BOOLEAN
    BY DEF Thread
  <2>6. Updated(row, old) = [open |-> row.open, count |-> row.count + 1,
                             preview |-> old.message, customerAt |-> c, staffAt |-> w]
    BY <2>3 DEF Thread
  <2> QED BY <2>1, <2>4, <2>5, <2>6 DEF Thread
<1>11. TypeOK'
  <2>1. [message[m] EXCEPT !.kept = TRUE] \in Message
    BY <1>1, <1>2 DEF TypeOK, Message
  <2>2. message' \in [Messages -> Message]
    BY <1>1, <1>4, <2>1 DEF TypeOK
  <2>3. thread' \in [Threads -> Thread]
    BY <1>1, <1>4, <1>10 DEF TypeOK
  <2>4. request' \in [Requests -> Request]
    BY <1>1, <1>4, <1>5 DEF TypeOK
  <2>5. missed' \in [Staff -> SUBSET Messages]
    BY <1>0, <1>1, <1>2 DEF TypeOK, Commit
  <2> QED BY <1>1, <1>4, <2>2, <2>3, <2>4, <2>5 DEF TypeOK
<1>12. \A s \in Requests : Prepared(request'[s])
  BY <1>5, <1>6 DEF IInv
<1>13. Transactions'
  <2>1. \A s \in Requests : request'[s].pc = "update" =>
          /\ s # r /\ request'[s] = request[s]
          /\ request[s].message # m /\ request[s].message \in Messages
    <3> SUFFICES ASSUME NEW s \in Requests, request'[s].pc = "update"
                 PROVE  /\ s # r /\ request'[s] = request[s]
                        /\ request[s].message # m /\ request[s].message \in Messages
      OBVIOUS
    <3>1. s # r /\ request'[s] = request[s]
      BY <1>5, <1>6
    <3>2. request[s].message \in Messages
      BY <3>1 DEF IInv, Prepared
    <3>3. request[s].message # m
      BY <1>0, <1>1, <3>1 DEF IInv, Transactions
    <3> QED BY <3>1, <3>2, <3>3
  <2>2. \A s \in Requests : request'[s].pc = "update" =>
          (message'[request[s].message].kept <=> message[request[s].message].kept)
          /\ message'[request[s].message].thread = message[request[s].message].thread
    BY <1>7, <2>1
  <2>3. \A s \in Requests : request'[s].pc = "update" =>
          /\ ~message'[request'[s].message].kept
          /\ message'[request'[s].message].thread = request'[s].thread
    BY <2>1, <2>2 DEF IInv, Transactions
  <2>4. \A s, u \in Requests :
          request'[s].pc = "update" /\ request'[u].pc = "update"
          /\ request'[s].message = request'[u].message => s = u
    BY <2>1 DEF IInv, Transactions
  <2> QED BY <2>3, <2>4 DEF Transactions
<1>14. MarkersPast'
  BY <1>4 DEF IInv, MarkersPast
<1>15. Looked'
  <2> SUFFICES ASSUME NEW s \in Requests, request'[s].pc = "mark",
                      NEW n \in Begun(request[s].thread)'
               PROVE  \/ n \in request'[s].page \/ n \in shown'[request'[s].by]
                      \/ n \in missed'[request'[s].by]
    BY DEF Looked
  <2>1. request'[s] = request[s] /\ request[s].pc = "mark"
    BY <1>5, <1>6
  <2>2. request[s].by \in Staff /\ n \in Begun(request[s].thread)
    BY <1>9, <2>1 DEF IInv, Prepared
  <2> QED BY <1>4, <1>8, <2>1, <2>2 DEF IInv, Looked
<1>16. PassedAccounted'
  <2>1. \A v \in Staff : shown[v] \subseteq shown'[v] /\ missed[v] \subseteq missed'[v]
    BY <1>4, <1>8
  <2>2. \A v \in Staff : \A n : Accounted(v, n) => Accounted(v, n)'
    <3> QED BY <1>0, <1>1, <1>2, <1>4, <1>5, <2>1, AccountedStays
  <2>3. \A t \in Threads : \A n \in Begun(t) : n \in Messages
    BY DEF Begun
  <2> QED BY <1>4, <1>7, <1>9, <2>2, <2>3 DEF IInv, PassedAccounted
<1>17. CountMatchesThread'
  <2> SUFFICES ASSUME NEW t \in Threads PROVE thread'[t].count = Cardinality(Kept(t)')
    BY DEF CountMatchesThread
  <2>1. thread[t].count = Cardinality(Kept(t))
    BY DEF IInv, CountMatchesThread
  <2>2. CASE t = d
    <3>1. Kept(t)' = Kept(t) \cup {m} /\ m \notin Kept(t)
      BY <1>2, <1>3, <1>7, <2>2 DEF Kept, Begun
    <3>2. Cardinality(Kept(t) \cup {m}) = Cardinality(Kept(t)) + 1
      BY <3>1, FS_AddElement, KeptFinite
    <3>3. thread'[t].count = thread[t].count + 1
      BY <1>1, <1>4, <1>10, <2>2 DEF TypeOK
    <3> QED BY <2>1, <3>1, <3>2, <3>3
  <2>3. CASE t # d
    <3>1. Kept(t)' = Kept(t)
      BY <1>3, <1>7, <2>3 DEF Kept, Begun
    <3>2. thread'[t] = thread[t]
      BY <1>1, <1>4, <2>3 DEF TypeOK
    <3> QED BY <2>1, <3>1, <3>2
  <2> QED BY <2>2, <2>3
<1> QED BY <1>11, <1>12, <1>13, <1>14, <1>15, <1>16, <1>17 DEF IInv

LEMMA LookKeeps ==
  ASSUME IInv, NEW r \in Requests, NEW v \in Staff, NEW t \in Threads,
         NEW page \in SUBSET Messages, Look(r, v, t, page)
  PROVE  IInv'
<1>1. TypeOK /\ request[r].page = {}
  BY DEF IInv, Prepared, Look
<1>2. PICK q \in Request :
        /\ q = [Idle EXCEPT !.pc = "mark", !.thread = t, !.by = v, !.page = page]
        /\ Prepared(q) /\ q.pc = "mark" /\ q.thread = t /\ q.by = v /\ q.page = page
  <2> DEFINE p == [Idle EXCEPT !.pc = "mark", !.thread = t, !.by = v, !.page = page]
  <2>1. /\ p \in Request /\ Prepared(p)
        /\ p.pc = "mark" /\ p.thread = t /\ p.by = v /\ p.page = page
    BY IdleRequest DEF Idle, Request, Prepared, Writers
  <2> HIDE DEF p
  <2> QED BY <2>1 DEF p
<1>3. request' = [request EXCEPT ![r] = q]
  BY <1>2 DEF Look, Goto
<1>4. \A s \in Requests : request'[s] = IF s = r THEN q ELSE request[s]
  BY <1>1, <1>3 DEF TypeOK
<1>5. \A w \in Staff : missed'[w] = IF w = v THEN missed[w] \cup (Begun(t) \ (page \cup shown[v]))
                                   ELSE missed[w]
  BY <1>1 DEF Look, TypeOK
<1>6. UNCHANGED <<thread, message, marker, clock, shown, crossed>>
  BY DEF Look
<1>7. TypeOK'
  <2>1. request' \in [Requests -> Request]
    BY <1>1, <1>3 DEF TypeOK
  <2>2. missed' \in [Staff -> SUBSET Messages]
    BY <1>1 DEF TypeOK, Look, Begun
  <2> QED BY <1>1, <1>6, <2>1, <2>2 DEF TypeOK
<1>8. \A s \in Requests : Prepared(request'[s])
  BY <1>2, <1>4 DEF IInv
<1>9. Transactions'
  <2>1. \A s \in Requests : request'[s].pc = "update" => request'[s] = request[s]
    BY <1>2, <1>4
  <2> QED BY <1>6, <2>1 DEF IInv, Transactions
<1>10. MarkersPast'
  BY <1>6 DEF IInv, MarkersPast
<1>11. Looked'
  <2> SUFFICES ASSUME NEW s \in Requests, request'[s].pc = "mark",
                      NEW n \in Begun(request[s].thread)'
               PROVE  \/ n \in request'[s].page \/ n \in shown'[request'[s].by]
                      \/ n \in missed'[request'[s].by]
    BY DEF Looked
  <2>1. CASE s = r
    <3>1. request'[s] = q
      BY <1>4, <2>1
    <3>2. n \in Begun(t)
      BY <1>2, <1>6, <3>1 DEF Begun
    <3> QED BY <1>2, <1>5, <1>6, <3>1, <3>2
  <2>2. CASE s # r
    <3>1. request'[s] = request[s]
      BY <1>4, <2>2
    <3>2. n \in Begun(request[s].thread) /\ request[s].by \in Staff
      BY <1>6, <3>1 DEF Begun, IInv, Prepared
    <3> QED BY <1>5, <1>6, <3>1, <3>2 DEF IInv, Looked
  <2> QED BY <2>1, <2>2
<1>12. PassedAccounted'
  <2>1. \A w \in Staff : shown[w] \subseteq shown'[w] /\ missed[w] \subseteq missed'[w]
    BY <1>5, <1>6
  <2>2. \A w \in Staff : \A n : Accounted(w, n) => Accounted(w, n)'
    BY <1>1, <1>3, <2>1, AccountedStays
  <2> QED BY <1>6, <2>2 DEF IInv, PassedAccounted, Begun
<1>13. CountMatchesThread'
  BY <1>6 DEF IInv, CountMatchesThread, Kept, Begun
<1> QED BY <1>7, <1>8, <1>9, <1>10, <1>11, <1>12, <1>13 DEF IInv

(* The marker passes what was accounted for when the viewer looked.        *)
LEMMA MarkKeeps ==
  ASSUME IInv, NEW r \in Requests, Mark(r)
  PROVE  IInv'
<1>0. PICK old \in Request : old = request[r]
  BY DEF IInv, TypeOK
<1> DEFINE t == old.thread
           v == old.by
<1>1. TypeOK /\ Prepared(old) /\ old.pc = "mark" /\ t \in Threads /\ v \in Staff
  BY <1>0 DEF IInv, Mark, Prepared
<1>2. PICK q \in Request :
        /\ q = [old EXCEPT !.pc = "done"]
        /\ Prepared(q) /\ q.pc = "done" /\ q.by = v /\ q.page = old.page
  <2> DEFINE p == [old EXCEPT !.pc = "done"]
  <2>1. p \in Request /\ Prepared(p) /\ p.pc = "done" /\ p.by = v /\ p.page = old.page
    BY DEF Request, Prepared
  <2> HIDE DEF p
  <2> QED BY <2>1 DEF p
<1>3. clock' \in Times /\ clock' = clock + 1 /\ clock \in Times
  BY <1>1, StampMoves DEF Mark
<1>4. request' = [request EXCEPT ![r] = q]
  BY <1>0, <1>2 DEF Mark, Goto
<1>5. \A s \in Requests : request'[s] = IF s = r THEN q ELSE request[s]
  BY <1>1, <1>4 DEF TypeOK
<1>6. marker' = [marker EXCEPT ![v] = [marker[v] EXCEPT ![t] = clock + 1]]
  BY <1>0, <1>1 DEF Mark, TypeOK
<1>7. \A w \in Staff, d \in Threads :
        marker'[w][d] = IF w = v /\ d = t THEN clock + 1 ELSE marker[w][d]
  BY <1>1, <1>6 DEF TypeOK
<1>8. UNCHANGED <<thread, message, shown, missed, crossed>>
  BY DEF Mark
<1>9. TypeOK'
  <2>1. request' \in [Requests -> Request]
    BY <1>1, <1>4 DEF TypeOK
  <2>2. [marker[v] EXCEPT ![t] = clock + 1] \in [Threads -> Times]
    BY <1>1, <1>3 DEF TypeOK
  <2>3. marker' \in [Staff -> [Threads -> Times]]
    BY <1>1, <1>6, <2>2 DEF TypeOK
  <2> QED BY <1>1, <1>3, <1>8, <2>1, <2>3 DEF TypeOK
<1>10. \A s \in Requests : Prepared(request'[s])
  BY <1>2, <1>5 DEF IInv
<1>11. Transactions'
  <2>1. \A s \in Requests : request'[s].pc = "update" => request'[s] = request[s]
    BY <1>2, <1>5
  <2> QED BY <1>8, <2>1 DEF IInv, Transactions
<1>12. MarkersPast'
  <2>1. \A w \in Staff, d \in Threads : marker[w][d] \in Times /\ marker[w][d] <= clock
    BY <1>1 DEF TypeOK, IInv, MarkersPast
  <2>2. \A w \in Staff, d \in Threads : marker[w][d] <= clock + 1
    BY <1>3, <2>1, MessagingAssumption DEF Times
  <2> QED BY <1>3, <1>7, <2>2 DEF MarkersPast, Times
<1>13. Looked'
  <2>1. \A s \in Requests : request'[s].pc = "mark" => request'[s] = request[s]
    BY <1>2, <1>5
  <2> QED BY <1>8, <2>1 DEF IInv, Looked, Begun
<1>14. PassedAccounted'
  <2>1. \A w \in Staff : \A n : Accounted(w, n) => Accounted(w, n)'
    <3>1. \A w \in Staff : shown[w] \subseteq shown'[w] /\ missed[w] \subseteq missed'[w]
      BY <1>8
    <3>2. q.by = request[r].by /\ q.page = request[r].page
      BY <1>0, <1>2
    <3>3. \A w \in Staff, n \in request[r].page : request[r].by = w =>
            (q.by = w /\ n \in q.page) \/ n \in shown'[w] \/ n \in missed'[w]
      BY <3>2
    <3> HIDE DEF t, v
    <3> QED BY <1>1, <1>4, <3>1, <3>3, AccountedStays
  <2> SUFFICES ASSUME NEW w \in Staff, NEW d \in Threads, NEW n \in Begun(d)',
                      message'[n].at <= marker'[w][d]
               PROVE  Accounted(w, n)'
    BY DEF PassedAccounted
  <2>2. n \in Begun(d) /\ message'[n] = message[n]
    BY <1>8 DEF Begun
  <2>3. CASE w = v /\ d = t
    <3>1. n \in old.page \/ n \in shown[v] \/ n \in missed[v]
      BY <1>0, <1>1, <2>2, <2>3 DEF IInv, Looked, Begun
    <3>2. Accounted(v, n)
      BY <1>0, <3>1 DEF Accounted, Awaited
    <3> QED BY <2>1, <2>3, <3>2
  <2>4. CASE ~(w = v /\ d = t)
    BY <1>7, <2>1, <2>2, <2>4 DEF IInv, PassedAccounted
  <2> QED BY <2>3, <2>4
<1>15. CountMatchesThread'
  BY <1>8 DEF IInv, CountMatchesThread, Kept, Begun
<1> QED BY <1>9, <1>10, <1>11, <1>12, <1>13, <1>14, <1>15 DEF IInv

(***************************************************************************)
(* A request ends: its page is shown or missed, and the message of an open *)
(* transaction is gone.                                                    *)
(***************************************************************************)
LEMMA EndKeeps ==
  ASSUME IInv, NEW r \in Requests,
         request' = [request EXCEPT ![r] = Idle],
         UNCHANGED <<thread, marker, clock, crossed>>,
         shown' \in [Staff -> SUBSET Messages], missed' \in [Staff -> SUBSET Messages],
         \A v \in Staff : shown[v] \subseteq shown'[v] /\ missed[v] \subseteq missed'[v],
         \A v \in Staff, m \in request[r].page : request[r].by = v =>
           m \in shown'[v] \/ m \in missed'[v],
         \/ message' = message
         \/ /\ request[r].pc = "update"
            /\ message' = [message EXCEPT ![request[r].message] = Unsent]
  PROVE  IInv'
<1>1. TypeOK
  BY DEF IInv
<1>2. \A s \in Requests : request'[s] = IF s = r THEN Idle ELSE request[s]
  BY <1>1 DEF TypeOK
<1>3. \A n \in Messages :
        \/ message'[n] = message[n]
        \/ /\ request[r].pc = "update" /\ n = request[r].message
           /\ message'[n] = Unsent /\ ~message[n].kept
  BY <1>1 DEF IInv, TypeOK, Transactions
<1>4. message' \in [Messages -> Message]
  BY <1>1, UnsentMessage DEF TypeOK
<1>5. TypeOK'
  BY <1>1, <1>4, IdleRequest DEF TypeOK
<1>6. \A s \in Requests : Prepared(request'[s])
  BY <1>2, IdleRequest DEF IInv
<1>7. \A s \in Requests : request'[s].pc # "idle" => s # r /\ request'[s] = request[s]
  BY <1>2 DEF Idle
<1>8. Transactions'
  <2>1. \A s \in Requests : request'[s].pc = "update" =>
          message'[request[s].message] = message[request[s].message]
    <3> SUFFICES ASSUME NEW s \in Requests, request'[s].pc = "update"
                 PROVE  message'[request[s].message] = message[request[s].message]
      OBVIOUS
    <3>1. s # r /\ request'[s] = request[s] /\ request[s].pc = "update"
      BY <1>7
    <3>2. request[s].message \in Messages
      BY <3>1 DEF IInv, Prepared
    <3>3. request[r].pc = "update" => request[s].message # request[r].message
      BY <3>1 DEF IInv, Transactions
    <3> QED BY <1>3, <3>2, <3>3
  <2>2. \A s \in Requests : request'[s].pc = "update" => request'[s] = request[s]
    BY <1>7
  <2> QED BY <2>1, <2>2 DEF IInv, Transactions
<1>9. MarkersPast'
  BY DEF IInv, MarkersPast
<1>10. \A t \in Threads : \A n \in Begun(t)' : n \in Begun(t) /\ message'[n] = message[n]
  BY <1>3, UnsentMessage DEF Begun
<1>11. Looked'
  <2> SUFFICES ASSUME NEW s \in Requests, request'[s].pc = "mark",
                      NEW n \in Begun(request[s].thread)'
               PROVE  \/ n \in request'[s].page \/ n \in shown'[request'[s].by]
                      \/ n \in missed'[request'[s].by]
    BY DEF Looked
  <2>1. request'[s] = request[s] /\ request[s].pc = "mark"
    BY <1>7
  <2>2. PICK t \in Threads : t = request[s].thread
    BY <2>1 DEF IInv, Prepared
  <2>3. request[s].by \in Staff
    BY <2>1 DEF IInv, Prepared
  <2>4. n \in Begun(t)'
    BY <2>1, <2>2 DEF Begun
  <2>5. n \in Begun(request[s].thread)
    BY <1>10, <2>2, <2>4 DEF Begun
  <2> QED BY <2>1, <2>3, <2>5 DEF IInv, Looked
<1>12. PassedAccounted'
  <2>1. \A v \in Staff : \A n : Accounted(v, n) => Accounted(v, n)'
    BY <1>1, AccountedStays
  <2> QED BY <1>10, <2>1 DEF IInv, PassedAccounted
<1>13. CountMatchesThread'
  <2>1. \A t \in Threads : Kept(t)' = Kept(t)
    BY <1>3, UnsentMessage DEF Kept, Begun
  <2> QED BY <2>1 DEF IInv, CountMatchesThread
<1> QED BY <1>5, <1>6, <1>8, <1>9, <1>11, <1>12, <1>13 DEF IInv

LEMMA AnswerKeeps ==
  ASSUME IInv, NEW r \in Requests, Answer(r)
  PROVE  IInv'
<1>1. request[r].page \in SUBSET Messages
  BY DEF IInv, TypeOK, Request
<1>2. /\ shown' \in [Staff -> SUBSET Messages] /\ missed' \in [Staff -> SUBSET Messages]
      /\ \A v \in Staff : shown[v] \subseteq shown'[v] /\ missed[v] \subseteq missed'[v]
      /\ \A v \in Staff, m \in request[r].page : request[r].by = v => m \in shown'[v]
  BY <1>1 DEF IInv, TypeOK, Answer
<1> QED BY <1>2, EndKeeps DEF Answer, Goto

LEMMA DieKeeps ==
  ASSUME IInv, NEW r \in Requests, Die(r)
  PROVE  IInv'
<1>1. request[r].page \in SUBSET Messages
  BY DEF IInv, TypeOK, Request
<1>2. /\ shown' \in [Staff -> SUBSET Messages] /\ missed' \in [Staff -> SUBSET Messages]
      /\ \A v \in Staff : shown[v] \subseteq shown'[v] /\ missed[v] \subseteq missed'[v]
      /\ \A v \in Staff, m \in request[r].page : request[r].by = v => m \in missed'[v]
  BY <1>1 DEF IInv, TypeOK, Die
<1>3. message' = message \/ (request[r].pc = "update"
                            /\ message' = [message EXCEPT ![request[r].message] = Unsent])
  BY DEF Die
<1> QED BY <1>2, <1>3, EndKeeps DEF Die, Goto

-----------------------------------------------------------------------------

LEMMA StutterKeeps == ASSUME IInv, UNCHANGED vars PROVE IInv'
BY DEF IInv, vars, TypeOK, Transactions, MarkersPast, Looked, PassedAccounted,
       Accounted, Awaited, CountMatchesThread, Kept, Begun

LEMMA NextKeeps == IInv /\ [Next]_vars => IInv'
<1> SUFFICES ASSUME IInv, [Next]_vars PROVE IInv'
  OBVIOUS
<1>1. CASE UNCHANGED vars
  BY <1>1, StutterKeeps
<1>2. ASSUME NEW r \in Requests, Start(r) PROVE IInv'
  <2>1. \A t \in Threads : Page(t) \in SUBSET Messages
    BY DEF Page, Kept, Begun
  <2> QED BY <1>2, <2>1, StartSendKeeps, LookKeeps DEF Start, StartRead, StartMark
<1>3. ASSUME NEW r \in Requests, Serve(r) PROVE IInv'
  BY <1>3, CreateKeeps, InsertKeeps, CommitKeeps, EmitKeeps, MarkKeeps DEF Serve
<1> QED BY <1>1, <1>2, <1>3, AnswerKeeps, DieKeeps DEF Next

(***************************************************************************)
(* The inductive invariant: transactions hold what is theirs, no marker is *)
(* ahead of the clock, and whatever a marker passes is accounted for from  *)
(* the moment the viewer looked.                                           *)
(***************************************************************************)
THEOREM Inductive == Spec => []IInv
BY InitIInv, NextKeeps, PTL DEF Spec

(* Threads, messages, markers and requests keep their shape.               *)
THEOREM TypeCorrect == Spec => []TypeOK
<1>1. IInv => TypeOK
  BY DEF IInv
<1> QED BY <1>1, Inductive, PTL

(***************************************************************************)
(* messageCount is the number of messages of the thread, for any number of *)
(* sends at the same time and whichever of them fail.                      *)
(***************************************************************************)
THEOREM CountsKept == Spec => []CountMatchesThread
<1>1. IInv => CountMatchesThread
  BY DEF IInv
<1> QED BY <1>1, Inductive, PTL

(***************************************************************************)
(* What markRead takes off a viewer's unread messages was shown to that    *)
(* viewer, is on its way or was missed, for any viewers, senders and page  *)
(* size.                                                                   *)
(***************************************************************************)
THEOREM NothingReadUnseen == Spec => []ReadIsShown
<1>1. IInv => ReadIsShown
  <2> SUFFICES ASSUME IInv, NEW v \in Staff, NEW t \in Threads, NEW m \in Kept(t), Counts(v, m)
               PROVE  m \in Unread(v, t) \cup shown[v] \cup missed[v] \cup Coming(v)
    BY DEF ReadIsShown
  <2>1. m \in Begun(t) /\ message[m] \in Message /\ marker[v][t] \in Times
    BY DEF Kept, Begun, IInv, TypeOK
  <2>2. CASE message[m].at > marker[v][t]
    BY <2>2 DEF Unread
  <2>3. CASE message[m].at <= marker[v][t]
    <3>1. Accounted(v, m)
      BY <2>1, <2>3 DEF IInv, PassedAccounted
    <3>2. Awaited(v, m) => m \in Coming(v)
      BY DEF Awaited, Coming
    <3> QED BY <3>1, <3>2 DEF Accounted
  <2>4. message[m].at \in Nat /\ marker[v][t] \in Nat
    BY <2>1, MessagingAssumption DEF Message, Times
  <2> QED BY <2>2, <2>3, <2>4
<1> QED BY <1>1, Inductive, PTL

-----------------------------------------------------------------------------
(* The inbox: what is kept beside the messages of a thread.                *)

(* No stamp is ahead of the clock.                                         *)
Stamped ==
  /\ \A m \in Messages : message[m].at <= clock
  /\ \A r \in Requests : request[r].now <= clock
  /\ \A t \in Threads : thread[t].customerAt <= clock /\ thread[t].staffAt <= clock

(* A send takes the time of the thread before the time of its message.     *)
Dated ==
  \A r \in Requests : request[r].pc = "update" =>
    /\ message[request[r].message].by = request[r].by
    /\ request[r].now < message[request[r].message].at

(* The one send under way in the thread is later than all that is kept.    *)
SendsNext(t) ==
  \A r \in Sending(t) :
    /\ \A s \in Sending(t) : r = s
    /\ \A m \in Kept(t) : message[m].at < request[r].now
    /\ thread[t].customerAt < request[r].now /\ thread[t].staffAt < request[r].now

PreviewNewest(t) ==
  \/ Kept(t) = {} /\ thread[t].preview = None
  \/ /\ thread[t].preview \in Kept(t)
     /\ \A n \in Kept(t) \ {thread[t].preview} :
          message[n].at < message[thread[t].preview].at

(* The customer's time lies between the customer's last message and all    *)
(* that came before it.                                                    *)
Turns(t) ==
  /\ AwaitingReply(t) <=> \E m \in Kept(t) : m = thread[t].preview /\ message[m].by = Customer
  /\ \A m \in Kept(t) : message[m].by # Customer =>
       (message[m].at > thread[t].customerAt
          <=> \A n \in Kept(t) : message[n].by = Customer => message[n].at < message[m].at)

Agreed(t) == SendsNext(t) /\ PreviewNewest(t) /\ (t \notin TeamThreads => Turns(t))

InboxInvariant == Stamped /\ Dated /\ \A t \in Threads \ crossed : Agreed(t)

LEMMA InitInbox == Init => InboxInvariant
<1> SUFFICES ASSUME Init PROVE InboxInvariant
  OBVIOUS
<1>1. \A t \in Threads : Kept(t) = {} /\ Sending(t) = {}
  BY Kinds DEF Init, Kept, Begun, Sending, Idle
<1>2. Stamped /\ Dated
  BY DEF Init, Stamped, Dated, Idle, Unsent
<1>3. \A t \in Threads : Agreed(t)
  BY <1>1 DEF Agreed, SendsNext, PreviewNewest, Turns, AwaitingReply, Init
<1> QED BY <1>2, <1>3 DEF InboxInvariant

(* Stamps are numbers.                                                     *)
LEMMA StampsTyped ==
  ASSUME TypeOK
  PROVE  /\ clock \in Nat
         /\ \A m \in Messages : message[m].at \in Nat
         /\ \A r \in Requests : request[r].now \in Nat
         /\ \A t \in Threads : thread[t].customerAt \in Nat /\ thread[t].staffAt \in Nat
<1>1. Times \subseteq Nat
  BY MessagingAssumption DEF Times
<1>2. /\ \A m \in Messages : message[m] \in Message
      /\ \A r \in Requests : request[r] \in Request
      /\ \A t \in Threads : thread[t] \in Thread
  BY DEF TypeOK
<1> QED BY <1>1, <1>2 DEF TypeOK, Message, Request, Thread

(***************************************************************************)
(* A thread in which nothing is committed and no send begins stays agreed. *)
(***************************************************************************)
LEMMA Untouched ==
  ASSUME NEW t \in Threads, Agreed(t),
         thread'[t].preview = thread[t].preview,
         thread'[t].customerAt = thread[t].customerAt,
         thread'[t].staffAt = thread[t].staffAt,
         Kept(t)' = Kept(t),
         \A m \in Kept(t) : message'[m] = message[m],
         \A s \in Sending(t)' : s \in Sending(t) /\ request'[s].now = request[s].now
  PROVE  Agreed(t)'
<1>1. SendsNext(t)'
  BY DEF Agreed, SendsNext
<1>2. PreviewNewest(t)'
  BY DEF Agreed, PreviewNewest
<1>3. t \notin TeamThreads => Turns(t)'
  BY DEF Agreed, Turns, AwaitingReply
<1> QED BY <1>1, <1>2, <1>3 DEF Agreed

(***************************************************************************)
(* A step after which the request sends nothing, and what it had not       *)
(* committed is gone.                                                      *)
(***************************************************************************)
LEMMA QuietInbox ==
  ASSUME IInv, InboxInvariant, NEW r \in Requests, NEW q \in Request,
         request' = [request EXCEPT ![r] = q],
         q.pc \notin {"insert", "update"}, q.now <= clock,
         clock' \in Nat, clock <= clock', crossed' = crossed, thread' = thread,
         \A n \in Messages :
           \/ message'[n] = message[n]
           \/ request[r].pc = "update" /\ n = request[r].message /\ message'[n] = Unsent
  PROVE  InboxInvariant'
<1>1. TypeOK
  BY DEF IInv
<1>2. \A s \in Requests : request'[s] = IF s = r THEN q ELSE request[s]
  BY <1>1 DEF TypeOK
<1>3. \A s \in Requests : request'[s].pc = "update" =>
        /\ s # r /\ request'[s] = request[s]
        /\ request[s].message \in Messages
        /\ message'[request[s].message] = message[request[s].message]
  <2> SUFFICES ASSUME NEW s \in Requests, request'[s].pc = "update"
               PROVE  /\ s # r /\ request'[s] = request[s]
                      /\ request[s].message \in Messages
                      /\ message'[request[s].message] = message[request[s].message]
    OBVIOUS
  <2>1. s # r /\ request'[s] = request[s]
    BY <1>2
  <2>2. request[s].message \in Messages
    BY <2>1 DEF IInv, Prepared
  <2>3. request[r].pc = "update" => request[s].message # request[r].message
    BY <2>1 DEF IInv, Transactions
  <2> QED BY <2>1, <2>2, <2>3
<1>4. Stamped'
  <2>1. \A n \in Messages : message'[n].at <= clock
    BY <1>1, StampsTyped DEF InboxInvariant, Stamped, Unsent
  <2>2. \A s \in Requests : request'[s].now <= clock
    BY <1>2 DEF InboxInvariant, Stamped
  <2>3. \A n \in Messages : message'[n].at \in Nat
    BY <1>1, StampsTyped DEF Unsent
  <2>4. \A s \in Requests : request'[s].now \in Nat
    <3>1. q.now \in Nat
      BY MessagingAssumption DEF Request, Times
    <3> QED BY <1>1, <1>2, <3>1, StampsTyped
  <2> QED BY <1>1, <2>1, <2>2, <2>3, <2>4, StampsTyped DEF InboxInvariant, Stamped
<1>5. Dated'
  BY <1>3 DEF InboxInvariant, Dated
<1>6. ASSUME NEW t \in Threads \ crossed PROVE Agreed(t)'
  <2>1. \A m \in Kept(t) : message'[m] = message[m]
    BY DEF Kept, Begun, IInv, Transactions
  <2>2. Kept(t)' = Kept(t)
    BY <2>1, UnsentMessage DEF Kept, Begun
  <2>3. \A s \in Sending(t)' : s \in Sending(t) /\ request'[s].now = request[s].now
    BY <1>2 DEF Sending
  <2> QED BY <2>1, <2>2, <2>3, Untouched DEF InboxInvariant
<1> QED BY <1>4, <1>5, <1>6 DEF InboxInvariant

(***************************************************************************)
(* A send begins: its time is later than all there is, and in a thread     *)
(* that stays uncrossed it is the only one.                                *)
(***************************************************************************)
LEMMA AppendInbox ==
  ASSUME IInv, InboxInvariant, NEW r \in Requests, NEW w \in Writers, NEW d \in Threads,
         Append(r, w, d), request[r].pc \notin {"insert", "update"}, message' = message,
         \A t \in Threads : /\ thread'[t].preview = thread[t].preview
                           /\ thread'[t].customerAt = thread[t].customerAt
                           /\ thread'[t].staffAt = thread[t].staffAt
  PROVE  InboxInvariant'
<1>1. TypeOK /\ clock' \in Nat /\ clock' = clock + 1 /\ clock \in Nat
  BY StampMoves, MessagingAssumption DEF IInv, Append, Times
<1>2. PICK q : /\ request' = [request EXCEPT ![r] = q] /\ q.pc = "insert"
               /\ q.thread = d /\ q.now = clock + 1
  <2> DEFINE p == [Idle EXCEPT !.pc = "insert", !.thread = d, !.by = w, !.now = clock + 1]
  <2>1. request' = [request EXCEPT ![r] = p]
    BY DEF Append, Goto
  <2>2. p.pc = "insert" /\ p.thread = d /\ p.now = clock + 1
    BY DEF Idle
  <2> HIDE DEF p
  <2> QED BY <2>1, <2>2
<1>3. \A s \in Requests : request'[s] = IF s = r THEN q ELSE request[s]
  BY <1>1, <1>2 DEF TypeOK
<1>4. \A t \in Threads : Kept(t)' = Kept(t)
  BY DEF Kept, Begun
<1>5. Stamped'
  <2>1. \A s \in Requests : request'[s].now <= clock'
    BY <1>1, <1>2, <1>3, StampsTyped DEF InboxInvariant, Stamped
  <2> QED BY <1>1, <2>1, StampsTyped DEF InboxInvariant, Stamped
<1>6. Dated'
  <2>1. \A s \in Requests : request'[s].pc = "update" => request'[s] = request[s]
    BY <1>2, <1>3
  <2> QED BY <2>1 DEF InboxInvariant, Dated
<1>7. ASSUME NEW t \in Threads \ crossed', t # d PROVE Agreed(t)'
  <2>1. t \notin crossed
    BY <1>7 DEF Append
  <2>2. \A s \in Sending(t)' : s \in Sending(t) /\ request'[s].now = request[s].now
    BY <1>2, <1>3, <1>7 DEF Sending
  <2> QED BY <1>4, <2>1, <2>2, Untouched DEF InboxInvariant
<1>8. ASSUME d \notin crossed' PROVE Agreed(d)'
  <2>1. d \notin crossed /\ Sending(d) = {}
    BY <1>8 DEF Append
  <2>2. Agreed(d)
    BY <2>1 DEF InboxInvariant
  <2>3. \A s \in Sending(d)' : s = r
    BY <1>3, <2>1 DEF Sending
  <2>4. SendsNext(d)'
    <3>1. request'[r].now = clock + 1
      BY <1>2, <1>3
    <3>2. \A m \in Kept(d) : message[m].at < clock + 1
      BY <1>1, StampsTyped DEF Kept, Begun, InboxInvariant, Stamped
    <3>3. thread[d].customerAt < clock + 1 /\ thread[d].staffAt < clock + 1
      BY <1>1, StampsTyped DEF InboxInvariant, Stamped
    <3> QED BY <1>4, <2>3, <3>1, <3>2, <3>3 DEF SendsNext
  <2>5. PreviewNewest(d)'
    BY <1>4, <2>2 DEF Agreed, PreviewNewest
  <2>6. d \notin TeamThreads => Turns(d)'
    BY <1>4, <2>2 DEF Agreed, Turns, AwaitingReply
  <2> QED BY <2>4, <2>5, <2>6 DEF Agreed
<1> QED BY <1>5, <1>6, <1>7, <1>8 DEF InboxInvariant

LEMMA InsertInbox ==
  ASSUME IInv, InboxInvariant, NEW r \in Requests, Insert(r)
  PROVE  InboxInvariant'
<1>0. PICK old \in Request : old = request[r]
  BY DEF IInv, TypeOK
<1>1. /\ TypeOK /\ Prepared(old) /\ old.pc = "insert" /\ old.now <= clock
      /\ clock' = clock + 1 /\ clock \in Nat
  BY <1>0, StampMoves, MessagingAssumption DEF IInv, TypeOK, Insert, Times, InboxInvariant, Stamped
<1>2. PICK m \in Messages :
        /\ message[m] = Unsent
        /\ message' = [message EXCEPT ![m] =
             [kept |-> FALSE, thread |-> old.thread, by |-> old.by, at |-> clock + 1]]
        /\ request' = [request EXCEPT ![r] = [old EXCEPT !.pc = "update", !.message = m]]
        /\ missed' = [v \in Staff |->
             IF v \in Looking(request[r].thread) THEN missed[v] \cup {m} ELSE missed[v]]
  BY <1>0 DEF Insert, Goto
<1>3. PICK q : /\ request' = [request EXCEPT ![r] = q]
               /\ q.pc = "update" /\ q.message = m /\ q.thread = old.thread
               /\ q.by = old.by /\ q.now = old.now
  <2> DEFINE p == [old EXCEPT !.pc = "update", !.message = m]
  <2>1. /\ p.pc = "update" /\ p.message = m /\ p.thread = old.thread
        /\ p.by = old.by /\ p.now = old.now
    BY <1>1 DEF Request
  <2>2. request' = [request EXCEPT ![r] = p]
    BY <1>2
  <2> HIDE DEF p
  <2> QED BY <2>1, <2>2
<1>4. \A s \in Requests : request'[s] = IF s = r THEN q ELSE request[s]
  BY <1>1, <1>3 DEF TypeOK
<1>5. /\ \A n \in Messages : n # m => message'[n] = message[n]
      /\ ~message'[m].kept /\ message'[m].by = old.by /\ message'[m].at = clock + 1
  BY <1>1, <1>2 DEF TypeOK
<1>6. UNCHANGED <<thread, crossed>>
  BY DEF Insert
<1>7. Stamped'
  <2>1. \A s \in Requests : request'[s].now <= clock'
    BY <1>0, <1>1, <1>3, <1>4, StampsTyped DEF InboxInvariant, Stamped
  <2>2. \A n \in Messages : message'[n].at <= clock'
    BY <1>1, <1>5, StampsTyped DEF InboxInvariant, Stamped
  <2> QED BY <1>1, <1>6, <2>1, <2>2, StampsTyped DEF InboxInvariant, Stamped
<1>8. Dated'
  <2> SUFFICES ASSUME NEW s \in Requests, request'[s].pc = "update"
               PROVE  /\ message'[request'[s].message].by = request'[s].by
                      /\ request'[s].now < message'[request'[s].message].at
    BY DEF Dated
  <2>1. CASE s = r
    <3>1. request'[s] = q
      BY <1>4, <2>1
    <3>2. old.now < clock + 1
      BY <1>0, <1>1, StampsTyped
    <3> QED BY <1>3, <1>5, <3>1, <3>2
  <2>2. CASE s # r
    <3>1. request'[s] = request[s] /\ request[s].message \in Messages
      BY <1>4, <2>2 DEF IInv, Prepared
    <3>2. request[s].message # m
      <4>1. message[request[s].message].thread \in Threads
        BY <3>1 DEF IInv, Transactions, Prepared
      <4> QED BY <1>2, <4>1, UnsentMessage
    <3> QED BY <1>5, <3>1, <3>2 DEF InboxInvariant, Dated
  <2> QED BY <2>1, <2>2
<1>9. ASSUME NEW t \in Threads \ crossed PROVE Agreed(t)'
  <2>1. m \notin Kept(t)
    BY <1>2, UnsentMessage DEF Kept, Begun
  <2>2. \A n \in Kept(t) : message'[n] = message[n]
    BY <1>5, <2>1 DEF Kept, Begun
  <2>3. Kept(t)' = Kept(t)
    BY <1>5, <2>1 DEF Kept, Begun
  <2>4. \A s \in Sending(t)' : s \in Sending(t) /\ request'[s].now = request[s].now
    BY <1>0, <1>1, <1>3, <1>4 DEF Sending
  <2> QED BY <1>6, <2>2, <2>3, <2>4, Untouched DEF InboxInvariant
<1> QED BY <1>6, <1>7, <1>8, <1>9 DEF InboxInvariant

(***************************************************************************)
(* A send commits: its message is the newest of the thread, and the time   *)
(* of its side is later than all that was there.                           *)
(***************************************************************************)
LEMMA CommitInbox ==
  ASSUME IInv, InboxInvariant, NEW r \in Requests, Commit(r)
  PROVE  InboxInvariant'
<1>0. PICK old \in Request : old = request[r]
  BY DEF IInv, TypeOK
<1> DEFINE m == old.message
           d == old.thread
<1>1. /\ TypeOK /\ Prepared(old) /\ old.pc = "update"
  BY <1>0 DEF IInv, Commit
<1>2. m \in Messages /\ d \in Threads /\ r \in Sending(d)
  BY <1>0, <1>1 DEF Prepared, Sending
<1>3. /\ ~message[m].kept /\ message[m].thread = d
      /\ message[m].by = old.by /\ old.now < message[m].at
  BY <1>0, <1>1 DEF IInv, Transactions, InboxInvariant, Dated
<1>4. /\ message' = [message EXCEPT ![m] = [message[m] EXCEPT !.kept = TRUE]]
      /\ thread' = [thread EXCEPT ![d] = Updated(thread[d], old)]
      /\ request' = [request EXCEPT ![r] = [old EXCEPT !.pc = "emit", !.now = 0]]
      /\ UNCHANGED <<clock, crossed>>
  BY <1>0, <1>1, <1>2 DEF Commit, Goto, TypeOK
<1>5. PICK q : /\ request' = [request EXCEPT ![r] = q] /\ q.pc = "emit" /\ q.now = 0
  <2> DEFINE p == [old EXCEPT !.pc = "emit", !.now = 0]
  <2>1. p.pc = "emit" /\ p.now = 0 /\ request' = [request EXCEPT ![r] = p]
    BY <1>4 DEF Request
  <2> HIDE DEF p
  <2> QED BY <2>1
<1>6. \A s \in Requests : request'[s] = IF s = r THEN q ELSE request[s]
  BY <1>1, <1>5 DEF TypeOK
<1>7. /\ \A n \in Messages : n # m => message'[n] = message[n]
      /\ \A n \in Messages : message'[n].at = message[n].at /\ message'[n].by = message[n].by
      /\ message'[m].kept /\ message'[m].thread = d
  BY <1>1, <1>2, <1>3, <1>4 DEF TypeOK, Message
<1>8. \A t \in Threads : t # d => thread'[t] = thread[t]
  BY <1>1, <1>4 DEF TypeOK
<1>9. /\ thread'[d].preview = m
      /\ thread'[d].customerAt = IF d \notin TeamThreads /\ old.by = Customer
                                THEN old.now ELSE thread[d].customerAt
      /\ thread'[d].staffAt = IF d \notin TeamThreads /\ old.by # Customer
                             THEN old.now ELSE thread[d].staffAt
  <2>1. thread'[d] = Updated(thread[d], old) /\ thread[d] \in Thread
    BY <1>1, <1>2, <1>4 DEF TypeOK
  <2> QED BY <2>1 DEF Updated, Thread
<1>10. old.now <= clock /\ old.now \in Nat /\ clock \in Nat
  BY <1>0, <1>1, StampsTyped DEF InboxInvariant, Stamped
<1>11. Stamped'
  <2>1. \A s \in Requests : request'[s].now <= clock'
    BY <1>4, <1>5, <1>6, <1>10, StampsTyped DEF InboxInvariant, Stamped
  <2>2. \A n \in Messages : message'[n].at <= clock'
    BY <1>4, <1>7 DEF InboxInvariant, Stamped
  <2>3. \A t \in Threads : thread'[t].customerAt <= clock' /\ thread'[t].staffAt <= clock'
    BY <1>4, <1>8, <1>9, <1>10 DEF InboxInvariant, Stamped
  <2> QED BY <2>1, <2>2, <2>3 DEF Stamped
<1>12. Dated'
  <2> SUFFICES ASSUME NEW s \in Requests, request'[s].pc = "update"
               PROVE  /\ message'[request'[s].message].by = request'[s].by
                      /\ request'[s].now < message'[request'[s].message].at
    BY DEF Dated
  <2>1. request'[s] = request[s]
    BY <1>5, <1>6
  <2>2. request[s].message \in Messages
    BY <2>1 DEF IInv, Prepared
  <2> QED BY <1>7, <2>1, <2>2 DEF InboxInvariant, Dated
<1>13. ASSUME NEW t \in Threads \ crossed, t # d PROVE Agreed(t)'
  <2>1. m \notin Kept(t)
    BY <1>3, <1>13 DEF Kept, Begun
  <2>2. \A n \in Kept(t) : message'[n] = message[n]
    BY <1>7, <2>1 DEF Kept, Begun
  <2>3. Kept(t)' = Kept(t)
    BY <1>2, <1>7, <1>13, <2>1 DEF Kept, Begun
  <2>4. \A s \in Sending(t)' : s \in Sending(t) /\ request'[s].now = request[s].now
    BY <1>5, <1>6 DEF Sending
  <2> QED BY <1>8, <1>13, <2>2, <2>3, <2>4, Untouched DEF InboxInvariant
<1>14. ASSUME d \notin crossed PROVE Agreed(d)'
  <2>1. Agreed(d)
    BY <1>2, <1>14 DEF InboxInvariant
  <2>2. /\ \A s \in Sending(d) : s = r
        /\ \A n \in Kept(d) : message[n].at < old.now
        /\ thread[d].customerAt < old.now /\ thread[d].staffAt < old.now
    BY <1>0, <1>2, <2>1 DEF Agreed, SendsNext
  <2>3. m \notin Kept(d) /\ Kept(d)' = Kept(d) \cup {m}
    BY <1>2, <1>3, <1>7 DEF Kept, Begun
  <2>4. \A n \in Kept(d)' : n \in Messages
    BY DEF Kept, Begun
  <2>5. SendsNext(d)'
    <3>1. Sending(d)' = {}
      BY <1>5, <1>6, <2>2 DEF Sending
    <3> QED BY <3>1 DEF SendsNext
  <2>6. /\ \A n \in Messages : message[n].at \in Nat
        /\ thread[d].customerAt \in Nat /\ thread[d].staffAt \in Nat
    BY <1>1, <1>2, StampsTyped
  <2>7. \A n \in Kept(d) : message[n].at < message[m].at
    BY <1>2, <1>3, <1>10, <2>2, <2>6 DEF Kept, Begun
  <2>8. PreviewNewest(d)'
    <3>1. \A n \in Kept(d)' \ {m} : message'[n].at < message'[m].at
      BY <1>2, <1>7, <2>3, <2>4, <2>7
    <3> QED BY <1>9, <2>3, <3>1 DEF PreviewNewest
  <2>9. ASSUME d \notin TeamThreads PROVE Turns(d)'
    <3>1. Turns(d)
      BY <2>1, <2>9 DEF Agreed
    <3>2. AwaitingReply(d)' <=> old.by = Customer
      BY <1>9, <1>10, <2>2, <2>6, <2>9 DEF AwaitingReply
    <3>3. (\E n \in Kept(d)' : n = thread'[d].preview /\ message'[n].by = Customer)
            <=> old.by = Customer
      BY <1>2, <1>3, <1>7, <1>9, <2>3
    <3>4. ASSUME NEW n \in Kept(d)', message'[n].by # Customer
          PROVE  message'[n].at > thread'[d].customerAt
                   <=> \A k \in Kept(d)' : message'[k].by = Customer => message'[k].at < message'[n].at
      <4>1. CASE n = m
        <5>1. old.by # Customer /\ thread'[d].customerAt = thread[d].customerAt
          BY <1>2, <1>3, <1>7, <1>9, <3>4, <4>1
        <5>2. message'[n].at > thread'[d].customerAt
          BY <1>2, <1>3, <1>7, <1>10, <2>2, <2>6, <4>1, <5>1
        <5>3. \A k \in Kept(d)' : message'[k].by = Customer => message'[k].at < message'[n].at
          BY <1>2, <1>3, <1>7, <2>3, <2>4, <2>7, <4>1, <5>1
        <5> QED BY <5>2, <5>3
      <4>2. CASE n # m /\ old.by = Customer
        <5>1. n \in Kept(d) /\ message'[n].at = message[n].at /\ thread'[d].customerAt = old.now
          BY <1>7, <1>9, <2>3, <2>4, <2>9, <4>2
        <5>2. ~(message'[n].at > thread'[d].customerAt)
          BY <1>10, <2>2, <2>4, <2>6, <5>1
        <5>3. m \in Kept(d)' /\ message'[m].by = Customer /\ ~(message'[m].at < message'[n].at)
          BY <1>2, <1>3, <1>7, <2>3, <2>4, <2>6, <2>7, <4>2, <5>1
        <5> QED BY <5>2, <5>3
      <4>3. CASE n # m /\ old.by # Customer
        <5>1. /\ n \in Kept(d) /\ message[n].by # Customer
              /\ thread'[d].customerAt = thread[d].customerAt
          BY <1>7, <1>9, <2>3, <2>4, <3>4, <4>3
        <5>2. message[n].at > thread[d].customerAt
                <=> \A k \in Kept(d) : message[k].by = Customer => message[k].at < message[n].at
          BY <3>1, <5>1 DEF Turns
        <5>3. \A k \in Kept(d)' : message'[k].by = Customer => k \in Kept(d) /\ message[k].by = Customer
          BY <1>2, <1>3, <1>7, <2>3, <2>4, <4>3
        <5>4. \A k \in Kept(d) : k \in Kept(d)' /\ message'[k] = message[k]
          BY <1>7, <2>3, <2>4
        <5> QED BY <5>1, <5>2, <5>3, <5>4
      <4> QED BY <4>1, <4>2, <4>3
    <3> QED BY <3>2, <3>3, <3>4 DEF Turns
  <2> QED BY <2>5, <2>8, <2>9 DEF Agreed
<1> QED BY <1>4, <1>11, <1>12, <1>13, <1>14 DEF InboxInvariant

LEMMA InboxKeeps == IInv /\ InboxInvariant /\ [Next]_vars => InboxInvariant'
<1> SUFFICES ASSUME IInv, InboxInvariant, [Next]_vars PROVE InboxInvariant'
  OBVIOUS
<1>1. /\ TypeOK /\ clock \in Nat /\ clock <= clock
      /\ \A r \in Requests : request[r] \in Request /\ request[r].now <= clock
  BY StampsTyped DEF IInv, TypeOK, InboxInvariant, Stamped
<1>2. Idle \in Request /\ Idle.now <= clock /\ Idle.pc = "idle"
  BY <1>1, IdleRequest DEF Idle
<1>3. CASE UNCHANGED vars
  BY <1>3 DEF vars, InboxInvariant, Stamped, Dated, Agreed, SendsNext, PreviewNewest, Turns,
             AwaitingReply, Sending, Kept, Begun
<1>4. ASSUME NEW r \in Requests, NEW w \in Writers, NEW t \in Threads, StartSend(r, w, t)
      PROVE  InboxInvariant'
  <2>1. CASE Append(r, w, t)
    <3>1. request[r].pc \notin {"insert", "update"} /\ UNCHANGED <<thread, message>>
      BY <1>4 DEF StartSend
    <3> QED BY <2>1, <3>1, AppendInbox
  <2>2. CASE ~Append(r, w, t)
    <3> DEFINE q == [Idle EXCEPT !.pc = "create", !.thread = t, !.by = w]
    <3>1. request' = [request EXCEPT ![r] = q] /\ UNCHANGED <<thread, message, clock, crossed>>
      BY <1>4, <2>2 DEF StartSend, Goto
    <3>2. q \in Request /\ q.pc = "create" /\ q.now = 0
      BY IdleRequest DEF Idle, Request
    <3>3. q.now <= clock
      BY <1>1, <3>2
    <3> HIDE DEF q
    <3> QED BY <1>1, <3>1, <3>2, <3>3, QuietInbox
  <2> QED BY <2>1, <2>2
<1>5. ASSUME NEW r \in Requests, NEW v \in Staff, NEW t \in Threads,
             NEW page \in SUBSET Messages, Look(r, v, t, page)
      PROVE  InboxInvariant'
  <2> DEFINE q == [Idle EXCEPT !.pc = "mark", !.thread = t, !.by = v, !.page = page]
  <2>1. request' = [request EXCEPT ![r] = q] /\ UNCHANGED <<thread, message, clock, crossed>>
    BY <1>5 DEF Look, Goto
  <2>2. q \in Request /\ q.pc = "mark" /\ q.now = 0
    BY IdleRequest DEF Idle, Request, Writers
  <2>3. q.now <= clock
    BY <1>1, <2>2
  <2> HIDE DEF q
  <2> QED BY <1>1, <2>1, <2>2, <2>3, QuietInbox
<1>6. ASSUME NEW r \in Requests, Create(r) PROVE InboxInvariant'
  <2> DEFINE t == request[r].thread
             w == request[r].by
  <2>1. t \in Threads /\ w \in Writers /\ request[r].pc \notin {"insert", "update"}
    BY <1>6 DEF IInv, Prepared, Create
  <2>2. Append(r, w, t) /\ message' = message /\ thread' = [thread EXCEPT ![t].open = TRUE]
    BY <1>6 DEF Create
  <2>3. \A d \in Threads : /\ thread'[d].preview = thread[d].preview
                           /\ thread'[d].customerAt = thread[d].customerAt
                           /\ thread'[d].staffAt = thread[d].staffAt
    BY <1>1, <2>1, <2>2 DEF TypeOK, Thread
  <2> HIDE DEF t, w
  <2> QED BY <2>1, <2>2, <2>3, AppendInbox
<1>7. ASSUME NEW r \in Requests, Emit(r) PROVE InboxInvariant'
  <2> DEFINE q == [request[r] EXCEPT !.pc = "done"]
  <2>1. request' = [request EXCEPT ![r] = q] /\ UNCHANGED <<thread, message, clock, crossed>>
    BY <1>7 DEF Emit, Goto
  <2>2. q \in Request /\ q.pc = "done" /\ q.now <= clock
    BY <1>1 DEF Request
  <2> HIDE DEF q
  <2> QED BY <1>1, <2>1, <2>2, QuietInbox
<1>8. ASSUME NEW r \in Requests, Mark(r) PROVE InboxInvariant'
  <2> DEFINE q == [request[r] EXCEPT !.pc = "done"]
  <2>1. request' = [request EXCEPT ![r] = q] /\ UNCHANGED <<thread, message, crossed>>
    BY <1>8 DEF Mark, Goto
  <2>2. q \in Request /\ q.pc = "done" /\ q.now <= clock
    BY <1>1 DEF Request
  <2>3. clock' \in Nat /\ clock <= clock'
    BY <1>1, <1>8 DEF Mark, Stamp
  <2> HIDE DEF q
  <2> QED BY <1>1, <2>1, <2>2, <2>3, QuietInbox
<1>9. ASSUME NEW r \in Requests, Answer(r) \/ Die(r) PROVE InboxInvariant'
  <2>1. request' = [request EXCEPT ![r] = Idle] /\ UNCHANGED <<thread, clock, crossed>>
    BY <1>9 DEF Answer, Die, Goto
  <2>2. \A n \in Messages :
          \/ message'[n] = message[n]
          \/ request[r].pc = "update" /\ n = request[r].message /\ message'[n] = Unsent
    BY <1>1, <1>9 DEF Answer, Die, TypeOK
  <2> QED BY <1>1, <1>2, <2>1, <2>2, QuietInbox
<1>10. ASSUME NEW r \in Requests, Start(r) PROVE InboxInvariant'
  <2>1. \A t \in Threads : Page(t) \in SUBSET Messages
    BY DEF Page, Kept, Begun
  <2> QED BY <1>4, <1>5, <1>10, <2>1 DEF Start, StartRead, StartMark
<1>11. ASSUME NEW r \in Requests, Serve(r) PROVE InboxInvariant'
  BY <1>6, <1>7, <1>8, <1>11, InsertInbox, CommitInbox DEF Serve
<1> QED BY <1>3, <1>9, <1>10, <1>11 DEF Next

(* The newest of a thread is its preview; that it is the only one rests on *)
(* no two stamps being equal.                                              *)
LEMMA InboxReads == IInv /\ InboxInvariant => InboxAgrees
<1> SUFFICES ASSUME IInv, InboxInvariant, NEW t \in Threads \ crossed
             PROVE  /\ {thread[t].preview} \ {None} = Newest(Kept(t))
                    /\ t \notin TeamThreads =>
                         /\ AwaitingReply(t) <=> Newest(Kept(t)) \cap ByCustomer(t) # {}
                         /\ CustomerUnread(t) = {m \in Kept(t) \ ByCustomer(t) :
                              \A n \in ByCustomer(t) : message[n].at < message[m].at}
  BY DEF InboxAgrees
<1>1. Agreed(t)
  BY DEF InboxInvariant
<1>2. \A m \in Kept(t) : m \in Messages /\ m # None /\ message[m].at \in Nat
  BY StampsTyped, MessagingAssumption DEF Kept, Begun, IInv
<1>3. {thread[t].preview} \ {None} = Newest(Kept(t))
  <2>1. CASE Kept(t) = {} /\ thread[t].preview = None
    BY <2>1 DEF Newest
  <2>2. CASE /\ thread[t].preview \in Kept(t)
             /\ \A n \in Kept(t) \ {thread[t].preview} :
                  message[n].at < message[thread[t].preview].at
    <3>1. \A n \in Kept(t) : message[n].at <= message[thread[t].preview].at
      BY <1>2, <2>2
    <3>2. \A n \in Newest(Kept(t)) : n = thread[t].preview
      BY <1>2, <2>2 DEF Newest
    <3>3. thread[t].preview \in Newest(Kept(t))
      BY <2>2, <3>1 DEF Newest
    <3> QED BY <1>2, <2>2, <3>2, <3>3
  <2> QED BY <1>1, <2>1, <2>2 DEF Agreed, PreviewNewest
<1>4. ASSUME t \notin TeamThreads
      PROVE  AwaitingReply(t) <=> Newest(Kept(t)) \cap ByCustomer(t) # {}
  <2>1. AwaitingReply(t) <=> \E m \in Kept(t) : m = thread[t].preview /\ message[m].by = Customer
    BY <1>1, <1>4 DEF Agreed, Turns
  <2> QED BY <1>2, <1>3, <2>1 DEF ByCustomer
<1>5. ASSUME t \notin TeamThreads
      PROVE  CustomerUnread(t) = {m \in Kept(t) \ ByCustomer(t) :
                                    \A n \in ByCustomer(t) : message[n].at < message[m].at}
  <2>1. \A m \in Kept(t) : message[m].by # Customer =>
          (message[m].at > thread[t].customerAt
             <=> \A n \in Kept(t) : message[n].by = Customer => message[n].at < message[m].at)
    BY <1>1, <1>5 DEF Agreed, Turns
  <2> QED BY <2>1 DEF CustomerUnread, ByCustomer
<1> QED BY <1>3, <1>4, <1>5

(***************************************************************************)
(* Where no two sends overlapped, the preview is the newest message, a     *)
(* reply is awaited just when that one is the customer's, and the customer *)
(* has unread what staff wrote after the customer's last: the times that   *)
(* are kept are not those of the messages, yet fall between them.          *)
(***************************************************************************)
THEOREM InboxTold == Spec => []InboxAgrees
<1>1. Init => InboxInvariant
  BY InitInbox
<1>2. IInv /\ InboxInvariant /\ [Next]_vars => InboxInvariant'
  BY InboxKeeps
<1> QED BY <1>1, <1>2, Inductive, InboxReads, PTL DEF Spec

=============================================================================

---------------------------- MODULE OwnershipProofs ----------------------------
(* Theorems about Ownership for any accounts, customers and requests.      *)
EXTENDS Ownership, TLAPS

StaffType == [Staff -> Account]
CustomersType == [Customers -> Customer]
RequestsType == [Requests -> Request]

(* What a request carries at the step it is about to take.                 *)
Form(q) ==
  /\ q.pc = "resolve" => /\ q.kind \in {"create", "reassign", "approve", "store", "move"}
                         /\ q.account \in Staff /\ q.own = Unowned
                         /\ q.kind \in {"store", "move"} => q.account \in Managers /\ q.store \in Stores
  /\ q.pc = "save" => q.kind \in {"create", "reassign", "approve", "status"}
  /\ q.pc \in {"insert", "cascade", "commit"} =>
       q.account \in Managers /\ q.store \in Stores /\ q.own = Unowned
  /\ q.pc \in {"cascade", "commit"} => q.kind = "move"
  /\ q.pc = "delete" => q.account \in Staff /\ q.own = Unowned
  /\ q.kind = "approve" => \E c \in Customers : q.targets = {c}

(* The resolved columns are the store's, unless it has moved since.        *)
Holds(q) ==
  q.own.store # None =>
    /\ staff[q.own.store].status # "none"
    /\ ~q.overtaken => q.own.manager = staff[q.own.store].parent

(* The manager a store is to come under is there, unless it was removed    *)
(* since.                                                                  *)
Attaches(q) ==
  q.pc \in {"insert", "cascade", "commit"} /\ ~q.overtaken => staff[q.account].status # "deleted"

(* The account about to be removed has no report but late ones.            *)
Removes(q) ==
  q.pc = "delete" =>
    /\ staff[q.account].status # "none"
    /\ \A s \in Stores : Present(s) /\ staff[s].parent = q.account => staff[s].late

(* The customers a move has locked are the store's.                        *)
Locks(q) ==
  q.pc = "commit" => \A c \in q.targets : customer[c].own.store = q.store

(* The customers about to be written are there, and one whose approval is  *)
(* alone is still pending.                                                 *)
Aims(q) ==
  q.pc \in {"resolve", "save"} =>
    /\ q.kind \in {"reassign", "approve", "status"} =>
         \A c \in q.targets : customer[c].status # "none"
    /\ q.kind = "approve" /\ ~q.second => \A c \in q.targets : customer[c].status = "pending"

Sound(q) == Form(q) /\ Holds(q) /\ Attaches(q) /\ Removes(q) /\ Locks(q) /\ Aims(q)

Rooted == \A s \in Stores : staff[s].status # "none" => staff[s].parent \in Managers

Owned ==
  \A c \in Customers :
    /\ customer[c].own.store # None => staff[customer[c].own.store].status # "none"
    /\ customer[c].status \in {"none", "pending"} => customer[c].own = Unowned

IInv ==
  /\ TypeOK
  /\ Rooted
  /\ Owned
  /\ \A r \in Requests : Sound(request[r])
  /\ ManagerFollowsStore
  /\ NoOrphanStore
-----------------------------------------------------------------------------

LEMMA Disjoint ==
  /\ \A m \in Managers, s \in Stores : m # s
  /\ \A m \in Managers : m \in Staff /\ m # None
  /\ \A s \in Stores : s \in Staff /\ s # None
<1>1. \A x : ~(x \in Managers /\ x \in Stores)
  BY OwnershipAssumption
<1>2. Managers \subseteq Staff /\ Stores \subseteq Staff
  BY DEF Staff
<1> QED BY <1>1, <1>2, OwnershipAssumption

LEMMA EmptyRequest == Idle \in Request /\ Sound(Idle)
<1>1. Idle \in Request
  BY DEF Idle, Request, Columns, Unowned
<1>2. Idle.pc = "idle" /\ Idle.kind = None /\ Idle.own.store = None
  BY DEF Idle, Unowned
<1>3. Sound(Idle)
  BY <1>2, KindsAssumption DEF Kinds, Sound, Form, Holds, Attaches, Removes, Locks, Aims
<1> QED BY <1>1, <1>3

LEMMA BecomesIdle ==
  ASSUME NEW p \in Requests, request'[p] = Idle
  PROVE  Sound(request[p])'
<1>1. request'[p].pc = "idle" /\ request'[p].kind = None /\ request'[p].own.store = None
  BY DEF Idle, Unowned
<1> QED BY <1>1, KindsAssumption DEF Kinds, Sound, Form, Holds, Attaches, Removes, Locks, Aims

(* The flags of history keep a request's type.                             *)
LEMMA Flagged ==
  \A q \in Request, b \in BOOLEAN :
    [q EXCEPT !.second = b] \in Request /\ [q EXCEPT !.overtaken = b] \in Request
BY DEF Request

LEMMA InitIInv == Init => IInv
<1> SUFFICES ASSUME Init PROVE IInv
  OBVIOUS
<1>1. staff \in StaffType
  BY DEF Init, StaffType, Account
<1>2. customer \in CustomersType
  BY DEF Init, CustomersType, Customer, Columns, Unowned
<1>3. request \in RequestsType
  BY EmptyRequest DEF Init, RequestsType
<1>4. \A r \in Requests : Sound(request[r])
  BY EmptyRequest DEF Init
<1>5. Rooted /\ NoOrphanStore
  BY DEF Init, Rooted, NoOrphanStore, Present, Staff
<1>6. Owned /\ ManagerFollowsStore
  BY DEF Init, Owned, ManagerFollowsStore, Unowned
<1> QED BY <1>1, <1>2, <1>3, <1>4, <1>5, <1>6
     DEF IInv, TypeOK, StaffType, CustomersType, RequestsType

(* A step of one request that leaves both tables alone.                    *)
LEMMA RequestMoves ==
  ASSUME IInv, NEW r \in Requests, NEW q \in Request, Sound(q),
         request' = [request EXCEPT ![r] = q], UNCHANGED <<staff, customer>>
  PROVE  IInv'
<1>1. request' \in RequestsType
  BY DEF IInv, TypeOK, RequestsType
<1>2. TypeOK'
  BY <1>1 DEF IInv, TypeOK, RequestsType
<1>3. \A p \in Requests : request'[p] = IF p = r THEN q ELSE request[p]
  BY DEF IInv, TypeOK
<1>4. \A p \in Requests : Sound(request[p])'
  BY <1>3 DEF IInv, Sound, Form, Holds, Attaches, Removes, Locks, Aims, Present
<1>5. Rooted' /\ Owned' /\ ManagerFollowsStore' /\ NoOrphanStore'
  BY DEF IInv, Rooted, Owned, ManagerFollowsStore, NoOrphanStore, Present
<1> QED BY <1>2, <1>4, <1>5 DEF IInv

(* Requests that start with an owner to look up.                           *)
LEMMA Assigning ==
  ASSUME NEW kind \in {"create", "reassign", "approve"}, NEW C \in SUBSET Customers,
         NEW owner \in Staff,
         kind = "reassign" => \A c \in C : customer[c].status # "none",
         kind = "approve" => \E c \in Customers : C = {c} /\ customer[c].status = "pending"
  PROVE  Assign(kind, C, owner) \in Request /\ Sound(Assign(kind, C, owner))
BY OwnershipAssumption
   DEF Assign, Idle, Request, Kinds, Columns, Unowned, Sound, Form, Holds, Attaches,
       Removes, Locks, Aims

LEMMA StartIInv ==
  ASSUME IInv, NEW r \in Requests, Start(r)
  PROVE  IInv'
<1>1. ASSUME NEW C \in SUBSET Customers, NEW a \in Staff, StartCreate(r, C, a)
      PROVE  IInv'
  BY <1>1, Assigning, RequestMoves DEF StartCreate, Begin
<1>2. ASSUME NEW C \in SUBSET Customers, NEW a \in Staff, StartReassign(r, C, a)
      PROVE  IInv'
  <2>1. CASE \E c \in Customers : C = {c} /\ Found(c) /\ Begin(r, Assign("reassign", C, a))
    BY <1>2, <2>1, Assigning, RequestMoves DEF StartReassign, Begin, Found
  <2>2. CASE Begin(r, Assign("reassign", Permitted(C), a))
    <3>1. Permitted(C) \in SUBSET Customers
          /\ \A c \in Permitted(C) : customer[c].status # "none"
      BY DEF Permitted, Found
    <3> QED BY <1>2, <2>2, <3>1, Assigning, RequestMoves DEF StartReassign, Begin
  <2> QED BY <1>2, <2>1, <2>2 DEF StartReassign
<1>3. ASSUME NEW C \in SUBSET Customers, NEW status \in {"active", "blocked"},
             StartStatus(r, C, status)
      PROVE  IInv'
  <2> DEFINE q == [Idle EXCEPT !.kind = "status", !.pc = "save",
                     !.targets = Permitted(C), !.status = status]
  <2>1. Permitted(C) \in SUBSET Customers
        /\ \A c \in Permitted(C) : customer[c].status # "none"
    BY DEF Permitted, Found
  <2>2. q \in Request
    BY <2>1 DEF Idle, Request, Kinds, Columns, Unowned
  <2>3. Sound(q)
    BY <2>1 DEF Idle, Unowned, Sound, Form, Holds, Attaches, Removes, Locks, Aims
  <2> QED BY <1>3, <2>2, <2>3, RequestMoves DEF StartStatus, Begin
<1>4. ASSUME NEW c \in Customers, NEW a \in Staff, StartApprove(r, c, a)
      PROVE  IInv'
  BY <1>4, Assigning, RequestMoves DEF StartApprove, Begin
<1>5. ASSUME NEW s \in Stores, NEW m \in Managers, StartStore(r, s, m)
      PROVE  IInv'
  <2> DEFINE q1 == [Idle EXCEPT !.kind = "store", !.pc = "resolve", !.store = s, !.account = m]
             q2 == [Idle EXCEPT !.kind = "store", !.pc = "insert", !.store = s, !.account = m,
                       !.overtaken = (staff[m].status = "deleted")]
  <2>1. q1 \in Request /\ q2 \in Request
    BY DEF Idle, Request, Kinds, Columns, Unowned, Staff
  <2>2. Sound(q1) /\ Sound(q2)
    BY DEF Idle, Unowned, Sound, Form, Holds, Attaches, Removes, Locks, Aims, Staff
  <2> QED BY <1>5, <2>1, <2>2, RequestMoves DEF StartStore, Begin
<1>6. ASSUME NEW s \in Stores, NEW m \in Managers, StartMove(r, s, m)
      PROVE  IInv'
  <2> DEFINE q == [Idle EXCEPT !.kind = "move", !.pc = "resolve", !.store = s, !.account = m]
  <2>1. q \in Request
    BY DEF Idle, Request, Kinds, Columns, Unowned, Staff
  <2>2. Sound(q)
    BY DEF Idle, Unowned, Sound, Form, Holds, Attaches, Removes, Locks, Aims, Staff
  <2> QED BY <1>6, <2>1, <2>2, RequestMoves DEF StartMove, Begin
<1>7. ASSUME NEW a \in Staff, StartRemove(r, a)
      PROVE  IInv'
  <2> DEFINE q == [Idle EXCEPT !.kind = "remove", !.pc = "delete", !.account = a]
  <2>1. q \in Request
    BY DEF Idle, Request, Kinds, Columns, Unowned
  <2>2. Sound(q)
    BY <1>7 DEF StartRemove, Present, Reports, Idle, Unowned, Sound, Form, Holds, Attaches, Removes,
       Locks, Aims
  <2> QED BY <1>7, <2>1, <2>2, RequestMoves DEF StartRemove, Begin
<1> QED BY <1>1, <1>2, <1>3, <1>4, <1>5, <1>6, <1>7 DEF Start

LEMMA ResolveIInv ==
  ASSUME IInv, NEW r \in Requests, Resolve(r)
  PROVE  IInv'
<1> DEFINE q == request[r]
<1>1. q \in Request /\ Sound(q) /\ q.pc = "resolve" /\ q.account \in Staff
  BY DEF IInv, TypeOK, Resolve, Sound, Form
<1>2. CASE staff[q.account].status # "active"
  BY <1>2, EmptyRequest, RequestMoves DEF Resolve, Goto
<1>3. CASE staff[q.account].status = "active" /\ q.kind = "move"
  <2> DEFINE new == [q EXCEPT !.pc = "cascade"]
  <2>1. new \in Request
    BY <1>1 DEF Request
  <2>2. Sound(new)
    BY <1>1, <1>3 DEF Request, Sound, Form, Holds, Attaches, Removes, Locks, Aims
  <2> QED BY <1>3, <2>1, <2>2, RequestMoves DEF Resolve, Goto
<1>4. CASE staff[q.account].status = "active" /\ q.kind = "store"
  <2> DEFINE new == [q EXCEPT !.pc = "insert"]
  <2>1. new \in Request
    BY <1>1 DEF Request
  <2>2. Sound(new)
    BY <1>1, <1>4 DEF Request, Sound, Form, Holds, Attaches, Removes, Locks, Aims
  <2> QED BY <1>4, <2>1, <2>2, RequestMoves DEF Resolve, Goto
<1>5. CASE staff[q.account].status = "active" /\ q.kind \notin {"move", "store"}
  <2> DEFINE own == OwnedBy(q.account)
             new == [q EXCEPT !.pc = "save", !.own = own]
  <2>1. own \in Columns
    BY <1>1 DEF OwnedBy, Columns, Staff, IInv, TypeOK, Account
  <2>2. own.store # None =>
          staff[own.store].status = "active" /\ own.manager = staff[own.store].parent
    BY <1>1, <1>5 DEF OwnedBy
  <2> HIDE DEF own
  <2>3. new \in Request
    BY <1>1, <2>1 DEF Request
  <2>4. new.pc = "save" /\ new.own = own /\ new.kind = q.kind /\ new.targets = q.targets
        /\ new.second = q.second
    BY <1>1 DEF Request
  <2>5. Form(new) /\ Holds(new)
    BY <1>1, <1>5, <2>2, <2>4 DEF Sound, Form, Holds
  <2>6. Attaches(new) /\ Removes(new) /\ Locks(new) /\ Aims(new)
    BY <1>1, <2>4 DEF Sound, Attaches, Removes, Locks, Aims
  <2>7. request' = [request EXCEPT ![r] = new] /\ UNCHANGED <<staff, customer>>
    BY <1>5 DEF Resolve, Goto, own
  <2> HIDE DEF new
  <2> QED BY <2>3, <2>5, <2>6, <2>7, RequestMoves DEF Sound
<1> QED BY <1>2, <1>3, <1>4, <1>5

LEMMA CascadeIInv ==
  ASSUME IInv, NEW r \in Requests, Cascade(r)
  PROVE  IInv'
<1> DEFINE q == request[r]
           T == {c \in Customers : customer[c].own.store = q.store}
           new == [q EXCEPT !.pc = "commit", !.targets = T]
<1>1. q \in Request /\ Sound(q) /\ q.pc = "cascade"
  BY DEF IInv, TypeOK, Cascade, Sound, Form
<1>2. new \in Request
  BY <1>1 DEF Request
<1>3. Sound(new)
  BY <1>1 DEF Request, Sound, Form, Holds, Attaches, Removes, Locks, Aims
<1> QED BY <1>1, <1>2, <1>3, RequestMoves DEF Cascade, Goto

LEMMA DieIInv ==
  ASSUME IInv, NEW r \in Requests, Die(r)
  PROVE  IInv'
BY EmptyRequest, RequestMoves DEF Die, Goto

(* The row a statement leaves.                                             *)
LEMMA WrittenRow ==
  ASSUME IInv, NEW q \in Request, Sound(q), q.pc = "save", NEW c \in q.targets,
         Allowed(q)
  PROVE  /\ Written(c, q) \in Customer
         /\ Written(c, q).status # "none"
         /\ Written(c, q).status = "pending" => Written(c, q).own = Unowned
         /\ \/ Written(c, q).own = q.own /\ Written(c, q).crossed = q.overtaken
            \/ /\ Written(c, q).own = customer[c].own
               /\ Written(c, q).crossed = customer[c].crossed
<1> DEFINE w == Written(c, q)
<1>1. customer[c] \in Customer /\ Consistent(w)
  BY DEF IInv, TypeOK, Request, Allowed
<1>2. CASE q.kind = "create"
  BY <1>1, <1>2 DEF Written, Customer, Request, Consistent
<1>3. CASE q.kind = "reassign"
  BY <1>1, <1>3 DEF Written, Customer, Request, Consistent, Sound, Aims
<1>4. CASE q.kind = "approve"
  BY <1>1, <1>4 DEF Written, Customer, Request, Consistent
<1>5. CASE q.kind = "status"
  BY <1>1, <1>5 DEF Written, Customer, Request, Consistent
<1> QED BY <1>2, <1>3, <1>4, <1>5 DEF Sound, Form

LEMMA SaveIInv ==
  ASSUME IInv, NEW r \in Requests, Save(r)
  PROVE  IInv'
<1> DEFINE q == request[r]
<1>1. q \in Request /\ Sound(q) /\ q.pc = "save" /\ q.targets \in SUBSET Customers
      /\ UNCHANGED staff
  BY DEF IInv, TypeOK, Save, Request
<1> HIDE DEF q
<1>2. CASE Allowed(q)
  <2>1. \A c \in Customers :
          customer'[c] = IF c \in q.targets THEN Written(c, q) ELSE customer[c]
    BY <1>2 DEF Save, q
  <2>2. customer' = [c \in Customers |-> customer'[c]]
    BY DEF Save
  <2>3. \A p \in Requests :
          request'[p] = IF p = r THEN Idle
                        ELSE IF Approves(request[p], q) THEN [request[p] EXCEPT !.second = TRUE]
                        ELSE request[p]
    BY DEF Save, q
  <2>4. request' = [p \in Requests |-> request'[p]]
    BY DEF Save
  <2>5. TypeOK'
    <3>1. \A c \in Customers : customer'[c] \in Customer
      BY <1>1, <1>2, <2>1, WrittenRow DEF IInv, TypeOK
    <3>2. \A p \in Requests : request'[p] \in Request
      BY <2>3, EmptyRequest, Flagged DEF IInv, TypeOK
    <3> QED BY <1>1, <2>2, <2>4, <3>1, <3>2 DEF IInv, TypeOK
  <2>6. Owned' /\ ManagerFollowsStore'
    <3> SUFFICES ASSUME NEW c \in Customers
                 PROVE  /\ customer'[c].own.store # None =>
                             /\ staff[customer'[c].own.store].status # "none"
                             /\ ~customer'[c].crossed =>
                                  customer'[c].own.manager = staff[customer'[c].own.store].parent
                        /\ customer'[c].status \in {"none", "pending"} =>
                             customer'[c].own = Unowned
      BY <1>1 DEF Owned, ManagerFollowsStore
    <3>1. CASE c \in q.targets
      <4>1. customer'[c] = Written(c, q)
        BY <2>1, <3>1
      <4>2. Holds(q)
        BY <1>1 DEF Sound
      <4> QED BY <1>1, <1>2, <4>1, <4>2, <3>1, WrittenRow
              DEF Holds, IInv, Owned, ManagerFollowsStore
    <3>2. CASE c \notin q.targets
      BY <2>1, <3>2 DEF IInv, Owned, ManagerFollowsStore
    <3> QED BY <3>1, <3>2
  <2>7. ASSUME NEW p \in Requests
        PROVE  Sound(request[p])'
    <3>1. CASE p = r
      BY <2>3, <3>1, BecomesIdle
    <3>2. CASE p # r
      <4> DEFINE o == request[p]
      <4>1. o \in Request /\ Sound(o)
        BY DEF IInv, TypeOK
      <4>2. /\ request'[p].pc = o.pc /\ request'[p].kind = o.kind
            /\ request'[p].targets = o.targets /\ request'[p].account = o.account
            /\ request'[p].store = o.store /\ request'[p].own = o.own
            /\ request'[p].overtaken = o.overtaken
            /\ request'[p].second = (o.second \/ Approves(o, q))
        BY <2>3, <3>2, <4>1 DEF Request
      <4> HIDE DEF o
      <4>3. Form(request[p])' /\ Holds(request[p])' /\ Attaches(request[p])' /\ Removes(request[p])'
        BY <1>1, <4>1, <4>2 DEF Sound, Form, Holds, Attaches, Removes, Present
      <4>4. Locks(request[p])'
        <5>1. o.pc = "commit" => \A c \in o.targets : c \notin q.targets
          BY DEF Save, LockedCustomer, o, q
        <5>2. o.targets \in SUBSET Customers
          BY <4>1 DEF Request
        <5> QED BY <2>1, <4>1, <4>2, <5>1, <5>2 DEF Sound, Locks
      <4>5. Aims(request[p])'
        <5> SUFFICES ASSUME o.pc \in {"resolve", "save"}, NEW c \in o.targets
                     PROVE  /\ o.kind \in {"reassign", "approve", "status"} =>
                                 customer'[c].status # "none"
                            /\ o.kind = "approve" /\ ~o.second /\ ~Approves(o, q) =>
                                 customer'[c].status = "pending"
          BY <4>2 DEF Aims
        <5>1. c \in Customers
          BY <4>1 DEF Request
        <5>2. o.kind \in {"reassign", "approve", "status"} => customer'[c].status # "none"
          BY <1>1, <1>2, <2>1, <4>1, <5>1, WrittenRow DEF Sound, Aims
        <5>3. ASSUME o.kind = "approve", ~o.second, ~Approves(o, q), c \in q.targets
              PROVE  customer'[c].status = "pending"
          <6>1. customer[c].status = "pending" /\ customer[c].own = Unowned
            BY <4>1, <5>1, <5>3 DEF Sound, Aims, IInv, Owned
          <6>2. q.kind # "approve"
            BY <1>1, <4>1, <5>3 DEF Approves, Sound, Form
          <6>3. q.kind # "create" /\ Consistent(Written(c, q))
            BY <1>2, <5>3, <6>1 DEF Allowed
          <6>4. customer[c] \in Customer /\ q.status # "pending"
            BY <1>1, <5>1 DEF IInv, TypeOK, Request
          <6>5. q.kind # "status"
            BY <6>1, <6>3, <6>4 DEF Consistent, Written, Unowned, Customer
          <6>6. Written(c, q).status = "pending"
            BY <1>1, <6>1, <6>2, <6>3, <6>4, <6>5 DEF Sound, Form, Written, Customer
          <6> QED BY <2>1, <5>1, <5>3, <6>6
        <5>4. ASSUME o.kind = "approve", ~o.second, c \notin q.targets
              PROVE  customer'[c].status = "pending"
          BY <2>1, <4>1, <5>1, <5>4 DEF Sound, Aims
        <5> QED BY <5>2, <5>3, <5>4
      <4> QED BY <4>3, <4>4, <4>5 DEF Sound
    <3> QED BY <3>1, <3>2
  <2>8. Rooted' /\ NoOrphanStore'
    BY <1>1 DEF IInv, Rooted, NoOrphanStore, Present
  <2> QED BY <2>5, <2>6, <2>7, <2>8 DEF IInv
<1>3. CASE ~Allowed(q)
  <2>1. \A c \in Customers : customer'[c] = customer[c]
    BY <1>3 DEF Save, q
  <2>2. customer' = customer
    BY <2>1 DEF Save, IInv, TypeOK
  <2>3. \A p \in Requests :
          request'[p] = IF p = r THEN Idle
                        ELSE IF Approves(request[p], q) THEN [request[p] EXCEPT !.second = TRUE]
                        ELSE request[p]
    BY DEF Save, q
  <2>4. request' = [p \in Requests |-> request'[p]]
    BY DEF Save
  <2>5. TypeOK'
    <3>1. \A p \in Requests : request'[p] \in Request
      BY <2>3, EmptyRequest, Flagged DEF IInv, TypeOK
    <3> QED BY <1>1, <2>2, <2>4, <3>1 DEF IInv, TypeOK
  <2>6. \A p \in Requests : Sound(request[p])'
    <3> SUFFICES ASSUME NEW p \in Requests PROVE Sound(request[p])'
      OBVIOUS
    <3> DEFINE o == request[p]
    <3>1. o \in Request /\ Sound(o)
      BY DEF IInv, TypeOK
    <3>2. CASE p = r
      BY <2>3, <3>2, BecomesIdle
    <3>3. CASE p # r
      <4>1. /\ request'[p].pc = o.pc /\ request'[p].kind = o.kind
            /\ request'[p].targets = o.targets /\ request'[p].account = o.account
            /\ request'[p].store = o.store /\ request'[p].own = o.own
            /\ request'[p].overtaken = o.overtaken
            /\ ~request'[p].second => ~o.second
        BY <2>3, <3>1, <3>3 DEF Request
      <4> HIDE DEF o
      <4> QED BY <1>1, <2>2, <3>1, <4>1
              DEF Sound, Form, Holds, Attaches, Removes, Locks, Aims, Present
    <3> QED BY <3>2, <3>3
  <2>7. Rooted' /\ Owned' /\ ManagerFollowsStore' /\ NoOrphanStore'
    BY <1>1, <2>2 DEF IInv, Rooted, Owned, ManagerFollowsStore, NoOrphanStore, Present
  <2> QED BY <2>5, <2>6, <2>7 DEF IInv
<1> QED BY <1>2, <1>3

LEMMA InsertStoreIInv ==
  ASSUME IInv, NEW r \in Requests, InsertStore(r)
  PROVE  IInv'
<1> DEFINE q == request[r]
           m == q.account
           s == q.store
<1>1. q \in Request /\ Sound(q) /\ q.pc = "insert" /\ m \in Managers /\ s \in Stores
      /\ UNCHANGED customer
  BY DEF IInv, TypeOK, InsertStore, Sound, Form
<1>2. CASE staff[s].status # "none"
  BY <1>1, <1>2, EmptyRequest, RequestMoves DEF InsertStore, Goto
<1>3. CASE staff[s].status = "none"
  <2> DEFINE new == Under(q, "active")
  <2>1. new \in Account /\ new.parent = m /\ new.status = "active"
        /\ new.late = (q.overtaken \/ Removing(m))
    BY <1>1 DEF Under, Account, Request, Removing
  <2> HIDE DEF new
  <2>2. staff' = [staff EXCEPT ![s] = new] /\ request' = [request EXCEPT ![r] = Idle]
    BY <1>3 DEF InsertStore, Goto, new
  <2>3. \A a \in Staff : staff'[a] = IF a = s THEN new ELSE staff[a]
    BY <2>2 DEF IInv, TypeOK
  <2>4. \A p \in Requests : request'[p] = IF p = r THEN Idle ELSE request[p]
    BY <2>2 DEF IInv, TypeOK
  <2>5. TypeOK'
    BY <1>1, <2>1, <2>2, EmptyRequest DEF IInv, TypeOK
  <2>6. s \in Staff /\ m \in Staff /\ m # s /\ Stores \subseteq Staff /\ Managers \subseteq Staff
    BY <1>1, OwnershipAssumption DEF Staff
  <2>7. Rooted' /\ NoOrphanStore'
    <3>1. staff[m].status = "deleted" => q.overtaken
      BY <1>1 DEF Sound, Attaches
    <3>2. \A x \in Managers : x \in Staff /\ staff'[x] = staff[x]
      BY <1>1, <2>3, Disjoint
    <3>3. Rooted'
      BY <1>1, <2>1, <2>3, <2>6 DEF IInv, Rooted
    <3>4. ASSUME NEW t \in Stores, Present(t)', staff'[staff'[t].parent].status = "deleted"
          PROVE  staff'[t].late
      <4>1. CASE t = s
        BY <2>1, <2>3, <2>6, <3>1, <3>2, <3>4, <4>1, <1>1
      <4>2. CASE t # s
        <5>1. staff'[t] = staff[t] /\ Present(t) /\ staff[t].parent \in Managers
          BY <2>3, <2>6, <3>4, <4>2 DEF Present, IInv, Rooted
        <5> QED BY <3>2, <3>4, <5>1 DEF IInv, NoOrphanStore
      <4> QED BY <4>1, <4>2
    <3> QED BY <3>3, <3>4 DEF NoOrphanStore
  <2>8. Owned' /\ ManagerFollowsStore'
    <3>1. \A c \in Customers : customer[c].own.store # s /\ customer[c].own.store \in Stores \cup {None}
      BY <1>3, <2>6, OwnershipAssumption DEF IInv, TypeOK, Owned, Customer, Columns
    <3> QED BY <1>1, <2>3, <2>6, <3>1 DEF IInv, Owned, ManagerFollowsStore
  <2>9. ASSUME NEW p \in Requests
        PROVE  Sound(request[p])'
    <3>1. CASE p = r
      BY <2>4, <3>1, BecomesIdle
    <3>2. CASE p # r
      <4> DEFINE o == request[p]
      <4>1. o \in Request /\ Sound(o) /\ request'[p] = o
        BY <2>4, <3>2 DEF IInv, TypeOK
      <4>2. Form(request[p])' /\ Locks(request[p])' /\ Aims(request[p])'
        BY <1>1, <4>1 DEF Sound, Form, Locks, Aims
      <4>3. Holds(request[p])'
        <5>1. o.own.store # s /\ o.own.store \in Stores \cup {None}
          BY <1>3, <2>6, <4>1, OwnershipAssumption DEF Sound, Holds, Request, Columns
        <5> QED BY <2>3, <2>6, <4>1, <5>1 DEF Sound, Holds
      <4>4. Attaches(request[p])'
        <5>1. \A x \in Managers : x \in Staff /\ staff'[x] = staff[x]
          BY <1>1, <2>3, Disjoint
        <5> QED BY <4>1, <5>1 DEF Sound, Attaches, Form
      <4>5. Removes(request[p])'
        <5>1. o.pc = "delete" /\ o.account = m => new.late
          BY <2>1 DEF Removing
        <5> QED BY <2>1, <2>3, <2>6, <4>1, <5>1 DEF Sound, Form, Removes, Present
      <4> QED BY <4>2, <4>3, <4>4, <4>5 DEF Sound
    <3> QED BY <3>1, <3>2
  <2> QED BY <2>5, <2>7, <2>8, <2>9 DEF IInv
<1> QED BY <1>2, <1>3

(* Accounts whose status alone changes: setActive, a new manager, remove.  *)
LEMMA StatusChanges ==
  ASSUME IInv, NEW a \in Staff, NEW status \in {"active", "inactive", "deleted"},
         staff' = [staff EXCEPT ![a].status = status],
         UNCHANGED customer,
         a \in Stores => staff[a].status # "none" /\ (status # "deleted" => Present(a)),
         status = "deleted" =>
           \A s \in Stores : Present(s) /\ staff[s].parent = a => staff[s].late
  PROVE  staff' \in StaffType /\ Rooted' /\ Owned' /\ ManagerFollowsStore' /\ NoOrphanStore'
<1>1. staff[a] \in Account /\ Stores \subseteq Staff /\ Managers \subseteq Staff
  BY DEF IInv, TypeOK, Staff
<1>2. \A x \in Staff : /\ staff'[x].parent = staff[x].parent
                       /\ staff'[x].late = staff[x].late
                       /\ staff'[x].status = IF x = a THEN status ELSE staff[x].status
  BY <1>1 DEF IInv, TypeOK, Account
<1>3. staff' \in StaffType
  BY <1>1 DEF IInv, TypeOK, StaffType, Account
<1>4. Rooted'
  BY <1>1, <1>2 DEF IInv, Rooted, Present
<1>5. Owned' /\ ManagerFollowsStore'
  <2>1. \A c \in Customers : customer[c].own.store \in Stores \cup {None}
    BY DEF IInv, TypeOK, Customer, Columns
  <2> QED BY <1>1, <1>2, <2>1 DEF IInv, Owned, ManagerFollowsStore
<1>6. ASSUME NEW s \in Stores, Present(s)', staff'[staff'[s].parent].status = "deleted"
      PROVE  staff'[s].late
  <2>1. Present(s) /\ staff[s].parent \in Managers
    BY <1>1, <1>2, <1>6 DEF IInv, Rooted, Present
  <2>2. CASE staff[s].parent = a /\ status = "deleted"
    BY <1>1, <1>2, <2>1, <2>2
  <2>3. CASE staff[s].parent # a \/ status # "deleted"
    BY <1>1, <1>2, <1>6, <2>1, <2>3 DEF IInv, NoOrphanStore
  <2> QED BY <2>2, <2>3
<1> QED BY <1>3, <1>4, <1>5, <1>6 DEF NoOrphanStore

LEMMA SetActiveIInv ==
  ASSUME IInv, NEW a \in Staff, SetActive(a)
  PROVE  IInv'
<1>1. PICK status \in {"active", "inactive"} : staff' = [staff EXCEPT ![a].status = status]
  BY DEF SetActive
<1>2. staff' \in StaffType /\ Rooted' /\ Owned' /\ ManagerFollowsStore' /\ NoOrphanStore'
  BY <1>1, StatusChanges DEF SetActive, Present
<1>3. /\ staff[a] \in Account
      /\ \A x \in Staff : /\ staff'[x].parent = staff[x].parent
                          /\ staff'[x].late = staff[x].late
                          /\ staff'[x].status = IF x = a THEN status ELSE staff[x].status
  BY <1>1 DEF IInv, TypeOK, Account
<1>4. ASSUME NEW p \in Requests PROVE Sound(request[p])'
  <2> DEFINE o == request[p]
  <2>1. o \in Request /\ Sound(o) /\ request'[p] = o /\ customer' = customer
    BY DEF IInv, TypeOK, SetActive
  <2>2. Form(request[p])' /\ Locks(request[p])' /\ Aims(request[p])'
    BY <2>1 DEF Sound, Form, Locks, Aims
  <2>3. Holds(request[p])'
    <3>1. o.own.store \in Stores \cup {None}
      BY <2>1 DEF Request, Columns
    <3> QED BY <1>3, <2>1, <3>1, Disjoint DEF Sound, Holds
  <2>4. Attaches(request[p])'
    BY <1>3, <2>1, Disjoint DEF Sound, Attaches, Form
  <2>5. Removes(request[p])'
    <3>1. \A s \in Stores : Present(s)' => Present(s)
      BY <1>3, Disjoint DEF Present, SetActive
    <3> QED BY <1>3, <2>1, <3>1, Disjoint DEF Sound, Form, Removes
  <2> QED BY <2>1, <2>2, <2>3, <2>4, <2>5 DEF Sound
<1> QED BY <1>2, <1>4 DEF IInv, TypeOK, StaffType, SetActive

LEMMA CreateManagerIInv ==
  ASSUME IInv, NEW m \in Managers, CreateManager(m)
  PROVE  IInv'
<1>1. staff' = [staff EXCEPT ![m].status = "active"] /\ staff[m].status = "none"
  BY DEF CreateManager
<1>2. staff' \in StaffType /\ Rooted' /\ Owned' /\ ManagerFollowsStore' /\ NoOrphanStore'
  BY <1>1, StatusChanges, Disjoint DEF CreateManager
<1>3. /\ staff[m] \in Account
      /\ \A x \in Staff : /\ staff'[x].parent = staff[x].parent
                          /\ staff'[x].late = staff[x].late
                          /\ staff'[x].status = IF x = m THEN "active" ELSE staff[x].status
  BY <1>1, Disjoint DEF IInv, TypeOK, Account
<1>4. ASSUME NEW p \in Requests PROVE Sound(request[p])'
  <2> DEFINE o == request[p]
  <2>1. o \in Request /\ Sound(o) /\ request'[p] = o /\ customer' = customer
    BY DEF IInv, TypeOK, CreateManager
  <2>2. Form(request[p])' /\ Locks(request[p])' /\ Aims(request[p])'
    BY <2>1 DEF Sound, Form, Locks, Aims
  <2>3. Holds(request[p])'
    <3>1. o.own.store \in Stores \cup {None}
      BY <2>1 DEF Request, Columns
    <3> QED BY <1>3, <2>1, <3>1, Disjoint DEF Sound, Holds
  <2>4. Attaches(request[p])'
    BY <1>3, <2>1, Disjoint DEF Sound, Attaches, Form
  <2>5. Removes(request[p])'
    BY <1>3, <2>1, Disjoint DEF Sound, Form, Removes, Present
  <2> QED BY <2>1, <2>2, <2>3, <2>4, <2>5 DEF Sound
<1> QED BY <1>2, <1>4 DEF IInv, TypeOK, StaffType, CreateManager

LEMMA DeleteIInv ==
  ASSUME IInv, NEW r \in Requests, Delete(r)
  PROVE  IInv'
<1> DEFINE q == request[r]
           a == q.account
<1>1. q \in Request /\ Sound(q) /\ q.pc = "delete" /\ a \in Staff /\ customer' = customer
      /\ staff' = [staff EXCEPT ![a].status = "deleted"]
  BY DEF IInv, TypeOK, Delete, Sound, Form
<1>2. \A s \in Stores : Present(s) /\ staff[s].parent = a => staff[s].late
  BY <1>1 DEF Sound, Removes
<1>3. \A p \in Requests :
        request'[p] = IF p = r THEN Idle
                      ELSE IF Attaching(request[p], a) THEN [request[p] EXCEPT !.overtaken = TRUE]
                      ELSE request[p]
  BY DEF Delete
<1>4. request' = [p \in Requests |-> request'[p]]
  BY DEF Delete
<1> HIDE DEF q, a
<1>5. /\ staff[a] \in Account
      /\ \A x \in Staff : /\ staff'[x].parent = staff[x].parent
                          /\ staff'[x].late = staff[x].late
                          /\ staff'[x].status = IF x = a THEN "deleted" ELSE staff[x].status
  BY <1>1 DEF IInv, TypeOK, Account
<1>6. staff' \in StaffType /\ Rooted' /\ Owned' /\ ManagerFollowsStore' /\ NoOrphanStore'
  BY <1>1, <1>2, StatusChanges DEF Sound, Removes, a
<1>7. request' \in RequestsType
  <2>1. \A p \in Requests : request'[p] \in Request
    BY <1>3, EmptyRequest, Flagged DEF IInv, TypeOK
  <2> QED BY <1>4, <2>1 DEF RequestsType
<1>8. ASSUME NEW p \in Requests PROVE Sound(request[p])'
  <2>1. CASE p = r
    BY <1>3, <2>1, BecomesIdle
  <2>2. CASE p # r
    <3> DEFINE o == request[p]
    <3>1. o \in Request /\ Sound(o)
      BY DEF IInv, TypeOK
    <3>2. /\ request'[p].pc = o.pc /\ request'[p].kind = o.kind
          /\ request'[p].targets = o.targets /\ request'[p].account = o.account
          /\ request'[p].store = o.store /\ request'[p].own = o.own
          /\ request'[p].second = o.second
          /\ request'[p].overtaken = (o.overtaken \/ Attaching(o, a))
      BY <1>3, <2>2, <3>1 DEF Request
    <3> HIDE DEF o
    <3>3. Form(request[p])' /\ Locks(request[p])' /\ Aims(request[p])'
      BY <1>1, <3>1, <3>2 DEF Sound, Form, Locks, Aims
    <3>4. Holds(request[p])'
      <4>1. o.own.store \in Stores \cup {None}
        BY <3>1 DEF Request, Columns
      <4> QED BY <1>5, <3>1, <3>2, <4>1, Disjoint DEF Sound, Holds
    <3>5. Attaches(request[p])'
      BY <1>5, <3>1, <3>2, Disjoint DEF Sound, Attaches, Form, Attaching
    <3>6. Removes(request[p])'
      BY <1>5, <3>1, <3>2, Disjoint DEF Sound, Form, Removes, Present
    <3> QED BY <3>3, <3>4, <3>5, <3>6 DEF Sound
  <2> QED BY <2>1, <2>2
<1> QED BY <1>1, <1>6, <1>7, <1>8 DEF IInv, TypeOK, StaffType, RequestsType

LEMMA CommitIInv ==
  ASSUME IInv, NEW r \in Requests, Commit(r)
  PROVE  IInv'
<1> DEFINE q == request[r]
           s == q.store
           m == q.account
           new == Under(q, staff[s].status)
<1>1. q \in Request /\ Sound(q) /\ q.pc = "commit" /\ m \in Managers /\ s \in Stores
  BY DEF IInv, TypeOK, Commit, Sound, Form
<1>2. /\ new \in Account /\ new.parent = m /\ new.status = staff[s].status
      /\ new.late = (q.overtaken \/ Removing(m))
  BY <1>1, Disjoint DEF Under, Account, Request, Removing, IInv, TypeOK
<1>3. staff' = [staff EXCEPT ![s] = new]
  BY DEF Commit
<1>4. \A c \in Customers :
        customer'[c] = IF c \in q.targets
                       THEN [customer[c] EXCEPT !.own.manager = m, !.crossed = FALSE]
                       ELSE IF customer[c].own.store = s
                       THEN [customer[c] EXCEPT !.crossed = TRUE]
                       ELSE customer[c]
  BY DEF Commit
<1>5. customer' = [c \in Customers |-> customer'[c]]
  BY DEF Commit
<1>6. \A p \in Requests : request'[p] = IF p = r THEN Idle ELSE Moved(request[p], s)
  BY DEF Commit
<1>7. request' = [p \in Requests |-> request'[p]]
  BY DEF Commit
<1>8. \A c \in q.targets : customer[c].own.store = s
  BY <1>1 DEF Sound, Locks
<1> HIDE DEF new, s, m, q
<1>9. \A a \in Staff : staff'[a] = IF a = s THEN new ELSE staff[a]
  BY <1>3 DEF IInv, TypeOK
<1>10. \A x \in Managers : x \in Staff /\ staff'[x] = staff[x]
  BY <1>1, <1>9, Disjoint
<1>11. staff' \in StaffType
  BY <1>2, <1>3 DEF IInv, TypeOK, StaffType
<1>12. \A c \in Customers :
         /\ customer'[c] \in Customer
         /\ customer'[c].own.store = customer[c].own.store
         /\ customer'[c].status = customer[c].status
         /\ IF customer[c].own.store = s
            THEN ~customer'[c].crossed => customer'[c].own.manager = m
            ELSE customer'[c] = customer[c]
  <2> SUFFICES ASSUME NEW c \in Customers
               PROVE  /\ customer'[c] \in Customer
                      /\ customer'[c].own.store = customer[c].own.store
                      /\ customer'[c].status = customer[c].status
                      /\ IF customer[c].own.store = s
                         THEN ~customer'[c].crossed => customer'[c].own.manager = m
                         ELSE customer'[c] = customer[c]
    OBVIOUS
  <2>1. customer[c] \in Customer
    BY DEF IInv, TypeOK
  <2>2. CASE c \in q.targets
    <3>1. customer'[c] = [customer[c] EXCEPT !.own = [customer[c].own EXCEPT !.manager = m],
                                             !.crossed = FALSE]
      BY <1>4, <2>1, <2>2 DEF Customer
    <3>2. customer[c].own \in Columns /\ customer[c].own.store = s
      BY <1>8, <2>1, <2>2 DEF Customer
    <3>3. /\ [customer[c].own EXCEPT !.manager = m] \in Columns
          /\ [customer[c].own EXCEPT !.manager = m].store = s
          /\ [customer[c].own EXCEPT !.manager = m].manager = m
      BY <1>1, <3>2 DEF Columns
    <3> QED BY <2>1, <3>1, <3>2, <3>3 DEF Customer
  <2>3. CASE c \notin q.targets
    BY <1>4, <2>1, <2>3 DEF Customer
  <2> QED BY <2>2, <2>3
<1>13. customer' \in CustomersType
  BY <1>5, <1>12 DEF CustomersType
<1>14. request' \in RequestsType
  <2>1. \A p \in Requests : request'[p] \in Request
    BY <1>6, EmptyRequest, Flagged DEF IInv, TypeOK, Moved
  <2> QED BY <1>7, <2>1 DEF RequestsType
<1>15. Owned' /\ ManagerFollowsStore'
  <2> SUFFICES ASSUME NEW c \in Customers
               PROVE  /\ customer'[c].own.store # None =>
                           /\ staff'[customer'[c].own.store].status # "none"
                           /\ ~customer'[c].crossed =>
                                customer'[c].own.manager = staff'[customer'[c].own.store].parent
                      /\ customer'[c].status \in {"none", "pending"} =>
                           customer'[c].own = Unowned
    BY DEF Owned, ManagerFollowsStore
  <2>1. customer[c].own.store \in Stores \cup {None}
    BY DEF IInv, TypeOK, Customer, Columns
  <2>2. CASE customer[c].own.store = s
    <3>1. customer[c].status \notin {"none", "pending"} /\ staff[s].status # "none"
      BY <1>1, <2>2, Disjoint DEF IInv, Owned, Unowned
    <3> QED BY <1>1, <1>2, <1>9, <1>12, <2>2, <3>1, Disjoint
  <2>3. CASE customer[c].own.store # s
    BY <1>9, <1>12, <2>1, <2>3, Disjoint DEF IInv, Owned, ManagerFollowsStore
  <2> QED BY <2>2, <2>3
<1>16. Rooted'
  BY <1>1, <1>2, <1>9, Disjoint DEF IInv, Rooted
<1>17. NoOrphanStore'
  <2> SUFFICES ASSUME NEW t \in Stores, Present(t)', staff'[staff'[t].parent].status = "deleted"
               PROVE  staff'[t].late
    BY DEF NoOrphanStore
  <2>1. CASE t = s
    <3>1. staff[m].status = "deleted" => q.overtaken
      BY <1>1 DEF Sound, Attaches, m
    <3> QED BY <1>1, <1>2, <1>9, <1>10, <2>1, <3>1, Disjoint
  <2>2. CASE t # s
    <3>1. staff'[t] = staff[t] /\ Present(t) /\ staff[t].parent \in Managers
      BY <1>9, <2>2, Disjoint DEF Present, IInv, Rooted
    <3> QED BY <1>10, <3>1 DEF IInv, NoOrphanStore
  <2> QED BY <2>1, <2>2
<1>18. ASSUME NEW p \in Requests PROVE Sound(request[p])'
  <2>1. CASE p = r
    BY <1>6, <2>1, BecomesIdle
  <2>2. CASE p # r
    <3> DEFINE o == request[p]
    <3>1. o \in Request /\ Sound(o)
      BY DEF IInv, TypeOK
    <3>2. /\ request'[p].pc = o.pc /\ request'[p].kind = o.kind
          /\ request'[p].targets = o.targets /\ request'[p].account = o.account
          /\ request'[p].store = o.store /\ request'[p].own = o.own
          /\ request'[p].second = o.second
          /\ request'[p].overtaken = (o.overtaken \/ o.own.store = s)
      BY <1>6, <2>2, <3>1 DEF Request, Moved
    <3>3. o.pc = "delete" /\ o.account = m => new.late
      BY <1>2 DEF Removing
    <3>4. o.targets \subseteq Customers
      BY <3>1 DEF Request
    <3> HIDE DEF o
    <3>5. Form(request[p])'
      BY <3>1, <3>2 DEF Sound, Form
    <3>6. Holds(request[p])'
      <4>1. o.own.store \in Stores \cup {None}
        BY <3>1 DEF Request, Columns
      <4> QED BY <1>2, <1>9, <3>1, <3>2, <4>1, Disjoint DEF Sound, Holds
    <3>7. Attaches(request[p])'
      BY <1>10, <3>1, <3>2 DEF Sound, Attaches, Form
    <3>8. Removes(request[p])'
      <4> SUFFICES ASSUME o.pc = "delete"
                   PROVE  /\ staff'[o.account].status # "none"
                          /\ \A t \in Stores : Present(t)' /\ staff'[t].parent = o.account =>
                               staff'[t].late
        BY <3>2 DEF Removes
      <4>1. o.account \in Staff
        BY <3>1 DEF Sound, Form
      <4> QED BY <1>1, <1>2, <1>9, <3>1, <3>3, <4>1, Disjoint DEF Sound, Removes, Present
    <3>9. Locks(request[p])' /\ Aims(request[p])'
      BY <1>12, <3>1, <3>2, <3>4 DEF Sound, Locks, Aims
    <3> QED BY <3>5, <3>6, <3>7, <3>8, <3>9 DEF Sound
  <2> QED BY <2>1, <2>2
<1> QED BY <1>11, <1>13, <1>14, <1>15, <1>16, <1>17, <1>18
     DEF IInv, TypeOK, StaffType, CustomersType, RequestsType

(* RemoveCustomer and Register.                                            *)
LEMMA RowChanges ==
  ASSUME IInv, NEW c \in Customers, NEW row \in Customer,
         customer' = [customer EXCEPT ![c] = row], UNCHANGED <<staff, request>>,
         row.own = customer[c].own, row.crossed = customer[c].crossed,
         \/ row.status = customer[c].status
         \/ customer[c].status = "none" /\ row.status = "pending"
  PROVE  IInv'
<1>1. \A x \in Customers : customer'[x] = IF x = c THEN row ELSE customer[x]
  BY DEF IInv, TypeOK
<1>2. TypeOK'
  BY DEF IInv, TypeOK
<1>3. Owned' /\ ManagerFollowsStore'
  BY <1>1 DEF IInv, Owned, ManagerFollowsStore
<1>4. Rooted' /\ NoOrphanStore'
  BY DEF IInv, Rooted, NoOrphanStore, Present
<1>5. ASSUME NEW p \in Requests PROVE Sound(request[p])'
  <2>1. Sound(request[p]) /\ request'[p] = request[p] /\ request[p].targets \subseteq Customers
    BY DEF IInv, TypeOK, Request
  <2>2. Form(request[p])' /\ Holds(request[p])' /\ Attaches(request[p])' /\ Removes(request[p])'
    BY <2>1 DEF Sound, Form, Holds, Attaches, Removes, Present
  <2>3. Locks(request[p])' /\ Aims(request[p])'
    BY <1>1, <2>1 DEF Sound, Form, Locks, Aims
  <2> QED BY <2>2, <2>3 DEF Sound
<1> QED BY <1>2, <1>3, <1>4, <1>5 DEF IInv

LEMMA RowIInv ==
  ASSUME IInv, NEW c \in Customers, RemoveCustomer(c) \/ Register(c)
  PROVE  IInv'
<1>1. customer[c] \in Customer
  BY DEF IInv, TypeOK
<1>2. CASE RemoveCustomer(c)
  <2> DEFINE row == [customer[c] EXCEPT !.deleted = TRUE]
  <2>1. row \in Customer /\ customer' = [customer EXCEPT ![c] = row]
    BY <1>1, <1>2 DEF RemoveCustomer, Customer
  <2>2. row.own = customer[c].own /\ row.crossed = customer[c].crossed
        /\ row.status = customer[c].status
    BY <1>1 DEF Customer
  <2> QED BY <1>2, <2>1, <2>2, RowChanges DEF RemoveCustomer
<1>3. CASE Register(c)
  <2> DEFINE row == [customer[c] EXCEPT !.status = "pending"]
  <2>1. row \in Customer /\ customer' = [customer EXCEPT ![c] = row]
    BY <1>1, <1>3 DEF Register, Customer
  <2>2. row.own = customer[c].own /\ row.crossed = customer[c].crossed
        /\ row.status = "pending"
    BY <1>1 DEF Customer
  <2> QED BY <1>3, <2>1, <2>2, RowChanges DEF Register
<1> QED BY <1>2, <1>3

THEOREM Inductive == IInv /\ [Next]_vars => IInv'
<1> SUFFICES ASSUME IInv, [Next]_vars PROVE IInv'
  OBVIOUS
<1>1. CASE UNCHANGED vars
  BY <1>1 DEF vars, IInv, TypeOK, Rooted, Owned, ManagerFollowsStore, NoOrphanStore, Present,
     Sound, Form, Holds, Attaches, Removes, Locks, Aims
<1>2. ASSUME NEW r \in Requests, Start(r) \/ Serve(r) PROVE IInv'
  BY <1>2, StartIInv, ResolveIInv, SaveIInv, InsertStoreIInv, CascadeIInv, CommitIInv,
     DeleteIInv, DieIInv DEF Serve
<1> QED BY <1>1, <1>2, SetActiveIInv, CreateManagerIInv, RowIInv DEF Next

(***************************************************************************)
(* The rows and requests of every reachable state have their types.        *)
(***************************************************************************)
THEOREM TypeCorrect == Spec => []TypeOK
<1>1. IInv => TypeOK
  BY DEF IInv
<1> QED BY <1>1, InitIInv, Inductive, PTL DEF Spec

(***************************************************************************)
(* A customer of a store carries its store's manager, unless its           *)
(* assignment overlapped a move of the store.                              *)
(***************************************************************************)
THEOREM ManagersFollow == Spec => []ManagerFollowsStore
<1>1. IInv => ManagerFollowsStore
  BY DEF IInv
<1> QED BY <1>1, InitIInv, Inductive, PTL DEF Spec

(***************************************************************************)
(* remove leaves no store without a manager, unless it came under the      *)
(* manager after the check.                                                *)
(***************************************************************************)
THEOREM NoStoreOrphaned == Spec => []NoOrphanStore
<1>1. IInv => NoOrphanStore
  BY DEF IInv
<1> QED BY <1>1, InitIInv, Inductive, PTL DEF Spec

(* The step that makes a blocked customer active.                          *)
LEMMA Reactivation ==
  ASSUME IInv, [Next]_vars, NEW c \in Customers,
         customer[c].status = "blocked", customer'[c].status = "active"
  PROVE  \E r \in Requests : /\ request[r].pc = "save" /\ c \in request[r].targets
                             /\ request'[r].pc = "idle"
                             /\ request[r].kind = "status" \/ request[r].second
<1>1. customer'[c] # customer[c]
  OBVIOUS
<1>2. CASE \E r \in Requests : Save(r)
  <2> PICK r \in Requests : Save(r)
    BY <1>2
  <2> DEFINE q == request[r]
  <2>1. q \in Request /\ Sound(q) /\ q.pc = "save" /\ request'[r] = Idle
        /\ customer'[c] = IF c \in q.targets /\ Allowed(q) THEN Written(c, q) ELSE customer[c]
    BY DEF IInv, TypeOK, Save
  <2>2. c \in q.targets /\ Allowed(q) /\ customer'[c] = Written(c, q) /\ customer[c] \in Customer
    BY <1>1, <2>1 DEF IInv, TypeOK
  <2>3. q.kind # "create"
    BY <2>2 DEF Allowed
  <2>4. q.kind # "reassign"
    BY <2>2 DEF Written, Customer
  <2>5. q.kind = "approve" => q.second
    BY <2>1, <2>2 DEF Sound, Aims
  <2>6. q.kind \in {"approve", "status"}
    BY <2>1, <2>3, <2>4 DEF Sound, Form
  <2> QED BY <2>1, <2>2, <2>5, <2>6 DEF Idle
<1>3. CASE \E r \in Requests : Commit(r)
  <2>1. customer[c] \in Customer
    BY DEF IInv, TypeOK
  <2>2. customer'[c].status = customer[c].status
    BY <1>3, <2>1 DEF Commit, Customer
  <2> QED BY <2>2
<1>4. CASE \E x \in Customers : RemoveCustomer(x) \/ Register(x)
  <2>1. customer'[c].status \in {customer[c].status, "pending"}
    BY <1>4 DEF RemoveCustomer, Register, IInv, TypeOK, Customer
  <2> QED BY <2>1
<1>5. CASE UNCHANGED customer
  BY <1>1, <1>5
<1> QED BY <1>2, <1>3, <1>4, <1>5
     DEF Next, vars, Start, Serve, StartCreate, StartReassign, StartApprove, StartStatus,
         StartStore, StartMove, StartRemove, Resolve, InsertStore, Cascade, Delete, Die,
         SetActive, CreateManager

(***************************************************************************)
(* No approval that is alone reactivates a blocked customer.               *)
(***************************************************************************)
THEOREM ApprovalsAreFresh == Spec => ReactivatedOnPurpose
<1>1. IInv /\ [Next]_vars =>
        [\A c \in Customers :
           customer[c].status = "blocked" /\ customer'[c].status = "active" =>
             \E r \in Requests : /\ request[r].pc = "save" /\ c \in request[r].targets
                                 /\ request'[r].pc = "idle"
                                 /\ request[r].kind = "status" \/ request[r].second]_vars
  BY Reactivation
<1> QED BY <1>1, InitIInv, Inductive, PTL DEF Spec, ReactivatedOnPurpose
=============================================================================

------------------------------- MODULE Ownership -------------------------------
(***************************************************************************)
(* Who owns which customer: the staff hierarchy (modules/staff) and the    *)
(* ownership columns of customers (modules/customers, the customer import, *)
(* self-registration).  A customer row repeats the manager of its store,   *)
(* so that what a manager sees is one comparison on the row; moving a      *)
(* store rewrites the rows of its customers.                               *)
(*                                                                         *)
(* Every request is one of a master, who may do all that managers and      *)
(* stores may; the one thing a manager does differently, creating stores   *)
(* of its own, is a disjunct of StartStore.  Requests read, resolve an     *)
(* owner and write in statements of their own.  Only reassignStore writes  *)
(* two tables in a transaction, in which it locks the rows it touches.     *)
(*                                                                         *)
(* inactive, suspended and banned are one status here, "blocked".  The     *)
(* flags late, crossed, overtaken and second are history: they record what *)
(* a row was written on, for the properties, and guard nothing.            *)
(***************************************************************************)
EXTENDS Naturals

CONSTANTS Managers, Stores, Customers,   \* ids of rows that may be inserted
          Requests,                      \* requests the API serves at once
          None

Staff == Managers \cup Stores

ASSUME OwnershipAssumption ==
  Managers \cap Stores = {} /\ None \notin Staff

VARIABLES staff,      \* staff_users, without the masters
          customer,   \* customers
          request     \* the requests under way

vars == <<staff, customer, request>>

Account == [parent : Managers \cup {None}, late : BOOLEAN,
            status : {"none", "active", "inactive", "deleted"}]

(* ownerStaffId, managerId and storeId. *)
Columns == [owner : Staff \cup {None}, manager : Managers \cup {None},
            store : Stores \cup {None}]

Customer == [status : {"none", "pending", "active", "blocked"}, deleted : BOOLEAN,
             own : Columns, crossed : BOOLEAN]

(***************************************************************************)
(* targets are the customers a request writes, account the staff member it *)
(* looks up (owner, manager) or removes, store the store it moves or       *)
(* creates, own what was resolved, status what it sets.                    *)
(***************************************************************************)
Kinds == {"create", "reassign", "approve", "status", "store", "move", "remove"}
Request == [kind : Kinds \cup {None},
            pc : {"idle", "resolve", "save", "insert", "cascade", "commit", "delete"},
            targets : SUBSET Customers, account : Staff \cup {None},
            store : Stores \cup {None}, own : Columns, status : {"active", "blocked"},
            overtaken : BOOLEAN, second : BOOLEAN]

ASSUME KindsAssumption == None \notin Kinds

TypeOK ==
  /\ staff \in [Staff -> Account]
  /\ customer \in [Customers -> Customer]
  /\ request \in [Requests -> Request]

Unowned == [owner |-> None, manager |-> None, store |-> None]
Idle == [kind |-> None, pc |-> "idle", targets |-> {}, account |-> None, store |-> None,
         own |-> Unowned, status |-> "active", overtaken |-> FALSE, second |-> FALSE]

Init ==
  /\ staff = [a \in Staff |-> [parent |-> None, late |-> FALSE, status |-> "none"]]
  /\ customer = [c \in Customers |->
       [status |-> "none", deleted |-> FALSE, own |-> Unowned, crossed |-> FALSE]]
  /\ request = [r \in Requests |-> Idle]

Present(a) == staff[a].status \in {"active", "inactive"}
Found(c) == customer[c].status # "none" /\ ~customer[c].deleted
Reports(a) == {s \in Stores : Present(s) /\ staff[s].parent = a}

Begin(r, q) == /\ request[r].pc = "idle"
               /\ request' = [request EXCEPT ![r] = q]
Goto(r, q) == request' = [request EXCEPT ![r] = q]

(* Row locks of a transaction that moves a store. *)
LockedCustomer(c) == \E r \in Requests : request[r].pc = "commit" /\ c \in request[r].targets
LockedStore(s) == \E r \in Requests : request[r].pc = "commit" /\ request[r].store = s

-----------------------------------------------------------------------------
(* What a request reads first.                                             *)

Assign(kind, C, owner) ==
  [Idle EXCEPT !.kind = kind, !.pc = "resolve", !.targets = C, !.account = owner]

(* create of one customer, commit of an import of several. *)
StartCreate(r, C, owner) ==
  /\ Begin(r, Assign("create", C, owner))
  /\ UNCHANGED <<staff, customer>>

(* Mutation: any customer can be approved. *)
StartApproveAny(r, c, owner) ==
  /\ Found(c)
  /\ Begin(r, Assign("approve", {c}, owner))
  /\ UNCHANGED <<staff, customer>>

StartApprove(r, c, owner) ==
  /\ Found(c) /\ customer[c].status = "pending"
  /\ Begin(r, Assign("approve", {c}, owner))
  /\ UNCHANGED <<staff, customer>>

(* intersectWithScope, for a master. *)
Permitted(C) == {c \in C : Found(c) /\ customer[c].status # "pending"}

(***************************************************************************)
(* reassign takes one customer, pending or not; bulkReassign drops those   *)
(* that are not there or pending.                                          *)
(***************************************************************************)
StartReassign(r, C, owner) ==
  /\ \/ \E c \in Customers : C = {c} /\ Found(c) /\ Begin(r, Assign("reassign", C, owner))
     \/ Begin(r, Assign("reassign", Permitted(C), owner))
  /\ UNCHANGED <<staff, customer>>

(* changeStatus and bulkChangeStatus. *)
StartStatus(r, C, status) ==
  /\ Begin(r, [Idle EXCEPT !.kind = "status", !.pc = "save",
                 !.targets = Permitted(C), !.status = status])
  /\ UNCHANGED <<staff, customer>>

(***************************************************************************)
(* create of a store: by a master, who names a manager that is looked up;  *)
(* or by a manager, whose token is all it needs, also after its removal.   *)
(***************************************************************************)
StartStore(r, s, m) ==
  /\ staff[s].status = "none"
  /\ \/ Begin(r, [Idle EXCEPT !.kind = "store", !.pc = "resolve", !.store = s, !.account = m])
     \/ /\ staff[m].status # "none"
        /\ Begin(r, [Idle EXCEPT !.kind = "store", !.pc = "insert", !.store = s, !.account = m,
                       !.overtaken = (staff[m].status = "deleted")])
  /\ UNCHANGED <<staff, customer>>

StartMove(r, s, m) ==
  /\ Present(s)
  /\ Begin(r, [Idle EXCEPT !.kind = "move", !.pc = "resolve", !.store = s, !.account = m])
  /\ UNCHANGED <<staff, customer>>

(* Mutation: an account is removed with its reports. *)
StartRemoveAny(r, a) ==
  /\ Present(a)
  /\ Begin(r, [Idle EXCEPT !.kind = "remove", !.pc = "delete", !.account = a])
  /\ UNCHANGED <<staff, customer>>

StartRemove(r, a) ==
  /\ Present(a) /\ Reports(a) = {}
  /\ Begin(r, [Idle EXCEPT !.kind = "remove", !.pc = "delete", !.account = a])
  /\ UNCHANGED <<staff, customer>>

-----------------------------------------------------------------------------

(***************************************************************************)
(* resolveOwnership, and the look-up of a manager in resolveParent and     *)
(* reassignStore: an account that is not active ends the request.          *)
(***************************************************************************)
OwnedBy(o) ==
  IF o \in Stores THEN [owner |-> o, manager |-> staff[o].parent, store |-> o]
  ELSE [owner |-> o, manager |-> o, store |-> None]

Resolve(r) ==
  LET q == request[r] IN
  /\ q.pc = "resolve"
  /\ Goto(r, IF staff[q.account].status # "active" THEN Idle
             ELSE IF q.kind = "move" THEN [q EXCEPT !.pc = "cascade"]
             ELSE IF q.kind = "store" THEN [q EXCEPT !.pc = "insert"]
             ELSE [q EXCEPT !.pc = "save", !.own = OwnedBy(q.account)])
  /\ UNCHANGED <<staff, customer>>

(***************************************************************************)
(* The rows a statement would leave, which name their id and nothing of    *)
(* what was read, and the two constraints it may fail on:                  *)
(* chk_customers_ownership and the unique indexes.                         *)
(***************************************************************************)
Written(c, q) ==
  CASE q.kind = "create" -> [status |-> "active", deleted |-> FALSE, own |-> q.own,
                             crossed |-> q.overtaken]
    [] q.kind = "reassign" -> [customer[c] EXCEPT !.own = q.own, !.crossed = q.overtaken]
    [] q.kind = "approve" -> [customer[c] EXCEPT !.own = q.own, !.crossed = q.overtaken,
                                                 !.status = "active"]
    [] q.kind = "status" -> [customer[c] EXCEPT !.status = q.status]

Consistent(row) ==
  IF row.status = "pending" THEN row.own = Unowned
  ELSE /\ row.own.owner # None /\ row.own.manager # None
       /\ row.own.owner = IF row.own.store = None THEN row.own.manager ELSE row.own.store

Allowed(q) ==
  \A c \in q.targets : /\ q.kind = "create" => customer[c].status = "none"
                       /\ Consistent(Written(c, q))

(***************************************************************************)
(* One statement for all targets: a row that may not be written undoes the *)
(* whole statement, and a row locked by a move is waited for.              *)
(***************************************************************************)
Approves(p, q) == p.kind = "approve" /\ q.kind = "approve" /\ p.targets = q.targets

Save(r) ==
  LET q == request[r] IN
  /\ q.pc = "save"
  /\ \A c \in q.targets : ~LockedCustomer(c)
  /\ customer' = [c \in Customers |->
       IF c \in q.targets /\ Allowed(q) THEN Written(c, q) ELSE customer[c]]
  /\ request' = [p \in Requests |->
       IF p = r THEN Idle
       ELSE IF Approves(request[p], q) THEN [request[p] EXCEPT !.second = TRUE]
       ELSE request[p]]
  /\ UNCHANGED staff

-----------------------------------------------------------------------------
(* Writes of the hierarchy.                                                *)

(***************************************************************************)
(* A store comes under m too late when m was removed since it was looked   *)
(* up, or its removal has already found that it has no reports.            *)
(***************************************************************************)
Removing(m) == \E p \in Requests : request[p].pc = "delete" /\ request[p].account = m
Under(q, status) ==
  [parent |-> q.account, late |-> q.overtaken \/ Removing(q.account), status |-> status]

InsertStore(r) ==
  LET q == request[r] IN
  /\ q.pc = "insert"
  /\ IF staff[q.store].status = "none"
     THEN staff' = [staff EXCEPT ![q.store] = Under(q, "active")]
     ELSE UNCHANGED staff
  /\ Goto(r, Idle)
  /\ UNCHANGED customer

(***************************************************************************)
(* The transaction of reassignStore.  It locks the store's row, and those  *)
(* of the customers recascadeStoreCustomers finds; what it has written is  *)
(* seen by nobody until it commits.                                        *)
(***************************************************************************)
Cascade(r) ==
  LET q == request[r] IN
  /\ q.pc = "cascade"
  /\ ~LockedStore(q.store)
  /\ Goto(r, [q EXCEPT !.pc = "commit",
                 !.targets = {c \in Customers : customer[c].own.store = q.store}])
  /\ UNCHANGED <<staff, customer>>

(* Whoever holds the old parent, or wrote it meanwhile, crossed the move.  *)
Moved(q, s) == IF q.own.store = s THEN [q EXCEPT !.overtaken = TRUE] ELSE q

(* Mutation: the store moves without its customers. *)
CommitAlone(r) ==
  LET q == request[r] IN
  /\ q.pc = "commit"
  /\ staff' = [staff EXCEPT ![q.store] = Under(q, staff[q.store].status)]
  /\ request' = [p \in Requests |-> IF p = r THEN Idle ELSE Moved(request[p], q.store)]
  /\ UNCHANGED customer

Commit(r) ==
  LET q == request[r] IN
  /\ q.pc = "commit"
  /\ staff' = [staff EXCEPT ![q.store] = Under(q, staff[q.store].status)]
  /\ customer' = [c \in Customers |->
       IF c \in q.targets
       THEN [customer[c] EXCEPT !.own.manager = q.account, !.crossed = FALSE]
       ELSE IF customer[c].own.store = q.store THEN [customer[c] EXCEPT !.crossed = TRUE]
       ELSE customer[c]]
  /\ request' = [p \in Requests |-> IF p = r THEN Idle ELSE Moved(request[p], q.store)]

(***************************************************************************)
(* remove, after its check: requests that have looked the manager up, and  *)
(* those that create a store of its own, do not look again.                *)
(***************************************************************************)
Attaching(q, m) == q.account = m /\ q.pc \in {"insert", "cascade", "commit"}

Delete(r) ==
  LET a == request[r].account IN
  /\ request[r].pc = "delete"
  /\ ~LockedStore(a)
  /\ staff' = [staff EXCEPT ![a].status = "deleted"]
  /\ request' = [p \in Requests |->
       IF p = r THEN Idle
       ELSE IF Attaching(request[p], a) THEN [request[p] EXCEPT !.overtaken = TRUE]
       ELSE request[p]]
  /\ UNCHANGED customer

(***************************************************************************)
(* One statement each; what they read before decides only whether they run *)
(* at all: setActive, create of a manager, remove of a customer,           *)
(* registerCustomer.                                                       *)
(***************************************************************************)
SetActive(a) ==
  /\ Present(a) /\ ~LockedStore(a)
  /\ \E status \in {"active", "inactive"} : staff' = [staff EXCEPT ![a].status = status]
  /\ UNCHANGED <<customer, request>>

CreateManager(m) ==
  /\ staff[m].status = "none"
  /\ staff' = [staff EXCEPT ![m].status = "active"]
  /\ UNCHANGED <<customer, request>>

RemoveCustomer(c) ==
  /\ Found(c) /\ ~LockedCustomer(c)
  /\ customer' = [customer EXCEPT ![c].deleted = TRUE]
  /\ UNCHANGED <<staff, request>>

Register(c) ==
  /\ customer[c].status = "none"
  /\ customer' = [customer EXCEPT ![c].status = "pending"]
  /\ UNCHANGED <<staff, request>>

(***************************************************************************)
(* A request dies; a transaction under way is undone and its locks go.  A  *)
(* deadlock's victim dies like this.                                       *)
(***************************************************************************)
Die(r) ==
  /\ request[r].pc # "idle"
  /\ Goto(r, Idle)
  /\ UNCHANGED <<staff, customer>>

-----------------------------------------------------------------------------

Start(r) ==
  \/ \E C \in SUBSET Customers :
       \/ \E a \in Staff : C # {} /\ (StartCreate(r, C, a) \/ StartReassign(r, C, a))
       \/ \E status \in {"active", "blocked"} : StartStatus(r, C, status)
  \/ \E c \in Customers, a \in Staff : StartApprove(r, c, a)
  \/ \E s \in Stores, m \in Managers : StartStore(r, s, m) \/ StartMove(r, s, m)
  \/ \E a \in Staff : StartRemove(r, a)

Serve(r) ==
  \/ Resolve(r) \/ Save(r) \/ InsertStore(r) \/ Cascade(r) \/ Commit(r) \/ Delete(r)
  \/ Die(r)

Next ==
  \/ \E r \in Requests : Start(r) \/ Serve(r)
  \/ \E a \in Staff : SetActive(a)
  \/ \E m \in Managers : CreateManager(m)
  \/ \E c \in Customers : RemoveCustomer(c) \/ Register(c)

Spec == Init /\ [][Next]_vars

-----------------------------------------------------------------------------

(***************************************************************************)
(* A customer of a store carries the store's manager, so that the manager  *)
(* who runs the store is the one who sees its customers, and no other: "a  *)
(* scope leak in both directions" is what recascadeStoreCustomers is for.  *)
(* The exception is a customer whose assignment overlapped a move of its   *)
(* store: the parent was read before the move committed, and the row was   *)
(* not yet there, or not yet this store's, when the move looked for its    *)
(* customers.  The next move of the store puts it right.                   *)
(***************************************************************************)
ManagerFollowsStore ==
  \A c \in Customers : LET own == customer[c].own IN
    own.store # None /\ ~customer[c].crossed => own.manager = staff[own.store].parent

(***************************************************************************)
(* A store that is still there has a manager that is still there ("refused *)
(* while direct reports remain, because deleting a manager with stores     *)
(* would orphan them"), unless it came under the manager after the removal *)
(* had looked for reports.                                                 *)
(***************************************************************************)
NoOrphanStore ==
  \A s \in Stores : Present(s) /\ staff[staff[s].parent].status = "deleted" => staff[s].late

(***************************************************************************)
(* A blocked customer becomes active again because someone set its status, *)
(* or through an approval that overlapped another approval of the same     *)
(* customer: a banned customer is never reactivated by an approval that    *)
(* was alone, however late its update comes.                               *)
(***************************************************************************)
ReactivatedOnPurpose ==
  [][\A c \in Customers :
       customer[c].status = "blocked" /\ customer'[c].status = "active" =>
         \E r \in Requests : /\ request[r].pc = "save" /\ c \in request[r].targets
                             /\ request'[r].pc = "idle"
                             /\ request[r].kind = "status" \/ request[r].second]_vars
=============================================================================

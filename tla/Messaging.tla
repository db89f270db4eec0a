------------------------------ MODULE Messaging ------------------------------
(***************************************************************************)
(* Threads of messages: modules/messaging, between a customer and the      *)
(* staff who may see the customer, and between two members of staff.       *)
(*                                                                         *)
(* A thread keeps denormalised fields beside its messages: their number,   *)
(* the preview of the last and when each side wrote last.  What a member   *)
(* of staff has read is a time, one per thread and viewer, and unread is   *)
(* whatever was written after it.  Two clocks meet here: created_at is the *)
(* time the sender's transaction began, while the fields of the thread and *)
(* the read marker take the time of the process.  clock stands for both    *)
(* and moves with every stamp, so that no two stamps are equal.            *)
(*                                                                         *)
(* No code closes or archives a conversation and none deletes a message,   *)
(* so neither state is here; lastMessageAt moves with the preview.         *)
(***************************************************************************)
EXTENDS Naturals, FiniteSets

CONSTANTS Threads,      \* conversations, and those not started yet
          TeamThreads,  \* those between members of staff
          Staff,        \* the staff who may see the threads
          Customer,     \* the customer side of every other thread
          Messages, Requests,
          PageSize,     \* messages on a page of a thread
          MaxClock,     \* bound: stamps ever taken
          None

ASSUME MessagingAssumption ==
  /\ TeamThreads \subseteq Threads
  /\ Customer \notin Staff
  /\ None \notin Staff \cup {Customer} /\ None \notin Messages /\ None \notin Threads
  /\ PageSize \in Nat \ {0} /\ MaxClock \in Nat
  /\ IsFiniteSet(Messages)

VARIABLES thread,    \* conversations and staff_conversations
          message,   \* messages and staff_messages, with those not committed
          marker,    \* last_read_at by viewer and thread, 0 without a row
          request,   \* the requests under way
          clock,
          shown,     \* history: messages a viewer got on a page
          missed,    \* history: messages a reading of the viewer went past
          crossed    \* history: threads two sends overlapped in

vars == <<thread, message, marker, request, clock, shown, missed, crossed>>

Writers == Staff \cup {Customer}
Times == 0..MaxClock

Thread == [open : BOOLEAN, count : Nat, preview : Messages \cup {None},
           customerAt : Times, staffAt : Times]
Message == [kept : BOOLEAN, thread : Threads \cup {None},
            by : Writers \cup {None}, at : Times]
Request == [pc : {"idle", "create", "insert", "update", "emit", "mark", "done"},
            thread : Threads \cup {None}, by : Writers \cup {None}, now : Times,
            message : Messages \cup {None}, page : SUBSET Messages]

TypeOK ==
  /\ thread \in [Threads -> Thread]
  /\ message \in [Messages -> Message]
  /\ marker \in [Staff -> [Threads -> Times]]
  /\ request \in [Requests -> Request]
  /\ clock \in Times
  /\ shown \in [Staff -> SUBSET Messages]
  /\ missed \in [Staff -> SUBSET Messages]
  /\ crossed \in SUBSET Threads

Unsent == [kept |-> FALSE, thread |-> None, by |-> None, at |-> 0]
Idle == [pc |-> "idle", thread |-> None, by |-> None, now |-> 0,
         message |-> None, page |-> {}]

Init ==
  /\ thread = [t \in Threads |-> [open |-> FALSE, count |-> 0, preview |-> None,
                                  customerAt |-> 0, staffAt |-> 0]]
  /\ message = [m \in Messages |-> Unsent]
  /\ marker = [v \in Staff |-> [t \in Threads |-> 0]]
  /\ request = [r \in Requests |-> Idle]
  /\ clock = 0
  /\ shown = [v \in Staff |-> {}]
  /\ missed = [v \in Staff |-> {}]
  /\ crossed = {}

Begun(t) == {m \in Messages : message[m].thread = t}
Kept(t) == {m \in Begun(t) : message[m].kept}

(* A send of the thread that has taken its time and may not have landed. *)
Sending(t) == {r \in Requests : request[r].pc \in {"insert", "update"} /\ request[r].thread = t}

(* Those who have looked at the thread and not yet moved their marker. *)
Looking(t) ==
  {v \in Staff : \E r \in Requests :
     request[r].pc = "mark" /\ request[r].by = v /\ request[r].thread = t}

(***************************************************************************)
(* unreadExpression: what counts is the customer's messages, and between   *)
(* staff those of the other.                                               *)
(***************************************************************************)
Counts(v, m) ==
  IF message[m].thread \in TeamThreads THEN message[m].by # v ELSE message[m].by = Customer

Unread(v, t) == {m \in Kept(t) : Counts(v, m) /\ message[m].at > marker[v][t]}

(* awaitingReply of the inbox: the customer wrote last. *)
AwaitingReply(t) == thread[t].customerAt > thread[t].staffAt

(* customerUnreadCount: what staff wrote since the customer last did. *)
CustomerUnread(t) ==
  {m \in Kept(t) : message[m].by # Customer /\ message[m].at > thread[t].customerAt}

Goto(r, q) == request' = [request EXCEPT ![r] = q]

(* A stamp is the clock after it has moved. *)
Stamp == clock' = clock + 1 /\ clock < MaxClock

-----------------------------------------------------------------------------
(* Sending: sendAsStaff, sendAsCustomer and the staff's own send.          *)

(* appendMessage takes its time once the thread is known. *)
Append(r, w, t) ==
  /\ Stamp
  /\ Goto(r, [Idle EXCEPT !.pc = "insert", !.thread = t, !.by = w, !.now = clock + 1])
  /\ crossed' = IF Sending(t) = {} THEN crossed ELSE crossed \cup {t}

(***************************************************************************)
(* ensureConversation looks for the thread and goes on with it, or is      *)
(* about to insert it.                                                     *)
(***************************************************************************)
StartSend(r, w, t) ==
  /\ request[r].pc = "idle"
  /\ t \in TeamThreads => w # Customer
  /\ \/ thread[t].open /\ Append(r, w, t)
     \/ /\ ~thread[t].open
        /\ Goto(r, [Idle EXCEPT !.pc = "create", !.thread = t, !.by = w])
        /\ UNCHANGED <<clock, crossed>>
  /\ UNCHANGED <<thread, message, marker, shown, missed>>

(* Mutation: the insert does not look for a conflict and starts the thread afresh. *)
CreateAfresh(r) ==
  /\ request[r].pc = "create"
  /\ LET t == request[r].thread
     IN /\ thread' = [thread EXCEPT ![t] = [@ EXCEPT !.open = TRUE, !.count = 0]]
        /\ Append(r, request[r].by, t)
  /\ UNCHANGED <<message, marker, shown, missed>>

(***************************************************************************)
(* The insert does nothing when a concurrent first message has won, and    *)
(* the thread is read again.                                               *)
(***************************************************************************)
Create(r) ==
  /\ request[r].pc = "create"
  /\ LET t == request[r].thread
     IN /\ thread' = [thread EXCEPT ![t].open = TRUE]
        /\ Append(r, request[r].by, t)
  /\ UNCHANGED <<message, marker, shown, missed>>

(***************************************************************************)
(* The transaction begins, which is the message's created_at, and inserts  *)
(* it.  Nobody else sees it yet.                                           *)
(***************************************************************************)
Insert(r) ==
  /\ request[r].pc = "insert"
  /\ Stamp
  /\ \E m \in Messages :
       /\ message[m] = Unsent
       /\ message' = [message EXCEPT ![m] =
            [kept |-> FALSE, thread |-> request[r].thread, by |-> request[r].by, at |-> clock + 1]]
       /\ Goto(r, [request[r] EXCEPT !.pc = "update", !.message = m])
       /\ missed' = [v \in Staff |->
            IF v \in Looking(request[r].thread) THEN missed[v] \cup {m} ELSE missed[v]]
  /\ UNCHANGED <<thread, marker, shown, crossed>>

(* Mutation: only the customer's messages leave their time. *)
UpdatedOneSided(row, q) ==
  [row EXCEPT !.count = @ + 1, !.preview = q.message,
              !.customerAt = IF q.thread \notin TeamThreads /\ q.by = Customer THEN q.now ELSE @]

(***************************************************************************)
(* The row of the thread: the count goes up by an expression, the rest is  *)
(* overwritten with what the sender has.  A message between staff leaves   *)
(* the two times alone.                                                    *)
(***************************************************************************)
Updated(row, q) ==
  [row EXCEPT !.count = @ + 1, !.preview = q.message,
              !.customerAt = IF q.thread \notin TeamThreads /\ q.by = Customer THEN q.now ELSE @,
              !.staffAt = IF q.thread \notin TeamThreads /\ q.by # Customer THEN q.now ELSE @]

(***************************************************************************)
(* The update of the thread waits for its row, and the transaction         *)
(* commits.                                                                *)
(***************************************************************************)
Commit(r) ==
  /\ request[r].pc = "update"
  /\ LET q == request[r]
     IN /\ message' = [message EXCEPT ![q.message].kept = TRUE]
        /\ thread' = [thread EXCEPT ![q.thread] = Updated(@, q)]
        /\ missed' = [v \in Staff |->
             IF v \in Looking(q.thread) THEN missed[v] \cup {q.message} ELSE missed[v]]
        /\ Goto(r, [q EXCEPT !.pc = "emit", !.now = 0])
  /\ UNCHANGED <<marker, clock, shown, crossed>>

(* MESSAGE_CREATED and STAFF_MESSAGE_CREATED, after the commit; then the answer. *)
Emit(r) ==
  /\ request[r].pc = "emit"
  /\ Goto(r, [request[r] EXCEPT !.pc = "done"])
  /\ UNCHANGED <<thread, message, marker, clock, shown, missed, crossed>>

-----------------------------------------------------------------------------
(* Reading: findMessages and markRead.                                     *)

(* The newest page of a thread. *)
Page(t) ==
  {m \in Kept(t) : Cardinality({n \in Kept(t) : message[n].at > message[m].at}) < PageSize}

(***************************************************************************)
(* A viewer gets a page and is about to move the marker past all there is: *)
(* what the page leaves out and the viewer has not had is missed.          *)
(***************************************************************************)
Look(r, v, t, page) ==
  /\ request[r].pc = "idle"
  /\ thread[t].open
  /\ Goto(r, [Idle EXCEPT !.pc = "mark", !.thread = t, !.by = v, !.page = page])
  /\ missed' = [missed EXCEPT ![v] = @ \cup (Begun(t) \ (page \cup shown[v]))]
  /\ UNCHANGED <<thread, message, marker, clock, shown, crossed>>

StartRead(r, v, t) == Look(r, v, t, Page(t))

(* The endpoint that marks a thread read without returning it. *)
StartMark(r, v, t) == Look(r, v, t, {})

(* Mutation: one marker for all viewers of a thread. *)
MarkForAll(r) ==
  /\ request[r].pc = "mark"
  /\ Stamp
  /\ marker' = [v \in Staff |-> [marker[v] EXCEPT ![request[r].thread] = clock + 1]]
  /\ Goto(r, [request[r] EXCEPT !.pc = "done"])
  /\ UNCHANGED <<thread, message, shown, missed, crossed>>

(* markRead: upserted per viewer, with the time of the process. *)
Mark(r) ==
  /\ request[r].pc = "mark"
  /\ Stamp
  /\ marker' = [marker EXCEPT ![request[r].by][request[r].thread] = clock + 1]
  /\ Goto(r, [request[r] EXCEPT !.pc = "done"])
  /\ UNCHANGED <<thread, message, shown, missed, crossed>>

-----------------------------------------------------------------------------

(* The answer arrives; a page is shown to whom it was read for. *)
Answer(r) ==
  /\ request[r].pc = "done"
  /\ Goto(r, Idle)
  /\ shown' = [v \in Staff |->
       IF v = request[r].by THEN shown[v] \cup request[r].page ELSE shown[v]]
  /\ UNCHANGED <<thread, message, marker, clock, missed, crossed>>

(***************************************************************************)
(* The request fails or its answer is lost.  An open transaction is rolled *)
(* back; everything else stays.                                            *)
(***************************************************************************)
Die(r) ==
  /\ request[r].pc # "idle"
  /\ message' = IF request[r].pc = "update"
                THEN [message EXCEPT ![request[r].message] = Unsent] ELSE message
  /\ missed' = [v \in Staff |->
       IF v = request[r].by THEN missed[v] \cup request[r].page ELSE missed[v]]
  /\ Goto(r, Idle)
  /\ UNCHANGED <<thread, marker, clock, shown, crossed>>

Start(r) ==
  \E t \in Threads :
    \/ \E w \in Writers : StartSend(r, w, t)
    \/ \E v \in Staff : StartRead(r, v, t) \/ StartMark(r, v, t)

Serve(r) == Create(r) \/ Insert(r) \/ Commit(r) \/ Emit(r) \/ Mark(r)

Next == \E r \in Requests : Start(r) \/ Serve(r) \/ Answer(r) \/ Die(r)

Spec == Init /\ [][Next]_vars

-----------------------------------------------------------------------------

(***************************************************************************)
(* messageCount is the number of messages of the thread, whatever sends    *)
(* overlap, whichever of them fail and however many of them open it.       *)
(***************************************************************************)
CountMatchesThread == \A t \in Threads : thread[t].count = Cardinality(Kept(t))

(***************************************************************************)
(* A message stops being unread for a viewer only because it was shown to  *)
(* that viewer, or on its way, unless it was missed: sent while the viewer *)
(* was reading the thread, beyond the page, or on an answer that was lost. *)
(* What another viewer reads has no part in it ("marking read never        *)
(* affects what anyone else sees as unread").                              *)
(***************************************************************************)
Coming(v) == UNION {request[r].page : r \in {q \in Requests : request[q].by = v}}

ReadIsShown ==
  \A v \in Staff, t \in Threads :
    \A m \in Kept(t) :
      Counts(v, m) => m \in Unread(v, t) \cup shown[v] \cup missed[v] \cup Coming(v)

(***************************************************************************)
(* Where no two sends overlapped, what is kept beside the messages agrees  *)
(* with them: the preview is the newest message, a reply is awaited just   *)
(* when that one is the customer's, and what the customer has not seen is  *)
(* what staff wrote after the customer's last.  (appendMessage says the    *)
(* preview can never disagree; sends that overlap can commit in one order  *)
(* and have taken their times in the other.)                               *)
(***************************************************************************)
Newest(ms) == {m \in ms : \A n \in ms : message[n].at <= message[m].at}
ByCustomer(t) == {m \in Kept(t) : message[m].by = Customer}

InboxAgrees ==
  \A t \in Threads \ crossed :
    /\ {thread[t].preview} \ {None} = Newest(Kept(t))
    /\ t \notin TeamThreads =>
         /\ AwaitingReply(t) <=> Newest(Kept(t)) \cap ByCustomer(t) # {}
         /\ CustomerUnread(t) = {m \in Kept(t) \ ByCustomer(t) :
                                   \A n \in ByCustomer(t) : message[n].at < message[m].at}
=============================================================================

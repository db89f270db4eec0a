------------------------------- MODULE Sessions -------------------------------
(***************************************************************************)
(* Sign-in sessions of one account: modules/auth, the session repository   *)
(* and the writers of staff and customer accounts that revoke sessions.    *)
(*                                                                         *)
(* A session is a row of auth_sessions, found by the digest of the refresh *)
(* token it was issued with; the row stands for its token here.  Requests  *)
(* read and write the account and the rows in statements of their own,     *)
(* nothing is locked, and a request may die between any two of them.       *)
(* Staff and customers go through the same steps; what an account is       *)
(* called is left out, and so are access tokens, which are verified by     *)
(* signature alone and look at neither table.                              *)
(*                                                                         *)
(* The fields password and the flags late and tainted of a row, swept of a *)
(* request, and the variable unswept are history: they record what the row *)
(* was issued on, for the properties, and guard nothing.                   *)
(***************************************************************************)
EXTENDS Naturals

CONSTANTS Requests,      \* requests the API serves at the same time
          Passwords,     \* passwords the account may have
          MaxSessions,   \* bound: sessions ever issued
          None

ASSUME SessionsAssumption == MaxSessions \in Nat /\ None \notin Nat

VARIABLES account,    \* the account's row: password and status
          rows,       \* auth_sessions, in the order they were inserted
          issued,     \* how many there are
          request,    \* the requests under way
          unswept     \* the account changed and no revocation of all followed yet

serverVars == <<account, rows, issued, request, unswept>>

Statuses == {"active", "disabled", "deleted"}
Reasons == {"rotated", "logout", "expired", "reuse", "disabled", "changed"}
Changes == {"password", "disable", "enable", "delete"}
Sessions == 1..MaxSessions

ASSUME ReasonsAssumption == None \notin Reasons

Row == [revoked : Reasons \cup {None}, password : Passwords,
        late : BOOLEAN, tainted : BOOLEAN]

(***************************************************************************)
(* token is the session a request presents, row the one it answers with,   *)
(* reason what it revokes with, change what it does to the account.        *)
(***************************************************************************)
Request ==
  [pc : {"idle", "account", "issue", "revoke", "sweep", "update", "done"},
   token : Sessions \cup {None}, row : Sessions \cup {None},
   reason : Reasons \cup {None}, change : Changes \cup {None},
   password : Passwords \cup {None}, swept : BOOLEAN, tainted : BOOLEAN]

TypeOK ==
  /\ account \in [password : Passwords, status : Statuses]
  /\ issued \in 0..MaxSessions
  /\ rows \in [Sessions -> Row]
  /\ request \in [Requests -> Request]
  /\ unswept \in BOOLEAN

Known == 1..issued
Live(s) == s \in Known /\ rows[s].revoked = None
Running(r) == request[r].pc \notin {"idle", "done"}
Reading(r) == request[r].pc \in {"account", "issue"}

Idle == [pc |-> "idle", token |-> None, row |-> None, reason |-> None,
         change |-> None, password |-> None, swept |-> FALSE, tainted |-> FALSE]
Done(row) == [Idle EXCEPT !.pc = "done", !.row = row]

Init ==
  \E p \in Passwords :
    /\ account = [password |-> p, status |-> "active"]
    /\ rows = [s \in Sessions |-> [revoked |-> None, password |-> p,
                                   late |-> FALSE, tainted |-> FALSE]]
    /\ issued = 0
    /\ request = [r \in Requests |-> Idle]
    /\ unswept = FALSE

Begin(r, q) == /\ request[r].pc = "idle"
               /\ request' = [request EXCEPT ![r] = q]
Goto(r, q) == request' = [request EXCEPT ![r] = q]

-----------------------------------------------------------------------------
(* The operations of a client: sign in, refresh, sign out.                 *)

(***************************************************************************)
(* loginTeam and loginCustomer: the account is read once, the typed        *)
(* password verified against what was read, and a disabled or deleted      *)
(* account refused.                                                        *)
(***************************************************************************)
Accepts(typed) == typed = account.password /\ account.status = "active"

Login(r, typed) ==
  /\ Begin(r, IF Accepts(typed) THEN [Idle EXCEPT !.pc = "issue", !.password = typed]
              ELSE Done(None))
  /\ UNCHANGED <<account, rows, issued, unswept>>

(***************************************************************************)
(* refresh, up to what it makes of the row behind the presented token.     *)
(* Whether the week of the session is over is left open until then.        *)
(***************************************************************************)
Presented(t, expired) ==
  IF rows[t].revoked # None
  THEN [Idle EXCEPT !.pc = "sweep", !.token = t, !.reason = "reuse"]
  ELSE IF expired
  THEN [Idle EXCEPT !.pc = "revoke", !.token = t, !.reason = "expired"]
  ELSE [Idle EXCEPT !.pc = "account", !.token = t,
          !.password = rows[t].password, !.tainted = rows[t].tainted]

Refresh(r, t) ==
  /\ t \in Known
  /\ \E expired \in BOOLEAN : Begin(r, Presented(t, expired))
  /\ UNCHANGED <<account, rows, issued, unswept>>

(* Mutation: the account behind a session is not looked at again. *)
ReadAccountUnchecked(r) ==
  /\ request[r].pc = "account"
  /\ Goto(r, [request[r] EXCEPT !.pc = "issue"])
  /\ UNCHANGED <<account, rows, issued, unswept>>

(***************************************************************************)
(* refresh reads the account behind a live session; one that is disabled   *)
(* or deleted loses all its sessions.                                      *)
(***************************************************************************)
ReadAccount(r) ==
  /\ request[r].pc = "account"
  /\ Goto(r, IF account.status = "active" THEN [request[r] EXCEPT !.pc = "issue"]
             ELSE [Idle EXCEPT !.pc = "sweep", !.reason = "disabled"])
  /\ UNCHANGED <<account, rows, issued, unswept>>

(***************************************************************************)
(* issueTeamSession and issueCustomerSession.  The row is inserted with a  *)
(* digest nobody has and gets the digest of its token in a second update;  *)
(* as the token leaves with the answer only, the two are one step.         *)
(***************************************************************************)
Issue(r) ==
  /\ request[r].pc = "issue"
  /\ issued < MaxSessions
  /\ issued' = issued + 1
  /\ rows' = [rows EXCEPT ![issued + 1] =
       [revoked |-> None, password |-> request[r].password,
        late |-> request[r].swept,
        tainted |-> request[r].swept \/ request[r].tainted]]
  /\ Goto(r, IF request[r].token = None THEN Done(issued + 1)
             ELSE [Idle EXCEPT !.pc = "revoke", !.token = request[r].token,
                     !.row = issued + 1, !.reason = "rotated"])
  /\ UNCHANGED <<account, unswept>>

(***************************************************************************)
(* AuthSessionRepository.revoke: only a row that is live.                  *)
(***************************************************************************)
Revoke(r) ==
  /\ request[r].pc = "revoke"
  /\ rows' = [rows EXCEPT ![request[r].token].revoked =
                IF @ = None THEN request[r].reason ELSE @]
  /\ Goto(r, Done(request[r].row))
  /\ UNCHANGED <<account, issued, unswept>>

(***************************************************************************)
(* revokeAllForSubject: every row that is live when the statement runs.    *)
(* A request that is still to insert its row is not reached.               *)
(***************************************************************************)
Sweep(r) ==
  /\ request[r].pc = "sweep"
  /\ rows' = [s \in Sessions |->
       IF Live(s) THEN [rows[s] EXCEPT !.revoked = request[r].reason] ELSE rows[s]]
  /\ request' = [q \in Requests |->
       IF q = r THEN Done(None) ELSE [request[q] EXCEPT !.swept = Reading(q)]]
  /\ unswept' = FALSE
  /\ UNCHANGED <<account, issued>>

(***************************************************************************)
(* logout: silent about a token that is unknown or revoked.                *)
(***************************************************************************)
Logout(r, t) ==
  /\ t \in Known
  /\ Begin(r, IF rows[t].revoked = None
              THEN [Idle EXCEPT !.pc = "revoke", !.token = t, !.reason = "logout"]
              ELSE Done(None))
  /\ UNCHANGED <<account, rows, issued, unswept>>

-----------------------------------------------------------------------------
(* The writers of the account.                                             *)

(***************************************************************************)
(* changeOwnPassword, resetPassword, setPassword, setActive, changeStatus  *)
(* and the two remove operations find the account first; changeOwnPassword *)
(* also wants the current password, which whoever calls it may have.       *)
(***************************************************************************)
StartChange(r, change) ==
  /\ account.status # "deleted"
  /\ Begin(r, [Idle EXCEPT !.pc = "update", !.change = change])
  /\ UNCHANGED <<account, rows, issued, unswept>>

(***************************************************************************)
(* The update statement names the account's id only: it does not look at   *)
(* what was read.  Everything but an activation is followed by a           *)
(* revocation of all sessions.                                             *)
(***************************************************************************)
Changed(change, p) ==
  CASE change = "password" -> [account EXCEPT !.password = p]
    [] change = "delete" -> [account EXCEPT !.status = "deleted"]
    [] change = "disable" ->
         [account EXCEPT !.status = IF @ = "deleted" THEN @ ELSE "disabled"]
    [] change = "enable" ->
         [account EXCEPT !.status = IF @ = "deleted" THEN @ ELSE "active"]

Update(r) ==
  /\ request[r].pc = "update"
  /\ \E p \in Passwords : account' = Changed(request[r].change, p)
  /\ Goto(r, IF request[r].change = "enable" THEN Done(None)
             ELSE [Idle EXCEPT !.pc = "sweep", !.reason = "changed"])
  /\ unswept' = (unswept \/ request[r].change # "enable")
  /\ UNCHANGED <<rows, issued>>

(***************************************************************************)
(* logoutAll: nothing but the revocation.                                  *)
(***************************************************************************)
LogoutAll(r) ==
  /\ Begin(r, [Idle EXCEPT !.pc = "sweep", !.reason = "changed"])
  /\ UNCHANGED <<account, rows, issued, unswept>>

-----------------------------------------------------------------------------

(***************************************************************************)
(* A statement fails or the process dies: what was written stays, and the  *)
(* client gets an error, or nothing.                                       *)
(***************************************************************************)
Die(r) ==
  /\ Running(r)
  /\ Goto(r, Done(None))
  /\ UNCHANGED <<account, rows, issued, unswept>>

Answer(r) ==
  /\ request[r].pc = "done"
  /\ Goto(r, Idle)
  /\ UNCHANGED <<account, rows, issued, unswept>>

Serve(r) ==
  ReadAccount(r) \/ Issue(r) \/ Revoke(r) \/ Sweep(r) \/ Update(r) \/ Die(r)

Next ==
  \E r \in Requests :
    \/ \E p \in Passwords : Login(r, p)
    \/ \E t \in Sessions : Refresh(r, t) \/ Logout(r, t)
    \/ \E change \in Changes : StartChange(r, change)
    \/ LogoutAll(r)
    \/ Serve(r)
    \/ Answer(r)

Spec == Init /\ [][Next]_serverVars

-----------------------------------------------------------------------------

(***************************************************************************)
(* A session outlives a change of the account that revokes all sessions    *)
(* only through an overlap.  While the account is disabled or deleted, a   *)
(* live session was inserted by a request that was already running when    *)
(* the sessions were revoked; a live session that goes back to a sign-in   *)
(* with an earlier password descends from such a request.  Otherwise the   *)
(* revocation is still to come, or the process died before it.  (refresh   *)
(* looks at the status again but never at the password, so a survivor of a *)
(* password change can be refreshed for good and one of a deactivation     *)
(* cannot.)                                                                *)
(***************************************************************************)
SurvivorsOverlapped ==
  \A s \in Sessions : Live(s) /\ ~unswept =>
    /\ account.status # "active" => rows[s].late
    /\ rows[s].password # account.password => rows[s].tainted
=============================================================================

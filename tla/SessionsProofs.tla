---------------------------- MODULE SessionsProofs ----------------------------
(* Theorems about Sessions for any requests, passwords and number of       *)
(* sessions, and about BrowserSession for any browsers and tabs.           *)
EXTENDS BrowserSession, TLAPS

RowsType == [Sessions -> Row]
RequestsType == [Requests -> Request]

(* What a request holds at the step it is about to take.                   *)
Prepared(q) ==
  /\ q.pc \in {"account", "issue"} => q.password \in Passwords
  /\ q.pc \in {"revoke", "sweep"} => q.reason \in Reasons
  /\ q.pc = "update" => q.change \in Changes

(***************************************************************************)
(* A request that is to insert a row, and read the account or the session  *)
(* before a revocation of all that has run since, knows it (swept).        *)
(***************************************************************************)
Informed(q) ==
  /\ q.pc \in {"account", "issue"} /\ q.password # account.password =>
       unswept \/ q.swept \/ q.tainted
  /\ q.pc = "issue" /\ account.status # "active" => unswept \/ q.swept

IInv ==
  /\ TypeOK
  /\ \A r \in Requests : Prepared(request[r]) /\ Informed(request[r])
  /\ SurvivorsOverlapped

-----------------------------------------------------------------------------

(* Requests that hold nothing.                                             *)
LEMMA EmptyRequests ==
  /\ Idle \in Request /\ Prepared(Idle) /\ Informed(Idle)
  /\ \A row \in Sessions \cup {None} :
       Done(row) \in Request /\ Prepared(Done(row)) /\ Informed(Done(row))
BY DEF Idle, Done, Request, Prepared, Informed

(* A step of one request that leaves account and sessions alone.           *)
LEMMA RequestMoves ==
  ASSUME IInv, NEW r \in Requests, NEW q \in Request, Prepared(q), Informed(q),
         request' = [request EXCEPT ![r] = q], UNCHANGED <<account, rows, issued, unswept>>
  PROVE  IInv'
<1>1. request' \in RequestsType
  BY DEF IInv, TypeOK, RequestsType
<1>2. TypeOK'
  BY <1>1 DEF IInv, TypeOK, RequestsType
<1>3. \A s \in Requests : request'[s] = IF s = r THEN q ELSE request[s]
  BY DEF IInv, TypeOK
<1>4. \A s \in Requests : Prepared(request'[s])
  BY <1>3 DEF IInv
<1>5. \A s \in Requests : Informed(request[s])'
  BY <1>3 DEF IInv, Informed
<1>6. SurvivorsOverlapped'
  BY DEF IInv, SurvivorsOverlapped, Live, Known
<1> QED BY <1>2, <1>4, <1>5, <1>6 DEF IInv

LEMMA InitIInv == Init => IInv
<1> SUFFICES ASSUME Init PROVE IInv
  OBVIOUS
<1>1. PICK p \in Passwords :
        /\ account = [password |-> p, status |-> "active"]
        /\ rows = [s \in Sessions |-> [revoked |-> None, password |-> p,
                                       late |-> FALSE, tainted |-> FALSE]]
        /\ issued = 0 /\ unswept = FALSE
        /\ request = [r \in Requests |-> Idle]
  BY DEF Init
<1>2. TypeOK
  <2>1. [revoked |-> None, password |-> p, late |-> FALSE, tainted |-> FALSE] \in Row
    BY DEF Row
  <2>2. rows \in [Sessions -> Row]
    BY <1>1, <2>1
  <2>3. request \in [Requests -> Request]
    BY <1>1, EmptyRequests
  <2>4. issued \in 0..MaxSessions
    BY <1>1, SessionsAssumption
  <2> QED BY <1>1, <2>2, <2>3, <2>4 DEF TypeOK, Statuses
<1>3. \A s \in Sessions : ~Live(s)
  BY <1>1, SessionsAssumption DEF Live, Known, Sessions
<1>4. \A r \in Requests : Prepared(request[r]) /\ Informed(request[r])
  BY <1>1, EmptyRequests
<1>5. SurvivorsOverlapped
  BY <1>3 DEF SurvivorsOverlapped
<1> QED BY <1>2, <1>4, <1>5 DEF IInv

-----------------------------------------------------------------------------

LEMMA LoginKeeps ==
  ASSUME IInv, NEW r \in Requests, NEW p \in Passwords, Login(r, p)
  PROVE  IInv'
<1> DEFINE q == [Idle EXCEPT !.pc = "issue", !.password = p]
<1>1. Accepts(p) => q \in Request /\ Prepared(q) /\ Informed(q)
  BY DEF Accepts, Idle, Request, Prepared, Informed
<1> HIDE DEF q
<1>2. UNCHANGED <<account, rows, issued, unswept>>
  BY DEF Login
<1>3. \/ request' = [request EXCEPT ![r] = q] /\ Accepts(p)
      \/ request' = [request EXCEPT ![r] = Done(None)]
  BY DEF Login, Begin, q
<1> QED BY <1>1, <1>2, <1>3, EmptyRequests, RequestMoves

(* A token found live brings what its row says of the sign-in behind it.   *)
LEMMA PresentedInformed ==
  ASSUME IInv, NEW t \in Sessions, t \in Known, NEW expired \in BOOLEAN
  PROVE  /\ Presented(t, expired) \in Request
         /\ Prepared(Presented(t, expired)) /\ Informed(Presented(t, expired))
<1>1. rows[t] \in Row
  BY DEF IInv, TypeOK
<1>2. CASE rows[t].revoked # None \/ expired
  BY <1>2 DEF Presented, Idle, Request, Prepared, Informed, Reasons
<1>3. CASE rows[t].revoked = None /\ ~expired
  <2>1. Presented(t, expired) =
          [Idle EXCEPT !.pc = "account", !.token = t,
             !.password = rows[t].password, !.tainted = rows[t].tainted]
    BY <1>3 DEF Presented
  <2>2. rows[t].password # account.password => unswept \/ rows[t].tainted
    BY <1>3 DEF IInv, SurvivorsOverlapped, Live
  <2> QED BY <1>1, <2>1, <2>2 DEF Idle, Row, Request, Prepared, Informed
<1> QED BY <1>2, <1>3

LEMMA RefreshKeeps ==
  ASSUME IInv, NEW r \in Requests, NEW t \in Sessions, Refresh(r, t)
  PROVE  IInv'
<1>1. PICK expired \in BOOLEAN : Begin(r, Presented(t, expired))
  BY DEF Refresh
<1>2. t \in Known /\ UNCHANGED <<account, rows, issued, unswept>>
  BY DEF Refresh
<1> QED BY <1>1, <1>2, PresentedInformed, RequestMoves DEF Begin

LEMMA LogoutKeeps ==
  ASSUME IInv, NEW r \in Requests, NEW t \in Sessions, Logout(r, t)
  PROVE  IInv'
<1> DEFINE q == [Idle EXCEPT !.pc = "revoke", !.token = t, !.reason = "logout"]
<1>1. q \in Request /\ Prepared(q) /\ Informed(q)
  BY DEF Idle, Request, Prepared, Informed, Reasons
<1> HIDE DEF q
<1>2. UNCHANGED <<account, rows, issued, unswept>>
  BY DEF Logout
<1>3. request' = [request EXCEPT ![r] = q]
      \/ request' = [request EXCEPT ![r] = Done(None)]
  BY DEF Logout, Begin, q
<1> QED BY <1>1, <1>2, <1>3, EmptyRequests, RequestMoves

LEMMA ReadAccountKeeps ==
  ASSUME IInv, NEW r \in Requests, ReadAccount(r)
  PROVE  IInv'
<1> DEFINE q == [request[r] EXCEPT !.pc = "issue"]
           d == [Idle EXCEPT !.pc = "sweep", !.reason = "disabled"]
<1>1. request[r] \in Request /\ request[r].pc = "account"
      /\ Prepared(request[r]) /\ Informed(request[r])
  BY DEF IInv, TypeOK, ReadAccount
<1>2. account.status = "active" => q \in Request /\ Prepared(q) /\ Informed(q)
  BY <1>1 DEF Request, Prepared, Informed
<1>3. d \in Request /\ Prepared(d) /\ Informed(d)
  BY DEF Idle, Request, Prepared, Informed, Reasons
<1> HIDE DEF q, d
<1>4. UNCHANGED <<account, rows, issued, unswept>>
  BY DEF ReadAccount
<1>5. \/ account.status = "active" /\ request' = [request EXCEPT ![r] = q]
      \/ request' = [request EXCEPT ![r] = d]
  BY DEF ReadAccount, Goto, q, d
<1> QED BY <1>2, <1>3, <1>4, <1>5, RequestMoves

LEMMA EnterChangeKeeps ==
  ASSUME IInv, NEW r \in Requests,
         (\E change \in Changes : StartChange(r, change)) \/ LogoutAll(r)
  PROVE  IInv'
<1>1. \A change \in Changes :
        LET q == [Idle EXCEPT !.pc = "update", !.change = change]
        IN q \in Request /\ Prepared(q) /\ Informed(q)
  BY DEF Idle, Request, Prepared, Informed
<1>2. LET q == [Idle EXCEPT !.pc = "sweep", !.reason = "changed"]
      IN q \in Request /\ Prepared(q) /\ Informed(q)
  BY DEF Idle, Request, Prepared, Informed, Reasons
<1>3. UNCHANGED <<account, rows, issued, unswept>>
  BY DEF StartChange, LogoutAll
<1>4. \E q \in Request :
        request' = [request EXCEPT ![r] = q] /\ Prepared(q) /\ Informed(q)
  BY <1>1, <1>2 DEF StartChange, LogoutAll, Begin
<1> QED BY <1>3, <1>4, RequestMoves

LEMMA EndKeeps ==
  ASSUME IInv, NEW r \in Requests, Die(r) \/ Answer(r)
  PROVE  IInv'
<1>1. UNCHANGED <<account, rows, issued, unswept>>
  BY DEF Die, Answer
<1>2. request' = [request EXCEPT ![r] = Done(None)] \/ request' = [request EXCEPT ![r] = Idle]
  BY DEF Die, Answer, Goto
<1> QED BY <1>1, <1>2, EmptyRequests, RequestMoves

-----------------------------------------------------------------------------
(* The steps that write the sessions or the account.                       *)

LEMMA IssueKeeps ==
  ASSUME IInv, NEW r \in Requests, Issue(r)
  PROVE  IInv'
<1> DEFINE n == issued + 1
           row == [revoked |-> None, password |-> request[r].password,
                   late |-> request[r].swept,
                   tainted |-> request[r].swept \/ request[r].tainted]
           q == IF request[r].token = None THEN Done(n)
                ELSE [Idle EXCEPT !.pc = "revoke", !.token = request[r].token,
                        !.row = n, !.reason = "rotated"]
<1>1. request[r] \in Request /\ request[r].pc = "issue"
      /\ Prepared(request[r]) /\ Informed(request[r])
  BY DEF IInv, TypeOK, Issue
<1>2. issued \in Nat /\ n \in Sessions /\ issued' = n /\ n \notin Known
  BY SessionsAssumption DEF IInv, TypeOK, Issue, Sessions, Known
<1>3. row \in Row
  BY <1>1 DEF Row, Request, Prepared
<1>4. q \in Request /\ Prepared(q) /\ Informed(q)
  BY <1>1, <1>2, EmptyRequests DEF Idle, Request, Prepared, Informed, Reasons
<1>5. /\ ~unswept /\ account.status # "active" => row.late
      /\ ~unswept /\ row.password # account.password => row.tainted
  BY <1>1 DEF Informed
<1>6. row.revoked = None
  OBVIOUS
<1>7. rows' = [rows EXCEPT ![n] = row] /\ request' = [request EXCEPT ![r] = q]
  BY DEF Issue, Goto
<1> HIDE DEF n, row, q
<1>8. rows' \in RowsType /\ request' \in RequestsType
  BY <1>3, <1>4, <1>7 DEF IInv, TypeOK, RowsType, RequestsType
<1>9. account' = account /\ unswept' = unswept
  BY DEF Issue
<1>10. issued' \in 0..MaxSessions
  BY <1>2, SessionsAssumption DEF Sessions
<1>11. TypeOK'
  BY <1>8, <1>9, <1>10 DEF IInv, TypeOK, RowsType, RequestsType
<1>12. \A s \in Sessions : s \in Known' => s \in Known \/ s = n
  BY <1>2 DEF Known, Sessions, n
<1>13. \A s \in Sessions : rows'[s] = IF s = n THEN row ELSE rows[s]
  BY <1>7 DEF IInv, TypeOK
<1>14. SurvivorsOverlapped'
  BY <1>5, <1>9, <1>12, <1>13 DEF IInv, SurvivorsOverlapped, Live
<1>15. \A s \in Requests : request'[s] = IF s = r THEN q ELSE request[s]
  BY <1>7 DEF IInv, TypeOK
<1>16. \A s \in Requests : Prepared(request'[s])
  BY <1>4, <1>15 DEF IInv
<1>17. \A s \in Requests : Informed(request[s])'
  BY <1>4, <1>9, <1>15 DEF IInv, Informed
<1> QED BY <1>11, <1>14, <1>16, <1>17 DEF IInv

LEMMA RevokeKeeps ==
  ASSUME IInv, NEW r \in Requests, Revoke(r)
  PROVE  IInv'
<1>1. request[r] \in Request /\ request[r].reason \in Reasons
  BY DEF IInv, TypeOK, Revoke, Prepared
<1>2. \A s \in Sessions :
        rows'[s] = rows[s] \/ rows'[s] = [rows[s] EXCEPT !.revoked = request[r].reason]
  BY DEF IInv, TypeOK, Revoke, Row
<1>3. rows' = [s \in Sessions |-> rows'[s]]
  BY DEF IInv, TypeOK, Revoke
<1>4. \A s \in Sessions : rows'[s] \in Row
  BY <1>1, <1>2 DEF IInv, TypeOK, Row
<1>5. rows' \in RowsType
  BY <1>3, <1>4 DEF RowsType
<1>6. request' = [request EXCEPT ![r] = Done(request[r].row)]
      /\ UNCHANGED <<account, issued, unswept>>
  BY DEF Revoke, Goto
<1>7. request[r].row \in Sessions \cup {None}
  BY <1>1 DEF Request
<1>8. request' \in RequestsType
  BY <1>6, <1>7, EmptyRequests DEF IInv, TypeOK, RequestsType
<1>9. TypeOK'
  BY <1>5, <1>6, <1>8 DEF IInv, TypeOK, RowsType, RequestsType
<1>10. \A s \in Requests : request'[s] = IF s = r THEN Done(request[r].row) ELSE request[s]
  BY <1>6 DEF IInv, TypeOK
<1>11. \A s \in Requests : Prepared(request'[s])
  BY <1>7, <1>10, EmptyRequests DEF IInv
<1>12. \A s \in Requests : Informed(request[s])'
  BY <1>6, <1>7, <1>10, EmptyRequests DEF IInv, Informed
<1>13. \A s \in Sessions : rows'[s].late = rows[s].late /\ rows'[s].tainted = rows[s].tainted
                           /\ rows'[s].password = rows[s].password
  BY <1>2 DEF IInv, TypeOK, Row
<1>14. \A s \in Sessions : rows'[s].revoked = None => rows[s].revoked = None
  <2>1. SUFFICES ASSUME NEW s \in Sessions, rows'[s].revoked = None
                 PROVE  rows[s].revoked = None
    OBVIOUS
  <2> QED BY <2>1 DEF IInv, TypeOK, Revoke, Row
<1>15. SurvivorsOverlapped'
  BY <1>6, <1>13, <1>14 DEF IInv, SurvivorsOverlapped, Live, Known
<1> QED BY <1>9, <1>11, <1>12, <1>15 DEF IInv

LEMMA SweepKeeps ==
  ASSUME IInv, NEW r \in Requests, Sweep(r)
  PROVE  IInv'
<1>1. request[r].reason \in Reasons
  BY DEF IInv, Sweep, Prepared
<1>2. rows' = [s \in Sessions |->
        IF Live(s) THEN [rows[s] EXCEPT !.revoked = request[r].reason] ELSE rows[s]]
  BY DEF Sweep
<1>3. \A s \in Sessions :
        rows[s] \in Row /\ [rows[s] EXCEPT !.revoked = request[r].reason] \in Row
  BY <1>1 DEF IInv, TypeOK, Row
<1>4. rows' \in RowsType
  BY <1>2, <1>3 DEF RowsType
<1>5. \A s \in Requests :
        request'[s] = IF s = r THEN Done(None)
                      ELSE [request[s] EXCEPT !.swept = Reading(s)]
  BY DEF Sweep
<1>6. \A s \in Requests : request[s] \in Request
  BY DEF IInv, TypeOK
<1>7. \A s \in Requests : [request[s] EXCEPT !.swept = Reading(s)] \in Request
  <2>1. \A q \in Request, b \in BOOLEAN : [q EXCEPT !.swept = b] \in Request
    BY DEF Request
  <2>2. \A s \in Requests : Reading(s) \in BOOLEAN
    BY DEF Reading
  <2> QED BY <1>6, <2>1, <2>2
<1>8. \A s \in Requests : request'[s] \in Request
  BY <1>5, <1>7, EmptyRequests
<1>9. request' = [s \in Requests |-> request'[s]]
  BY DEF Sweep
<1>10. request' \in RequestsType
  BY <1>8, <1>9 DEF RequestsType
<1>11. TypeOK'
  BY <1>4, <1>10 DEF IInv, TypeOK, Sweep, RowsType, RequestsType
<1>12. \A s \in Requests : s # r =>
         /\ request'[s].pc = request[s].pc /\ request'[s].password = request[s].password
         /\ request'[s].reason = request[s].reason /\ request'[s].change = request[s].change
         /\ request'[s].swept = (request[s].pc \in {"account", "issue"})
  BY <1>5, <1>6 DEF Request, Reading
<1>13. \A s \in Requests : s # r => Prepared(request'[s]) /\ Informed(request[s])'
  BY <1>12 DEF IInv, Prepared, Informed
<1>14. Prepared(request'[r]) /\ Informed(request[r])'
  BY <1>5 DEF Done, Idle, Prepared, Informed
<1>15. \A s \in Sessions : ~Live(s)'
  <2>1. issued' = issued
    BY DEF Sweep
  <2>2. \A s \in Sessions : Live(s) => rows'[s].revoked = request[r].reason
    BY <1>2, <1>3 DEF Row
  <2>3. None \notin Reasons
    BY ReasonsAssumption
  <2> QED BY <1>1, <1>2, <2>1, <2>2, <2>3 DEF Live, Known
<1>16. SurvivorsOverlapped'
  BY <1>15 DEF SurvivorsOverlapped
<1> QED BY <1>11, <1>13, <1>14, <1>16 DEF IInv

LEMMA UpdateKeeps ==
  ASSUME IInv, NEW r \in Requests, Update(r)
  PROVE  IInv'
<1>1. request[r] \in Request /\ request[r].change \in Changes
  BY DEF IInv, TypeOK, Update, Prepared
<1>2. PICK p \in Passwords : account' = Changed(request[r].change, p)
  BY DEF Update
<1>3. account' \in [password : Passwords, status : Statuses]
  BY <1>1, <1>2 DEF IInv, TypeOK, Changed, Changes, Statuses
<1>4. request[r].change = "enable" =>
        /\ account'.password = account.password
        /\ account'.status # "active" => account.status # "active"
  BY <1>2 DEF IInv, TypeOK, Changed, Statuses
<1> DEFINE d == [Idle EXCEPT !.pc = "sweep", !.reason = "changed"]
<1>5. d \in Request /\ Prepared(d) /\ d.pc \notin {"account", "issue"}
  BY DEF Idle, Request, Prepared, Reasons
<1>6. \E q \in Request : /\ request' = [request EXCEPT ![r] = q]
                         /\ Prepared(q) /\ q.pc \notin {"account", "issue"}
  <2>1. request' = [request EXCEPT ![r] = Done(None)] \/ request' = [request EXCEPT ![r] = d]
    BY DEF Update, Goto
  <2>2. Done(None).pc \notin {"account", "issue"}
    BY DEF Done, Idle
  <2> QED BY <1>5, <2>1, <2>2, EmptyRequests
<1>7. PICK q \in Request : /\ request' = [request EXCEPT ![r] = q]
                           /\ Prepared(q) /\ q.pc \notin {"account", "issue"}
  BY <1>6
<1>8. unswept' \in BOOLEAN /\ (~unswept' => request[r].change = "enable" /\ ~unswept)
      /\ UNCHANGED <<rows, issued>>
  BY DEF Update, IInv, TypeOK
<1>9. request' \in RequestsType
  BY <1>7 DEF IInv, TypeOK, RequestsType
<1>10. TypeOK'
  BY <1>3, <1>8, <1>9 DEF IInv, TypeOK, RequestsType
<1>11. \A s \in Requests : request'[s] = IF s = r THEN q ELSE request[s]
  BY <1>7 DEF IInv, TypeOK
<1>12. \A s \in Requests : Prepared(request'[s])
  BY <1>7, <1>11 DEF IInv
<1>13. \A s \in Requests : Informed(request[s])'
  BY <1>4, <1>7, <1>8, <1>11 DEF IInv, Informed
<1>14. SurvivorsOverlapped'
  BY <1>4, <1>8 DEF IInv, SurvivorsOverlapped, Live, Known
<1> QED BY <1>10, <1>12, <1>13, <1>14 DEF IInv

-----------------------------------------------------------------------------

LEMMA NextIInv == IInv /\ [Next]_serverVars => IInv'
<1> SUFFICES ASSUME IInv, [Next]_serverVars PROVE IInv'
  OBVIOUS
<1>1. CASE UNCHANGED serverVars
  BY <1>1 DEF serverVars, IInv, TypeOK, Informed, SurvivorsOverlapped, Live, Known
<1>2. ASSUME NEW r \in Requests, NEW p \in Passwords, Login(r, p) PROVE IInv'
  BY <1>2, LoginKeeps
<1>3. ASSUME NEW r \in Requests, NEW t \in Sessions, Refresh(r, t) \/ Logout(r, t) PROVE IInv'
  BY <1>3, RefreshKeeps, LogoutKeeps
<1>4. ASSUME NEW r \in Requests,
             (\E change \in Changes : StartChange(r, change)) \/ LogoutAll(r)
      PROVE  IInv'
  BY <1>4, EnterChangeKeeps
<1>5. ASSUME NEW r \in Requests, Serve(r) \/ Answer(r) PROVE IInv'
  BY <1>5, ReadAccountKeeps, IssueKeeps, RevokeKeeps, SweepKeeps, UpdateKeeps, EndKeeps DEF Serve
<1> QED BY <1>1, <1>2, <1>3, <1>4, <1>5 DEF Next

(***************************************************************************)
(* The account, the sessions and every request keep their shape.           *)
(***************************************************************************)
THEOREM TypeCorrect == Spec => []TypeOK
<1>1. IInv => TypeOK
  BY DEF IInv
<1> QED BY InitIInv, NextIInv, <1>1, PTL DEF Spec

(***************************************************************************)
(* Whoever signs in, refreshes and administers at the same time, and       *)
(* wherever requests die: a session that outlives a password change, a     *)
(* deactivation or a removal was issued by a request that overlapped the   *)
(* revocation, or descends from one that did.                              *)
(***************************************************************************)
THEOREM OnlyOverlapSurvives == Spec => []SurvivorsOverlapped
<1>1. IInv => SurvivorsOverlapped
  BY DEF IInv
<1> QED BY InitIInv, NextIInv, <1>1, PTL DEF Spec
-----------------------------------------------------------------------------
(***************************************************************************)
(* Browsers.  Whatever a tab does is a step of the session endpoints or    *)
(* leaves them alone, so what was proved of them holds behind a web app.   *)
(***************************************************************************)
ClientTyped ==
  /\ jar \in [Browsers -> Jar]
  /\ tab \in [Tabs -> Tab]
  /\ \A t \in Tabs : /\ tab[t].cookies \in {"apply", "create"} => tab[t].row # None
                     /\ tab[t].phase # "answer" => tab[t].row = None
  /\ lost \in [Browsers -> BOOLEAN]

LEMMA BrowserStep ==
  ASSUME ClientTyped, [BrowserNext]_vars
  PROVE  [Next]_serverVars
<1>1. ASSUME NEW t \in Tabs, OpenLogin(t) \/ Submit(t) \/ OpenPage(t)
      PROVE  [Next]_serverVars
  <2>1. Cookies(t).refresh # None => Cookies(t).refresh \in Sessions
    BY BrowserAssumption DEF ClientTyped, Jar, Cookies
  <2> QED BY <1>1, <2>1 DEF OpenLogin, Submit, PassLogin, OpenPage, Next, Tabs
<1>2. ASSUME NEW t \in Tabs, OpenLogout(t) PROVE [Next]_serverVars
  <2>1. Cookies(t).refresh # None => Cookies(t).refresh \in Sessions
    BY BrowserAssumption DEF ClientTyped, Jar, Cookies
  <2> QED BY <1>2, <2>1 DEF OpenLogout, Next, Tabs
<1>3. ASSUME NEW t \in Tabs, LoginRefreshed(t) \/ PageRefreshed(t) \/ LoggedOut(t) \/ SignedIn(t)
      PROVE  [Next]_serverVars
  BY <1>3 DEF LoginRefreshed, PageRefreshed, LoggedOut, SignedIn, Next, Tabs
<1>4. ASSUME NEW t \in Tabs, NEW p \in Passwords, SignIn(t, p) PROVE [Next]_serverVars
  BY <1>4 DEF SignIn, Next, Tabs
<1>5. ASSUME NEW t \in Tabs, Serving(t) PROVE [Next]_serverVars
  BY <1>5 DEF Serving, Next, Tabs
<1>6. CASE UNCHANGED serverVars
  BY <1>6
<1> QED BY <1>1, <1>2, <1>3, <1>4, <1>5, <1>6
        DEF BrowserNext, Disturbance, Load, Visit, AccessExpires, ActorExpires, RefreshExpires,
            Receive, Lose, vars

(* What an answer makes of the cookies.                                    *)
LEMMA SetTyped ==
  ASSUME NEW old \in Jar, NEW answer \in Tab,
         answer.cookies \in {"apply", "create"} => answer.row # None
  PROVE  /\ Set(old, answer) \in Jar
         /\ CASE answer.cookies = "keep" -> Set(old, answer) = old
              [] answer.cookies = "clear" -> Set(old, answer).refresh = None
              [] OTHER -> /\ Set(old, answer).refresh = answer.row
                          /\ answer.row \in Sessions
<1>1. CASE answer.cookies = "keep"
  BY <1>1 DEF Set
<1>2. CASE answer.cookies = "clear"
  BY <1>2 DEF Set, NoCookies, Jar
<1>3. CASE answer.cookies = "apply"
  BY <1>3 DEF Set, Applied, Jar, Tab
<1>4. CASE answer.cookies = "create"
  BY <1>4 DEF Set, Created, Jar, Tab
<1> QED BY <1>1, <1>2, <1>3, <1>4 DEF Tab

(* A tab that moves on leaves the cookies to themselves.                   *)
LEMMA MoveTyped ==
  ASSUME ClientTyped, NEW t \in Tabs, NEW new \in Tab, Move(t, new),
         new.cookies \in {"apply", "create"} => new.row # None,
         new.phase # "answer" => new.row = None
  PROVE  ClientTyped'
BY DEF ClientTyped, Move

LEMMA AtTyped ==
  /\ \A phase \in {"rest", "go", "api"}, at \in Paths \cup Places \cup {"sign-in"} :
       /\ At(phase, at) \in Tab /\ At(phase, at).cookies = "keep" /\ At(phase, at).row = None
  /\ \A cookies \in {"keep", "clear"} :
       /\ Posted(cookies) \in Tab /\ Posted(cookies).cookies = cookies
       /\ Posted(cookies).row = None
  /\ \A cookies \in {"keep", "clear"}, at \in Paths \cup Places :
       /\ Answered(cookies, None, at) \in Tab /\ Answered(cookies, None, at).cookies = cookies
       /\ Answered(cookies, None, at).phase = "answer"
  /\ \A cookies \in {"apply", "create"}, at \in Paths \cup Places, row \in Sessions :
       /\ Answered(cookies, row, at) \in Tab /\ row # None
       /\ Answered(cookies, row, at).row = row
       /\ Answered(cookies, row, at).phase = "answer"
BY SessionsAssumption DEF At, Posted, Answered, Tab, Sessions, Paths, Places

LEMMA ClientKeepsTypes ==
  ASSUME TypeOK, ClientTyped, [BrowserNext]_vars
  PROVE  ClientTyped'
<1> USE AtTyped DEF Paths, Places, Rendered
<1>t. \A t \in Tabs : request[t].row # None => request[t].row \in Sessions
  BY DEF TypeOK, Request, Tabs
<1>1. ASSUME NEW t \in Tabs, NEW path \in Paths, Visit(t, path) PROVE ClientTyped'
  BY <1>1, MoveTyped DEF Visit
<1>2. ASSUME NEW t \in Tabs, OpenLogin(t) \/ Submit(t) PROVE ClientTyped'
  <2>1. PICK cookies \in {"keep", "clear"}, at \in {"/dashboard", "form"}, asking \in {"/login", "sign-in"} :
          \/ Move(t, Answered(cookies, None, at))
          \/ Move(t, At("api", asking))
          \/ Move(t, Posted(cookies))
    BY <1>2 DEF OpenLogin, Submit, PassLogin, LoginPage
  <2> QED BY <2>1, MoveTyped
<1>3. ASSUME NEW t \in Tabs, OpenPage(t) PROVE ClientTyped'
  <2>1. PICK cookies \in {"keep", "clear"}, at \in {"page", "/logout", "/login"} :
          \/ Move(t, Answered(cookies, None, at))
          \/ Move(t, At("api", "/dashboard"))
    BY <1>3 DEF OpenPage
  <2> QED BY <2>1, MoveTyped
<1>4. ASSUME NEW t \in Tabs, OpenLogout(t) PROVE ClientTyped'
  BY <1>4, MoveTyped DEF OpenLogout
<1>5. ASSUME NEW t \in Tabs, LoginRefreshed(t) PROVE ClientTyped'
  <2>1. PICK at \in {"/dashboard", "form"} :
          \/ request[t].row # None /\ Move(t, Answered("apply", request[t].row, at))
          \/ Move(t, Answered("clear", None, at))
          \/ Move(t, Posted("clear"))
    BY <1>5 DEF LoginRefreshed, LoginPage
  <2> QED BY <2>1, <1>t, MoveTyped
<1>6. ASSUME NEW t \in Tabs, PageRefreshed(t) PROVE ClientTyped'
  <2>1. PICK at \in {"page", "/logout"} :
          \/ request[t].row # None /\ Move(t, Answered("apply", request[t].row, at))
          \/ Move(t, Answered("clear", None, "/login"))
    BY <1>6 DEF PageRefreshed
  <2> QED BY <2>1, <1>t, MoveTyped
<1>7. ASSUME NEW t \in Tabs, LoggedOut(t) PROVE ClientTyped'
  BY <1>7, MoveTyped DEF LoggedOut
<1>8. ASSUME NEW t \in Tabs, SignedIn(t) PROVE ClientTyped'
  <2>1. tab[t].cookies \in {"keep", "clear"}
    BY <1>8 DEF SignedIn, Waiting, ClientTyped, Tab
  <2>2. \/ request[t].row # None /\ Move(t, Answered("create", request[t].row, "/dashboard"))
        \/ Move(t, Answered(tab[t].cookies, None, "form"))
    BY <1>8 DEF SignedIn
  <2> QED BY <2>1, <2>2, <1>t, MoveTyped
<1>9. ASSUME NEW t \in Tabs, NEW p \in Passwords, SignIn(t, p) PROVE ClientTyped'
  <2> DEFINE new == [tab[t] EXCEPT !.phase = "api"]
  <2>1. Move(t, new) /\ tab[t].phase = "post"
    BY <1>9 DEF SignIn
  <2>2. tab[t] \in Tab /\ tab[t].row = None /\ tab[t].cookies \notin {"apply", "create"}
    BY <2>1 DEF ClientTyped
  <2>3. new \in Tab /\ new.row = None /\ new.cookies = tab[t].cookies
    BY <2>2 DEF Tab
  <2> HIDE DEF new
  <2> QED BY <2>1, <2>2, <2>3, MoveTyped
<1>10. ASSUME NEW t \in Tabs, Receive(t) PROVE ClientTyped'
  <2>1. /\ jar[Home[t]] \in Jar /\ tab[t] \in Tab /\ Home[t] \in Browsers
        /\ tab[t].cookies \in {"apply", "create"} => tab[t].row # None
    BY BrowserAssumption DEF ClientTyped
  <2>2. Set(jar[Home[t]], tab[t]) \in Jar
    BY <2>1, SetTyped
  <2>3. At(IF tab[t].at \in Places THEN "rest" ELSE "go", tab[t].at) \in Tab
    BY <2>1 DEF Tab
  <2>4. /\ At(IF tab[t].at \in Places THEN "rest" ELSE "go", tab[t].at).cookies = "keep"
        /\ At(IF tab[t].at \in Places THEN "rest" ELSE "go", tab[t].at).row = None
    BY DEF At
  <2> QED BY <1>10, <2>1, <2>2, <2>3, <2>4 DEF Receive, ClientTyped
<1>11. ASSUME NEW t \in Tabs, Lose(t) PROVE ClientTyped'
  <2>1. Home[t] \in Browsers
    BY BrowserAssumption
  <2> QED BY <1>11, <2>1 DEF Lose, ClientTyped
<1>12. ASSUME NEW b \in Browsers, AccessExpires(b) \/ ActorExpires(b) \/ RefreshExpires(b)
       PROVE  ClientTyped'
  <2>j. jar[b] \in Jar
    BY DEF ClientTyped
  <2>1. CASE AccessExpires(b)
    <3>1. PICK left \in {"stale", "none"} : jar' = [jar EXCEPT ![b].access = left]
      BY <2>1 DEF AccessExpires
    <3>2. [jar[b] EXCEPT !.access = left] \in Jar
      BY <2>j DEF Jar
    <3> QED BY <2>1, <3>1, <3>2 DEF AccessExpires, ClientTyped
  <2>2. CASE ActorExpires(b)
    <3>1. [jar[b] EXCEPT !.actor = FALSE] \in Jar
      BY <2>j DEF Jar
    <3> QED BY <2>2, <3>1 DEF ActorExpires, ClientTyped
  <2>3. CASE RefreshExpires(b)
    BY <2>3 DEF RefreshExpires, ClientTyped, Jar
  <2> QED BY <1>12, <2>1, <2>2, <2>3
<1>13. CASE UNCHANGED <<jar, tab, lost>>
  BY <1>13 DEF ClientTyped
<1> QED BY <1>1, <1>2, <1>3, <1>4, <1>5, <1>6, <1>7, <1>8, <1>9, <1>10, <1>11, <1>12, <1>13
        DEF BrowserNext, Disturbance, Load, Serving, vars

LEMMA InitClient == BrowserInit => ClientTyped
BY SessionsAssumption, AtTyped DEF BrowserInit, ClientTyped, Jar, NoCookies, Paths, Places

(* Behind a web app the session endpoints keep to their specification.     *)
THEOREM BrowserImplementsSessions == BrowserSpec => Spec
<1>1. BrowserInit => Init /\ IInv
  BY InitIInv DEF BrowserInit
<1>2. IInv /\ ClientTyped /\ [BrowserNext]_vars => IInv' /\ ClientTyped'
  BY BrowserStep, NextIInv, ClientKeepsTypes DEF IInv
<1>3. ClientTyped /\ [BrowserNext]_vars => [Next]_serverVars
  BY BrowserStep
<1> QED BY <1>1, <1>2, <1>3, InitClient, PTL DEF BrowserSpec, Spec

(* Cookies name sessions, tabs show pages, and an answer that sets a       *)
(* refresh cookie has one, for any number of browsers and tabs.            *)
THEOREM BrowserTypeCorrect == BrowserSpec => []BrowserTypeOK
<1>1. BrowserInit => IInv
  BY InitIInv DEF BrowserInit
<1>2. IInv /\ ClientTyped /\ [BrowserNext]_vars => IInv' /\ ClientTyped'
  BY BrowserStep, NextIInv, ClientKeepsTypes DEF IInv
<1>3. IInv /\ ClientTyped => BrowserTypeOK
  BY DEF IInv, ClientTyped, BrowserTypeOK
<1> QED BY <1>1, <1>2, <1>3, InitClient, PTL DEF BrowserSpec
-----------------------------------------------------------------------------
(***************************************************************************)
(* Tokens in browsers.  A session on its way to a tab is known to nobody   *)
(* else, so the one that replaces the cookie is fresh; a session in the    *)
(* cookie of one browser is presented by its tabs only; and if it has been *)
(* retired there, one of those tabs is going to replace it: it waits for   *)
(* the API with it, or has an answer or a posted form that sets cookies.   *)
(***************************************************************************)
Retired(s) == rows[s].revoked \in {"rotated", "logout"}
Pending(t, s) == tab[t].row = s \/ request[t].row = s
Replacing(t) ==
  \/ tab[t].phase = "api" /\ tab[t].at # "form"
  \/ tab[t].cookies # "keep"

InStep(t) ==
  /\ tab[t].phase = "api" \/ request[t] = Idle
  /\ tab[t].phase \in {"rest", "go"} => tab[t].cookies = "keep"
  /\ request[t].token # None => tab[t].at # "form" /\ request[t].token \in Known
  /\ request[t].pc = "sweep" => request[t].reason \notin {"rotated", "logout"}

OnItsWay(t) ==
  \A s \in Sessions : Pending(t, s) =>
    /\ s \in Known /\ ~Retired(s)
    /\ \A b \in Browsers : jar[b].refresh # s
    /\ \A u \in Tabs : request[u].token # s /\ (Pending(u, s) => u = t)

InCookie(b) ==
  \A s \in Sessions : jar[b].refresh = s =>
    /\ s \in Known
    /\ \A c \in Browsers : jar[c].refresh = s => c = b
    /\ \A t \in Tabs : request[t].token = s => Home[t] = b
    /\ Retired(s) /\ ~lost[b] => \E t \in Tabs : Home[t] = b /\ Replacing(t)

TokensInvariant ==
  /\ \A t \in Tabs : InStep(t) /\ OnItsWay(t)
  /\ \A b \in Browsers : InCookie(b)

BrowserInvariant == IInv /\ ClientTyped /\ TokensInvariant

LEMMA BrowserTypes ==
  ASSUME BrowserInvariant
  PROVE  /\ rows \in [Sessions -> Row] /\ request \in [Tabs -> Request]
         /\ jar \in [Browsers -> Jar] /\ tab \in [Tabs -> Tab] /\ lost \in [Browsers -> BOOLEAN]
         /\ \A t \in Tabs : Home[t] \in Browsers
         /\ issued \in Nat /\ None \notin Sessions /\ Known \subseteq Sessions
BY BrowserAssumption, SessionsAssumption
   DEF BrowserInvariant, IInv, TypeOK, ClientTyped, Tabs, Sessions, Known

(* A tab at rest or about to go takes an answer that brings no session.    *)
LEMMA TabMoves ==
  ASSUME BrowserInvariant, NEW t \in Tabs, NEW new, Move(t, new), UNCHANGED serverVars,
         tab[t].phase \in {"rest", "go"}, new.row = None, new.phase # "api",
         new.phase \in {"rest", "go"} => new.cookies = "keep"
  PROVE  TokensInvariant'
<1>1. /\ tab' = [tab EXCEPT ![t] = new] /\ UNCHANGED <<jar, lost, rows, request, issued>>
  BY DEF Move, serverVars
<1>2. request[t] = Idle /\ ~Replacing(t) /\ Idle.token = None /\ Idle.row = None /\ Idle.pc = "idle"
  BY DEF BrowserInvariant, TokensInvariant, InStep, Replacing, Idle
<1>3. \A u \in Tabs : tab'[u] = IF u = t THEN new ELSE tab[u]
  BY <1>1, BrowserTypes
<1>4. \A u \in Tabs, s \in Sessions : Pending(u, s)' => Pending(u, s)
  BY <1>1, <1>3, BrowserTypes DEF Pending
<1>5. ASSUME NEW u \in Tabs PROVE InStep(u)' /\ OnItsWay(u)'
  <2>1. InStep(u)'
    BY <1>1, <1>2, <1>3 DEF BrowserInvariant, TokensInvariant, InStep, Known
  <2>2. OnItsWay(u)'
    BY <1>1, <1>4 DEF BrowserInvariant, TokensInvariant, OnItsWay, Retired, Known
  <2> QED BY <2>1, <2>2
<1>6. ASSUME NEW b \in Browsers PROVE InCookie(b)'
  <2>1. \A u \in Tabs : Replacing(u) => Replacing(u)'
    BY <1>2, <1>3 DEF Replacing
  <2> QED BY <1>1, <2>1 DEF BrowserInvariant, TokensInvariant, InCookie, Retired, Known
<1> QED BY <1>5, <1>6 DEF TokensInvariant

(* A tab calls the API, with the token of its browser if it presents one.  *)
LEMMA TabCalls ==
  ASSUME BrowserInvariant, NEW t \in Tabs, NEW new, NEW q, Move(t, new),
         tab[t].phase # "api", tab[t].cookies \in {"keep", new.cookies},
         new.phase = "api", new.row = None, request' = [request EXCEPT ![t] = q],
         UNCHANGED <<rows, issued>>, q.row = None,
         q.token # None => new.at # "form" /\ q.token = Cookies(t).refresh /\ q.token \in Known,
         q.pc = "sweep" => q.reason \notin {"rotated", "logout"}
  PROVE  TokensInvariant'
<1>1. tab' = [tab EXCEPT ![t] = new] /\ UNCHANGED <<jar, lost>>
  BY DEF Move
<1>2. Replacing(t) => new.cookies # "keep"
  BY DEF Replacing
<1>3. \A u \in Tabs : /\ tab'[u] = IF u = t THEN new ELSE tab[u]
                      /\ request'[u] = IF u = t THEN q ELSE request[u]
  BY <1>1, BrowserTypes
<1>4. \A u \in Tabs, s \in Sessions : Pending(u, s)' => Pending(u, s) /\ u # t
  BY <1>3, BrowserTypes DEF Pending
<1>5. ASSUME NEW u \in Tabs PROVE InStep(u)' /\ OnItsWay(u)'
  <2>1. InStep(u)'
    <3>1. CASE u = t
      BY <1>3, <3>1 DEF InStep, Known
    <3>2. CASE u # t
      BY <1>3, <3>2 DEF BrowserInvariant, TokensInvariant, InStep, Known
    <3> QED BY <3>1, <3>2
  <2>2. OnItsWay(u)'
    <3> SUFFICES ASSUME NEW s \in Sessions, Pending(u, s)'
                 PROVE  /\ s \in Known' /\ ~Retired(s)'
                        /\ \A b \in Browsers : jar'[b].refresh # s
                        /\ \A v \in Tabs : request'[v].token # s /\ (Pending(v, s)' => v = u)
      BY DEF OnItsWay
    <3>1. /\ s \in Known /\ ~Retired(s)
          /\ \A b \in Browsers : jar[b].refresh # s
          /\ \A v \in Tabs : request[v].token # s /\ (Pending(v, s) => v = u)
      BY <1>4 DEF BrowserInvariant, TokensInvariant, OnItsWay
    <3>2. q.token # s
      BY <3>1, BrowserTypes DEF Cookies
    <3> QED BY <1>1, <1>3, <1>4, <3>1, <3>2 DEF Retired, Known
  <2> QED BY <2>1, <2>2
<1>6. ASSUME NEW b \in Browsers PROVE InCookie(b)'
  <2> SUFFICES ASSUME NEW s \in Sessions, jar[b].refresh = s
               PROVE  /\ s \in Known'
                      /\ \A c \in Browsers : jar[c].refresh = s => c = b
                      /\ \A u \in Tabs : request'[u].token = s => Home[u] = b
                      /\ Retired(s)' /\ ~lost[b] => \E u \in Tabs : Home[u] = b /\ Replacing(u)'
    BY <1>1 DEF InCookie
  <2>1. /\ s \in Known
        /\ \A c \in Browsers : jar[c].refresh = s => c = b
        /\ \A u \in Tabs : request[u].token = s => Home[u] = b
        /\ Retired(s) /\ ~lost[b] => \E u \in Tabs : Home[u] = b /\ Replacing(u)
    BY DEF BrowserInvariant, TokensInvariant, InCookie
  <2>2. q.token = s => Home[t] = b
    BY <2>1, BrowserTypes DEF Cookies
  <2>3. \A u \in Tabs : Replacing(u) => Replacing(u)'
    BY <1>2, <1>3 DEF Replacing
  <2> QED BY <1>1, <1>3, <2>1, <2>2, <2>3 DEF Retired, Known
<1> QED BY <1>5, <1>6 DEF TokensInvariant

(* A tab takes the answer of the API.                                      *)
LEMMA TabAnswered ==
  ASSUME BrowserInvariant, NEW t \in Tabs, NEW new, Move(t, new), tab[t].phase = "api", Answer(t),
         new.phase \in {"post", "answer"}, new.row \in {None, request[t].row},
         new.cookies = "keep" => tab[t].at = "form" /\ tab[t].cookies = "keep"
  PROVE  TokensInvariant'
<1>1. /\ tab' = [tab EXCEPT ![t] = new]
      /\ request' = [request EXCEPT ![t] = Idle]
      /\ UNCHANGED <<jar, lost, rows, issued>>
  BY DEF Move, Answer, Goto
<1>2. \A u \in Tabs : /\ tab'[u] = IF u = t THEN new ELSE tab[u]
                      /\ request'[u] = IF u = t THEN Idle ELSE request[u]
  BY <1>1, BrowserTypes
<1>3. Idle.token = None /\ Idle.row = None /\ Idle.pc = "idle"
  BY DEF Idle
<1>4. \A u \in Tabs, s \in Sessions : Pending(u, s)' => Pending(u, s)
  BY <1>2, <1>3, BrowserTypes DEF Pending
<1>5. ASSUME NEW u \in Tabs PROVE InStep(u)' /\ OnItsWay(u)'
  <2>1. InStep(u)'
    BY <1>1, <1>2, <1>3 DEF BrowserInvariant, TokensInvariant, InStep, Known
  <2>2. \A v \in Tabs, s \in Sessions : request'[v].token = s => request[v].token = s
    BY <1>2, <1>3, BrowserTypes
  <2>3. OnItsWay(u)'
    BY <1>1, <1>4, <2>2 DEF BrowserInvariant, TokensInvariant, OnItsWay, Retired, Known
  <2> QED BY <2>1, <2>3
<1>6. ASSUME NEW b \in Browsers PROVE InCookie(b)'
  <2>1. \A u \in Tabs : Replacing(u) => Replacing(u)'
    BY <1>2, <1>3 DEF Replacing
  <2>2. \A v \in Tabs, s \in Sessions : request'[v].token = s => request[v].token = s
    BY <1>2, <1>3, BrowserTypes
  <2> QED BY <1>1, <2>1, <2>2 DEF BrowserInvariant, TokensInvariant, InCookie, Retired, Known
<1> QED BY <1>5, <1>6 DEF TokensInvariant

(* A request goes on without touching the sessions.                        *)
LEMMA RequestGoesOn ==
  ASSUME BrowserInvariant, NEW t \in Tabs, NEW q, request[t] # Idle,
         request' = [request EXCEPT ![t] = q], UNCHANGED <<rows, issued, jar, tab, lost>>,
         q.row \in {None, request[t].row}, q.token \in {None, request[t].token},
         q.pc = "sweep" => q.reason \notin {"rotated", "logout"}
  PROVE  TokensInvariant'
<1>1. \A u \in Tabs : request'[u] = IF u = t THEN q ELSE request[u]
  BY BrowserTypes
<1>2. \A u \in Tabs, s \in Sessions : /\ Pending(u, s)' => Pending(u, s)
                                      /\ request'[u].token = s => request[u].token = s
  BY <1>1, BrowserTypes DEF Pending
<1>3. ASSUME NEW u \in Tabs PROVE InStep(u)' /\ OnItsWay(u)'
  <2>1. InStep(u)'
    BY <1>1 DEF BrowserInvariant, TokensInvariant, InStep, Known
  <2>2. OnItsWay(u)'
    BY <1>2 DEF BrowserInvariant, TokensInvariant, OnItsWay, Retired, Known
  <2> QED BY <2>1, <2>2
<1>4. ASSUME NEW b \in Browsers PROVE InCookie(b)'
  BY <1>2 DEF BrowserInvariant, TokensInvariant, InCookie, Retired, Known, Replacing
<1> QED BY <1>3, <1>4 DEF TokensInvariant
(* The session a request inserts is new to everybody.                      *)
LEMMA IssueTokens ==
  ASSUME BrowserInvariant, NEW t \in Tabs, Issue(t), UNCHANGED <<jar, tab, lost>>
  PROVE  TokensInvariant'
<1>n. PICK n : n = issued + 1
  OBVIOUS
<1> DEFINE q == IF request[t].token = None THEN Done(n)
                ELSE [Idle EXCEPT !.pc = "revoke", !.token = request[t].token,
                        !.row = n, !.reason = "rotated"]
<1>1. /\ issued' = n /\ n \in Sessions /\ n \notin Known /\ Known' = Known \cup {n}
      /\ None \notin Sessions /\ n # None
  BY <1>n, BrowserTypes, SessionsAssumption DEF Issue, Sessions, Known
<1>2. \A u \in Tabs : request'[u] = IF u = t THEN q ELSE request[u]
  BY <1>n, BrowserTypes DEF Issue, Goto
<1>3. /\ \A s \in Sessions : s # n => rows'[s] = rows[s]
      /\ rows'[n].revoked = None
  BY <1>n, BrowserTypes, <1>1 DEF Issue
<1>4. q.row = n /\ q.token = request[t].token /\ q.pc # "sweep"
  BY DEF Done, Idle
<1>5. request[t] # Idle
  BY DEF Issue, Idle
<1> HIDE DEF q
<1>6. ~Retired(n)' /\ \A s \in Sessions : s # n => (Retired(s)' <=> Retired(s))
  BY <1>3, ReasonsAssumption DEF Retired, Reasons
<1>7. ASSUME NEW u \in Tabs
      PROVE  request[u].token # n /\ tab[u].row # n /\ request[u].row # n /\ (request[u].token # None => request[u].token \in Known)
  <2>1. InStep(u) /\ OnItsWay(u)
    BY DEF BrowserInvariant, TokensInvariant
  <2> QED BY <1>1, <2>1 DEF InStep, OnItsWay, Pending
<1>8. \A b \in Browsers : jar[b].refresh # n
  BY <1>1 DEF BrowserInvariant, TokensInvariant, InCookie
<1>9. \A u \in Tabs, s \in Sessions :
        /\ s # n => (Pending(u, s)' => Pending(u, s))
        /\ Pending(u, n)' => u = t
        /\ request'[u].token = request[u].token
  BY <1>2, <1>4, <1>7 DEF Pending
<1>10. ASSUME NEW u \in Tabs PROVE InStep(u)' /\ OnItsWay(u)'
  <2>1. InStep(u)'
    <3>1. InStep(u) /\ InStep(t)
      BY DEF BrowserInvariant, TokensInvariant
    <3> QED BY <1>1, <1>2, <1>4, <1>5, <3>1 DEF InStep
  <2>2. OnItsWay(u)'
    <3> SUFFICES ASSUME NEW s \in Sessions, Pending(u, s)'
                 PROVE  /\ s \in Known' /\ ~Retired(s)'
                        /\ \A b \in Browsers : jar[b].refresh # s
                        /\ \A v \in Tabs : request'[v].token # s /\ (Pending(v, s)' => v = u)
      BY DEF OnItsWay
    <3>1. CASE s = n
      BY <1>1, <1>6, <1>7, <1>8, <1>9, <3>1
    <3>2. CASE s # n
      BY <1>1, <1>6, <1>9, <3>2 DEF BrowserInvariant, TokensInvariant, OnItsWay
    <3> QED BY <3>1, <3>2
  <2> QED BY <2>1, <2>2
<1>11. ASSUME NEW b \in Browsers PROVE InCookie(b)'
  <2>1. \A u \in Tabs : Replacing(u)' <=> Replacing(u)
    BY DEF Replacing
  <2> SUFFICES ASSUME NEW s \in Sessions, jar[b].refresh = s
               PROVE  /\ s \in Known'
                      /\ \A c \in Browsers : jar[c].refresh = s => c = b
                      /\ \A u \in Tabs : request'[u].token = s => Home[u] = b
                      /\ Retired(s)' /\ ~lost[b] => \E u \in Tabs : Home[u] = b /\ Replacing(u)'
    BY DEF InCookie
  <2>2. s # n
    BY <1>8
  <2> QED BY <1>1, <1>6, <1>9, <2>1, <2>2 DEF BrowserInvariant, TokensInvariant, InCookie
<1> QED BY <1>10, <1>11 DEF TokensInvariant

(* A token is retired by a request of its own browser, whose answer is     *)
(* going to replace it.                                                    *)
LEMMA RevokeTokens ==
  ASSUME BrowserInvariant, NEW t \in Tabs, Revoke(t), UNCHANGED <<jar, tab, lost>>
  PROVE  TokensInvariant'
<1> DEFINE q == Done(request[t].row)
<1>1. \A u \in Tabs : request'[u] = IF u = t THEN q ELSE request[u]
  BY BrowserTypes DEF Revoke, Goto
<1>2. q.row = request[t].row /\ q.token = None /\ q.pc = "done"
  BY DEF Done, Idle
<1> HIDE DEF q
<1>3. request[t] # Idle
  BY DEF Revoke, Idle
<1>4. \A s \in Sessions : s # request[t].token => (Retired(s)' <=> Retired(s))
  BY BrowserTypes DEF Revoke, Retired
<1>5. issued' = issued /\ Known' = Known
  BY DEF Revoke, Known
<1>6. \A u \in Tabs, s \in Sessions : /\ Pending(u, s)' => Pending(u, s)
                                      /\ request'[u].token = s => request[u].token = s
  BY <1>1, <1>2, BrowserTypes DEF Pending
<1>7. ASSUME NEW u \in Tabs PROVE InStep(u)' /\ OnItsWay(u)'
  <2>1. InStep(u)'
    <3>1. InStep(u) /\ InStep(t)
      BY DEF BrowserInvariant, TokensInvariant
    <3> QED BY <1>1, <1>2, <1>3, <1>5, <3>1 DEF InStep
  <2>2. OnItsWay(u)'
    BY <1>4, <1>5, <1>6 DEF BrowserInvariant, TokensInvariant, OnItsWay
  <2> QED BY <2>1, <2>2
<1>8. ASSUME NEW b \in Browsers PROVE InCookie(b)'
  <2>1. \A u \in Tabs : Replacing(u)' <=> Replacing(u)
    BY DEF Replacing
  <2> SUFFICES ASSUME NEW s \in Sessions, jar[b].refresh = s
               PROVE  /\ s \in Known'
                      /\ \A c \in Browsers : jar[c].refresh = s => c = b
                      /\ \A u \in Tabs : request'[u].token = s => Home[u] = b
                      /\ Retired(s)' /\ ~lost[b] => \E u \in Tabs : Home[u] = b /\ Replacing(u)'
    BY DEF InCookie
  <2>2. /\ s \in Known
        /\ \A c \in Browsers : jar[c].refresh = s => c = b
        /\ \A u \in Tabs : request[u].token = s => Home[u] = b
        /\ Retired(s) /\ ~lost[b] => \E u \in Tabs : Home[u] = b /\ Replacing(u)
    BY DEF BrowserInvariant, TokensInvariant, InCookie
  <2>3. CASE s = request[t].token
    <3>1. Home[t] = b /\ s # None
      BY <2>2, <2>3, BrowserTypes
    <3>2. Replacing(t)
      BY <1>3, <2>3, <3>1 DEF BrowserInvariant, TokensInvariant, InStep, Replacing
    <3> QED BY <1>5, <1>6, <2>1, <2>2, <3>1, <3>2
  <2>4. CASE s # request[t].token
    BY <1>4, <1>5, <1>6, <2>1, <2>2, <2>4
  <2> QED BY <2>3, <2>4
<1> QED BY <1>7, <1>8 DEF TokensInvariant

(* The revocation of all sessions is neither a rotation nor a sign-out.    *)
LEMMA SweepTokens ==
  ASSUME BrowserInvariant, NEW t \in Tabs, Sweep(t), UNCHANGED <<jar, tab, lost>>
  PROVE  TokensInvariant'
<1>1. /\ request' = [q \in Tabs |-> IF q = t THEN Done(None)
                                    ELSE [request[q] EXCEPT !.swept = Reading(q)]]
      /\ rows' = [s \in Sessions |->
           IF Live(s) THEN [rows[s] EXCEPT !.revoked = request[t].reason] ELSE rows[s]]
      /\ issued' = issued /\ request[t].pc = "sweep"
  BY DEF Sweep, Tabs
<1>2. \A u \in Tabs : /\ request'[u].row \in {None, request[u].row}
                      /\ request'[u].token \in {None, request[u].token}
                      /\ request'[u].pc = "sweep" => request[u].pc = "sweep" /\ request'[u].reason = request[u].reason
  BY <1>1, BrowserTypes DEF Done, Idle, Request
<1>3. \A u \in Tabs : request[u] = Idle => request'[u] = Idle
  <2> SUFFICES ASSUME NEW u \in Tabs, request[u] = Idle PROVE request'[u] = Idle
    OBVIOUS
  <2>1. u # t /\ Reading(u) = FALSE
    BY <1>1 DEF Reading, Idle
  <2>2. request'[u] = [Idle EXCEPT !.swept = FALSE]
    BY <1>1, <2>1
  <2> QED BY <2>2 DEF Idle
<1>4. request[t].reason \notin {"rotated", "logout"}
  BY <1>1 DEF BrowserInvariant, TokensInvariant, InStep
<1>5. \A s \in Sessions : Retired(s)' => Retired(s)
  <2> SUFFICES ASSUME NEW s \in Sessions, Retired(s)' PROVE Retired(s)
    OBVIOUS
  <2>1. CASE Live(s)
    <3>1. rows'[s].revoked = request[t].reason
      BY <1>1, <2>1, BrowserTypes DEF Row
    <3> QED BY <1>4, <3>1 DEF Retired
  <2>2. CASE ~Live(s)
    BY <1>1, <2>2 DEF Retired
  <2> QED BY <2>1, <2>2
<1>6. \A u \in Tabs, s \in Sessions : /\ Pending(u, s)' => Pending(u, s)
                                      /\ request'[u].token = s => request[u].token = s
  BY <1>2, BrowserTypes DEF Pending
<1>7. ASSUME NEW u \in Tabs PROVE InStep(u)' /\ OnItsWay(u)'
  <2>1. InStep(u)'
    <3>1. InStep(u)
      BY DEF BrowserInvariant, TokensInvariant
    <3> QED BY <1>1, <1>2, <1>3, <3>1 DEF InStep, Known
  <2>2. OnItsWay(u)'
    BY <1>1, <1>5, <1>6 DEF BrowserInvariant, TokensInvariant, OnItsWay, Known
  <2> QED BY <2>1, <2>2
<1>8. ASSUME NEW b \in Browsers PROVE InCookie(b)'
  BY <1>1, <1>5, <1>6 DEF BrowserInvariant, TokensInvariant, InCookie, Known, Replacing
<1> QED BY <1>7, <1>8 DEF TokensInvariant

(* The cookie takes a session that nobody had.                             *)
LEMMA ReceiveTokens ==
  ASSUME BrowserInvariant, NEW t \in Tabs, Receive(t)
  PROVE  TokensInvariant'
<1> DEFINE new == At(IF tab[t].at \in Places THEN "rest" ELSE "go", tab[t].at)
           home == Home[t]
<1>1. /\ tab' = [tab EXCEPT ![t] = new] /\ UNCHANGED <<rows, request, issued>>
      /\ jar' = [jar EXCEPT ![home] = Set(@, tab[t])]
      /\ lost' = [lost EXCEPT ![home] = @ /\ tab[t].cookies = "keep"]
      /\ tab[t].phase = "answer"
  BY DEF Receive, serverVars
<1>2. /\ request[t] = Idle /\ Idle.row = None /\ Idle.pc = "idle" /\ Idle.token = None
      /\ new.row = None /\ new.cookies = "keep" /\ new.phase # "api"
  BY <1>1 DEF BrowserInvariant, TokensInvariant, InStep, Idle, At
<1>3. /\ home \in Browsers /\ tab[t] \in Tab /\ jar[home] \in Jar
      /\ tab[t].cookies \in {"apply", "create"} => tab[t].row # None
  BY BrowserTypes DEF BrowserInvariant, ClientTyped
<1> HIDE DEF new, home
<1>4. \A u \in Tabs : tab'[u] = IF u = t THEN new ELSE tab[u]
  BY <1>1, BrowserTypes
<1>5. \A b \in Browsers : b # home => jar'[b] = jar[b] /\ lost'[b] = lost[b]
  BY <1>1, BrowserTypes
<1>6. /\ tab[t].cookies = "keep" => jar'[home] = jar[home] /\ lost'[home] = lost[home]
      /\ tab[t].cookies = "clear" => jar'[home].refresh = None
      /\ tab[t].cookies \notin {"keep", "clear"} =>
           jar'[home].refresh = tab[t].row /\ tab[t].row \in Sessions
  <2>1. jar'[home] = Set(jar[home], tab[t]) /\ lost'[home] = (lost[home] /\ tab[t].cookies = "keep")
    BY <1>1, <1>3, BrowserTypes
  <2>2. lost[home] \in BOOLEAN
    BY <1>3, BrowserTypes
  <2>3. CASE Set(jar[home], tab[t]) \in Jar
         /\ CASE tab[t].cookies = "keep" -> Set(jar[home], tab[t]) = jar[home]
              [] tab[t].cookies = "clear" -> Set(jar[home], tab[t]).refresh = None
              [] OTHER -> /\ Set(jar[home], tab[t]).refresh = tab[t].row
                          /\ tab[t].row \in Sessions
    BY <2>1, <2>2, <2>3
  <2> QED BY <1>3, <2>3, SetTyped
<1>7. \A u \in Tabs, s \in Sessions :
        /\ Pending(u, s)' => Pending(u, s) /\ ~(u = t)
        /\ Pending(u, s)' => tab[t].row # s
  <2>1. \A u \in Tabs, s \in Sessions : Pending(u, s)' => Pending(u, s) /\ ~(u = t)
    BY <1>1, <1>2, <1>4, BrowserTypes DEF Pending
  <2>2. \A u \in Tabs, s \in Sessions : Pending(u, s) /\ tab[t].row = s => u = t
    BY DEF BrowserInvariant, TokensInvariant, OnItsWay, Pending
  <2> QED BY <2>1, <2>2
<1>8. ASSUME NEW b \in Browsers, NEW s \in Sessions, jar'[b].refresh = s
      PROVE  \/ jar[b].refresh = s
             \/ /\ b = home /\ tab[t].row = s
                /\ tab[t].cookies \notin {"keep", "clear"}
  BY <1>5, <1>6, <1>8, BrowserTypes
<1>9. \A s \in Sessions : tab[t].row = s =>
        /\ s \in Known /\ ~Retired(s)
        /\ \A b \in Browsers : jar[b].refresh # s
        /\ \A u \in Tabs : request[u].token # s
  BY DEF BrowserInvariant, TokensInvariant, OnItsWay, Pending
<1>10. ASSUME NEW u \in Tabs PROVE InStep(u)' /\ OnItsWay(u)'
  <2>1. InStep(u)'
    <3>1. InStep(u)
      BY DEF BrowserInvariant, TokensInvariant
    <3> QED BY <1>1, <1>2, <1>4, <3>1 DEF InStep, Known
  <2>2. OnItsWay(u)'
    <3> SUFFICES ASSUME NEW s \in Sessions, Pending(u, s)'
                 PROVE  /\ s \in Known /\ ~Retired(s)
                        /\ \A b \in Browsers : jar'[b].refresh # s
                        /\ \A v \in Tabs : request[v].token # s /\ (Pending(v, s)' => v = u)
      BY <1>1 DEF OnItsWay, Retired, Known
    <3> QED BY <1>7, <1>8 DEF BrowserInvariant, TokensInvariant, OnItsWay
  <2> QED BY <2>1, <2>2
<1>11. ASSUME NEW b \in Browsers PROVE InCookie(b)'
  <2> SUFFICES ASSUME NEW s \in Sessions, jar'[b].refresh = s
               PROVE  /\ s \in Known
                      /\ \A c \in Browsers : jar'[c].refresh = s => c = b
                      /\ \A u \in Tabs : request[u].token = s => Home[u] = b
                      /\ Retired(s) /\ ~lost'[b] => \E u \in Tabs : Home[u] = b /\ Replacing(u)'
    BY <1>1 DEF InCookie, Retired, Known
  <2>1. CASE tab[t].row = s
    BY <1>8, <1>9, <2>1
  <2>2. CASE tab[t].row # s
    <3>1. jar[b].refresh = s /\ \A c \in Browsers : jar'[c].refresh = s => jar[c].refresh = s
      BY <1>8, <2>2
    <3>2. /\ s \in Known
          /\ \A c \in Browsers : jar[c].refresh = s => c = b
          /\ \A u \in Tabs : request[u].token = s => Home[u] = b
          /\ Retired(s) /\ ~lost[b] => \E u \in Tabs : Home[u] = b /\ Replacing(u)
      BY <3>1 DEF BrowserInvariant, TokensInvariant, InCookie
    <3>3. ASSUME Retired(s), ~lost'[b] PROVE \E u \in Tabs : Home[u] = b /\ Replacing(u)'
      <4>1. b = home => tab[t].cookies = "keep"
        BY <1>6, <2>2, BrowserTypes
      <4>2. ~lost[b]
        BY <1>5, <1>6, <3>3, <4>1
      <4>3. PICK u \in Tabs : Home[u] = b /\ Replacing(u)
        BY <3>2, <3>3, <4>2
      <4>4. u # t
        BY <1>1, <4>1, <4>3 DEF Replacing, home
      <4> QED BY <1>4, <4>3, <4>4 DEF Replacing
    <3> QED BY <3>1, <3>2, <3>3
  <2> QED BY <2>1, <2>2
<1> QED BY <1>10, <1>11 DEF TokensInvariant

LEMMA LoseTokens ==
  ASSUME BrowserInvariant, NEW t \in Tabs, Lose(t)
  PROVE  TokensInvariant'
<1>1. /\ tab' = [tab EXCEPT ![t] = At("rest", "form")] /\ UNCHANGED <<rows, request, issued, jar>>
      /\ lost' = [lost EXCEPT ![Home[t]] = @ \/ tab[t].cookies # "keep"]
      /\ tab[t].phase = "answer"
  BY DEF Lose, serverVars
<1>2. /\ request[t] = Idle /\ Idle.row = None /\ Idle.pc = "idle" /\ Idle.token = None
      /\ At("rest", "form").row = None /\ At("rest", "form").phase = "rest"
      /\ At("rest", "form").cookies = "keep"
  BY <1>1 DEF BrowserInvariant, TokensInvariant, InStep, Idle, At
<1>3. \A u \in Tabs : tab'[u] = IF u = t THEN At("rest", "form") ELSE tab[u]
  BY <1>1, BrowserTypes
<1>4. \A u \in Tabs, s \in Sessions : Pending(u, s)' => Pending(u, s)
  BY <1>1, <1>2, <1>3, BrowserTypes DEF Pending
<1>5. ASSUME NEW u \in Tabs PROVE InStep(u)' /\ OnItsWay(u)'
  <2>1. InStep(u)'
    BY <1>1, <1>2, <1>3 DEF BrowserInvariant, TokensInvariant, InStep, Known
  <2>2. OnItsWay(u)'
    BY <1>1, <1>4 DEF BrowserInvariant, TokensInvariant, OnItsWay, Retired, Known
  <2> QED BY <2>1, <2>2
<1>6. ASSUME NEW b \in Browsers PROVE InCookie(b)'
  <2>1. InCookie(b)
    BY DEF BrowserInvariant, TokensInvariant
  <2>2. ASSUME ~lost'[b] PROVE ~lost[b] /\ \A u \in Tabs : Home[u] = b /\ Replacing(u) => Replacing(u)'
    <3>1. ~lost[b] /\ (Home[t] = b => tab[t].cookies = "keep")
      BY <1>1, <2>2, BrowserTypes
    <3> QED BY <1>1, <1>3, <3>1 DEF Replacing
  <2> QED BY <1>1, <2>1, <2>2 DEF InCookie, Retired, Known
<1> QED BY <1>5, <1>6 DEF TokensInvariant

LEMMA ExpiryTokens ==
  ASSUME BrowserInvariant, NEW b \in Browsers, AccessExpires(b) \/ ActorExpires(b) \/ RefreshExpires(b)
  PROVE  TokensInvariant'
<1>1. /\ UNCHANGED <<rows, request, issued, tab, lost>>
      /\ \A c \in Browsers, s \in Sessions : jar'[c].refresh = s => jar[c].refresh = s
  BY BrowserTypes DEF AccessExpires, ActorExpires, RefreshExpires, serverVars, Jar
<1> QED BY <1>1 DEF BrowserInvariant, TokensInvariant, InStep, OnItsWay, InCookie, Pending,
                    Retired, Known, Replacing

LEMMA NextTokens == BrowserInvariant /\ [BrowserNext]_vars => TokensInvariant'
<1> SUFFICES ASSUME BrowserInvariant, [BrowserNext]_vars PROVE TokensInvariant'
  OBVIOUS
<1>a. /\ \A phase, at : /\ At(phase, at).row = None /\ At(phase, at).phase = phase
                        /\ At(phase, at).at = at /\ At(phase, at).cookies = "keep"
      /\ \A cookies : Posted(cookies).row = None /\ Posted(cookies).phase = "post"
      /\ \A cookies, row, at : /\ Answered(cookies, row, at).row = row
                               /\ Answered(cookies, row, at).phase = "answer"
                               /\ Answered(cookies, row, at).cookies = cookies
  BY DEF At, Posted, Answered
<1>1. ASSUME NEW t \in Tabs, NEW path \in Paths, Visit(t, path) PROVE TokensInvariant'
  BY <1>1, <1>a, TabMoves DEF Visit
<1>2. ASSUME NEW t \in Tabs, NEW at, at # "form", tab[t].phase \in {"rest", "go"},
             NEW s, s = Cookies(t).refresh, Refresh(t, s), Move(t, At("api", at))
      PROVE  TokensInvariant'
  <2>1. PICK expired \in BOOLEAN : Begin(t, Presented(s, expired))
    BY <1>2 DEF Refresh
  <2>2. /\ s \in Known /\ UNCHANGED <<rows, issued>>
        /\ request' = [request EXCEPT ![t] = Presented(s, expired)]
    BY <1>2, <2>1 DEF Refresh, Begin
  <2>3. /\ Presented(s, expired).row = None /\ Presented(s, expired).token = s
        /\ Presented(s, expired).pc = "sweep" => Presented(s, expired).reason = "reuse"
    BY DEF Presented, Idle
  <2>4. tab[t].cookies = "keep"
    BY <1>2 DEF BrowserInvariant, TokensInvariant, InStep
  <2> DEFINE new == At("api", at)
             q == Presented(s, expired)
  <2>5. /\ new.phase = "api" /\ new.row = None /\ new.at = at /\ new.cookies = "keep"
        /\ Move(t, new) /\ tab[t].phase # "api"
    BY <1>2, <1>a
  <2>6. /\ q.row = None /\ q.token = Cookies(t).refresh /\ q.token \in Known /\ new.at # "form"
        /\ q.pc = "sweep" => q.reason \notin {"rotated", "logout"}
        /\ request' = [request EXCEPT ![t] = q] /\ UNCHANGED <<rows, issued>>
    BY <1>2, <2>2, <2>3, <2>5
  <2> HIDE DEF new, q
  <2> QED BY <2>4, <2>5, <2>6, TabCalls
<1>3. ASSUME NEW t \in Tabs, OpenLogin(t) \/ Submit(t) PROVE TokensInvariant'
  <2>1. tab[t].phase \in {"rest", "go"}
    BY <1>3, <1>a DEF OpenLogin, Submit, Requesting
  <2>2. PICK cookies \in {"keep", "clear"}, at \in {"/dashboard", "form"}, asking \in {"/login", "sign-in"} :
          \/ Refresh(t, Cookies(t).refresh) /\ Move(t, At("api", asking))
          \/ Move(t, Answered(cookies, None, at)) /\ UNCHANGED serverVars
          \/ Move(t, Posted(cookies)) /\ UNCHANGED serverVars
    BY <1>3 DEF OpenLogin, Submit, PassLogin, LoginPage
  <2>3. CASE Refresh(t, Cookies(t).refresh) /\ Move(t, At("api", asking))
    BY <1>2, <2>1, <2>3
  <2>4. CASE Move(t, Answered(cookies, None, at)) /\ UNCHANGED serverVars
    BY <1>a, <2>1, <2>4, TabMoves
  <2>5. CASE Move(t, Posted(cookies)) /\ UNCHANGED serverVars
    BY <1>a, <2>1, <2>5, TabMoves
  <2> QED BY <2>2, <2>3, <2>4, <2>5
<1>4. ASSUME NEW t \in Tabs, OpenPage(t) PROVE TokensInvariant'
  <2>1. tab[t].phase = "go"
    BY <1>4 DEF OpenPage, Requesting
  <2>2. CASE Refresh(t, Cookies(t).refresh) /\ Move(t, At("api", "/dashboard"))
    BY <1>2, <2>1, <2>2
  <2>3. CASE ~(Refresh(t, Cookies(t).refresh) /\ Move(t, At("api", "/dashboard")))
    BY <1>4, <1>a, <2>1, <2>3, TabMoves DEF OpenPage
  <2> QED BY <2>2, <2>3
<1>5. ASSUME NEW t \in Tabs, OpenLogout(t) PROVE TokensInvariant'
  <2>1. tab[t].phase = "go"
    BY <1>5 DEF OpenLogout, Requesting
  <2>2. CASE Cookies(t).refresh = None
    BY <1>5, <1>a, <2>1, <2>2, TabMoves DEF OpenLogout
  <2>3. CASE Cookies(t).refresh # None
    <3> DEFINE s == Cookies(t).refresh
               q == IF rows[s].revoked = None
                    THEN [Idle EXCEPT !.pc = "revoke", !.token = s, !.reason = "logout"]
                    ELSE Done(None)
    <3>1. /\ request' = [request EXCEPT ![t] = q] /\ UNCHANGED <<rows, issued>> /\ s \in Known
          /\ Move(t, At("api", "/logout"))
      BY <1>5, <2>3 DEF OpenLogout, Logout, Begin
    <3>2. q.row = None /\ q.token \in {None, s} /\ q.pc # "sweep"
      BY DEF Done, Idle
    <3>3. tab[t].cookies = "keep"
      BY <2>1 DEF BrowserInvariant, TokensInvariant, InStep
    <3> DEFINE new == At("api", "/logout")
    <3>4. /\ new.phase = "api" /\ new.row = None /\ new.at # "form" /\ new.cookies = "keep"
          /\ Move(t, new) /\ tab[t].phase # "api"
      BY <1>a, <2>1, <3>1
    <3> HIDE DEF q, new
    <3> QED BY <3>1, <3>2, <3>3, <3>4, TabCalls
  <2> QED BY <2>2, <2>3
<1>6. ASSUME NEW t \in Tabs, NEW p \in Passwords, SignIn(t, p) PROVE TokensInvariant'
  <2> DEFINE q == IF Accepts(p) THEN [Idle EXCEPT !.pc = "issue", !.password = p] ELSE Done(None)
         new == [tab[t] EXCEPT !.phase = "api"]
  <2>1. /\ request' = [request EXCEPT ![t] = q] /\ UNCHANGED <<rows, issued>>
        /\ Move(t, new) /\ tab[t].phase = "post"
    BY <1>6 DEF SignIn, Login, Begin
  <2>2. q.row = None /\ q.token = None /\ q.pc # "sweep"
    BY DEF Done, Idle
  <2>3. new.phase = "api" /\ new.row = None /\ new.cookies = tab[t].cookies
    BY <2>1, BrowserTypes DEF BrowserInvariant, ClientTyped, Tab
  <2> HIDE DEF q, new
  <2> QED BY <2>1, <2>2, <2>3, TabCalls
<1>7. ASSUME NEW t \in Tabs, LoginRefreshed(t) \/ PageRefreshed(t) \/ LoggedOut(t)
      PROVE  TokensInvariant'
  <2>1. PICK cookies \in {"apply", "clear"}, row \in {None, request[t].row}, place \in Paths \cup Places :
          Move(t, Answered(cookies, row, place)) \/ Move(t, Posted("clear"))
    BY <1>7 DEF LoginRefreshed, LoginPage, PageRefreshed, LoggedOut, Paths, Places, Rendered
  <2>2. tab[t].phase = "api" /\ Answer(t)
    BY <1>7 DEF LoginRefreshed, PageRefreshed, LoggedOut, Waiting
  <2>3. Posted("clear").cookies # "keep"
    BY DEF Posted
  <2> QED BY <1>a, <2>1, <2>2, <2>3, TabAnswered
<1>8. ASSUME NEW t \in Tabs, SignedIn(t) PROVE TokensInvariant'
  <2>1. \/ Move(t, Answered("create", request[t].row, "/dashboard"))
        \/ Move(t, Answered(tab[t].cookies, None, "form"))
    BY <1>8 DEF SignedIn
  <2>2. tab[t].phase = "api" /\ tab[t].at = "form" /\ Answer(t)
    BY <1>8 DEF SignedIn, Waiting
  <2> QED BY <1>a, <2>1, <2>2, TabAnswered
<1>9. ASSUME NEW t \in Tabs, Serving(t) PROVE TokensInvariant'
  <2>1. UNCHANGED <<jar, tab, lost>> /\ Serve(t)
    BY <1>9 DEF Serving
  <2>2. CASE ReadAccount(t)
    <3> DEFINE q == IF account.status = "active" THEN [request[t] EXCEPT !.pc = "issue"]
                    ELSE [Idle EXCEPT !.pc = "sweep", !.reason = "disabled"]
    <3>1. /\ request' = [request EXCEPT ![t] = q] /\ request[t].pc = "account"
          /\ UNCHANGED <<rows, issued>>
      BY <2>2 DEF ReadAccount, Goto
    <3>2. q.row \in {None, request[t].row} /\ q.token \in {None, request[t].token}
      BY BrowserTypes DEF Idle, Request
    <3>3. q.pc = "sweep" => q.reason = "disabled"
      BY BrowserTypes DEF Idle, Request
    <3>4. request[t] # Idle
      BY <3>1 DEF Idle
    <3> HIDE DEF q
    <3> QED BY <2>1, <3>1, <3>2, <3>3, <3>4, RequestGoesOn
  <2>3. CASE Die(t)
    <3>1. Done(None).row = None /\ Done(None).token = None /\ Done(None).pc = "done"
      BY DEF Done, Idle
    <3>2. /\ request' = [request EXCEPT ![t] = Done(None)] /\ request[t].pc # "idle"
          /\ UNCHANGED <<rows, issued>>
      BY <2>3 DEF Die, Goto, Running
    <3>3. request[t] # Idle
      BY <3>2 DEF Idle
    <3> QED BY <2>1, <3>1, <3>2, <3>3, RequestGoesOn
  <2>4. CASE Update(t)
    <3> DEFINE q == IF request[t].change = "enable" THEN Done(None)
                    ELSE [Idle EXCEPT !.pc = "sweep", !.reason = "changed"]
    <3>1. /\ request' = [request EXCEPT ![t] = q] /\ request[t].pc = "update"
          /\ UNCHANGED <<rows, issued>>
      BY <2>4 DEF Update, Goto
    <3>2. q.row = None /\ q.token = None /\ (q.pc = "sweep" => q.reason = "changed")
      BY DEF Done, Idle
    <3>3. request[t] # Idle
      BY <3>1 DEF Idle
    <3> HIDE DEF q
    <3> QED BY <2>1, <3>1, <3>2, <3>3, RequestGoesOn
  <2> QED BY <2>1, <2>2, <2>3, <2>4, IssueTokens, RevokeTokens, SweepTokens DEF Serve
<1>10. ASSUME NEW t \in Tabs, Receive(t) \/ Lose(t) PROVE TokensInvariant'
  BY <1>10, ReceiveTokens, LoseTokens
<1>11. ASSUME NEW b \in Browsers, AccessExpires(b) \/ ActorExpires(b) \/ RefreshExpires(b)
       PROVE  TokensInvariant'
  BY <1>11, ExpiryTokens
<1>12. CASE UNCHANGED vars
  BY <1>12 DEF vars, serverVars, BrowserInvariant, TokensInvariant, InStep, OnItsWay, InCookie,
               Pending, Retired, Known, Replacing
<1> QED BY <1>1, <1>3, <1>4, <1>5, <1>6, <1>7, <1>8, <1>9, <1>10, <1>11, <1>12
        DEF BrowserNext, Disturbance, Load

(* However many tabs of however many browsers refresh, sign in and sign    *)
(* out at the same time: a browser at rest does not keep a token that was  *)
(* rotated or signed out, unless an answer with its successor was lost.    *)
THEOREM NoRetiredTokenKept == BrowserSpec => []KeepsNoRetiredToken
<1>1. BrowserInit => BrowserInvariant
  <2> SUFFICES ASSUME BrowserInit PROVE BrowserInvariant
    OBVIOUS
  <2>1. /\ \A t \in Tabs : request[t] = Idle /\ tab[t].row = None /\ tab[t].cookies = "keep"
        /\ \A b \in Browsers : jar[b].refresh = None
        /\ None \notin Sessions /\ Idle.row = None /\ Idle.token = None /\ Idle.pc = "idle"
    BY SessionsAssumption DEF BrowserInit, Init, At, NoCookies, Idle, Tabs, Sessions
  <2>2. TokensInvariant
    BY <2>1 DEF TokensInvariant, InStep, OnItsWay, InCookie, Pending
  <2> QED BY <2>2, InitIInv, InitClient DEF BrowserInvariant, BrowserInit
<1>2. BrowserInvariant /\ [BrowserNext]_vars => BrowserInvariant'
  BY BrowserStep, NextIInv, ClientKeepsTypes, NextTokens DEF BrowserInvariant, IInv
<1>3. BrowserInvariant => KeepsNoRetiredToken
  <2> SUFFICES ASSUME BrowserInvariant, NEW b \in Browsers, jar[b].refresh # None, ~lost[b],
                      \A t \in Tabs : Home[t] = b => tab[t].phase \in {"rest", "go"}
               PROVE  ~Retired(jar[b].refresh)
    BY DEF KeepsNoRetiredToken, Retired
  <2>1. jar[b].refresh \in Sessions
    BY BrowserTypes DEF Jar
  <2>2. \A t \in Tabs : Home[t] = b => ~Replacing(t)
    BY DEF BrowserInvariant, TokensInvariant, InStep, Replacing
  <2> QED BY <2>1, <2>2 DEF BrowserInvariant, TokensInvariant, InCookie
<1> QED BY <1>1, <1>2, <1>3, PTL DEF BrowserSpec
=============================================================================

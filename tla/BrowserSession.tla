---------------------------- MODULE BrowserSession ----------------------------
(***************************************************************************)
(* The web app in front of the session endpoints: the three cookies of a   *)
(* browser, the middleware that refreshes them, the sign-in page and its   *)
(* form, and the sign-out route.  The tabs of a browser share its cookies  *)
(* and load pages at the same time; the cookies are sent with a navigation *)
(* and set by its answer, whenever that arrives.                           *)
(*                                                                         *)
(* Redirects come from the middleware, from the sign-in page (any access   *)
(* cookie leads to the dashboard) and from a page whose token the API      *)
(* refuses (to /logout).  The welcome page has the sign-in page's and the  *)
(* page for a new spin event one for stores, both to the dashboard; no     *)
(* redirect leads to either, so a visit of the dashboard stands for them.  *)
(*                                                                         *)
(* A tab that waits for the API is the request of the same name in         *)
(* Sessions.  Administrators are left to that module: here a disabled      *)
(* account is one more reason for the API to fail.  The staff pages are    *)
(* modelled; the customer portal has the same rules and other cookies.     *)
(***************************************************************************)
EXTENDS Sessions

CONSTANTS Browsers,
          Home            \* the browser a tab belongs to

Tabs == Requests

ASSUME BrowserAssumption == Home \in [Tabs -> Browsers]

VARIABLES jar,        \* the cookies of each browser
          tab,        \* what each tab shows or waits for
          lost        \* an answer that would have set the browser's cookies was lost

vars == <<serverVars, jar, tab, lost>>

(***************************************************************************)
(* The access cookie is usable while hasUsableAccess says so and stale     *)
(* after that, in the last half minute of its token or beyond, for as long *)
(* as the browser keeps it; the refresh cookie names a session; the actor  *)
(* cookie is there or not.                                                 *)
(***************************************************************************)
Jar == [access : {"none", "stale", "usable"}, refresh : Sessions \cup {None}, actor : BOOLEAN]
NoCookies == [access |-> "none", refresh |-> None, actor |-> FALSE]

(***************************************************************************)
(* A tab rests on a page or on the sign-in form, is about to request a     *)
(* path, has a form posted that passed the middleware, waits for the API,  *)
(* or has an answer coming: what the answer does to the cookies, with      *)
(* which session, and where it leads.  "sign-in" is a form whose request   *)
(* is in the middleware.                                                   *)
(***************************************************************************)
Paths == {"/dashboard", "/login", "/logout"}
Places == {"page", "form"}
Tab == [phase : {"rest", "go", "post", "api", "answer"},
        at : Paths \cup Places \cup {"sign-in"},
        cookies : {"keep", "clear", "apply", "create"},
        row : Sessions \cup {None}]

BrowserTypeOK ==
  /\ TypeOK
  /\ jar \in [Browsers -> Jar]
  /\ tab \in [Tabs -> Tab]
  /\ \A t \in Tabs : tab[t].cookies \in {"apply", "create"} => tab[t].row # None
  /\ lost \in [Browsers -> BOOLEAN]

At(phase, at) == [phase |-> phase, at |-> at, cookies |-> "keep", row |-> None]
Posted(cookies) == [phase |-> "post", at |-> "form", cookies |-> cookies, row |-> None]
Answered(cookies, row, at) == [phase |-> "answer", at |-> at, cookies |-> cookies, row |-> row]

BrowserInit ==
  /\ Init
  /\ jar = [b \in Browsers |-> NoCookies]
  /\ tab = [t \in Tabs |-> At("rest", "form")]
  /\ lost = [b \in Browsers |-> FALSE]

Cookies(t) == jar[Home[t]]
Usable(t) == Cookies(t).access = "usable"
Move(t, new) == /\ tab' = [tab EXCEPT ![t] = new]
                /\ UNCHANGED <<jar, lost>>
Requesting(t, path) == tab[t].phase = "go" /\ tab[t].at = path
Waiting(t, at) == tab[t].phase = "api" /\ tab[t].at = at /\ request[t].pc = "done"

-----------------------------------------------------------------------------

Visit(t, path) ==
  /\ tab[t].phase = "rest"
  /\ Move(t, At("go", path))
  /\ UNCHANGED serverVars

(***************************************************************************)
(* middleware for /login, loaded or posted to by its form: a usable access *)
(* token goes to the dashboard, a refresh token is tried, and whoever has  *)
(* neither is let through, a lone actor cookie being cleared on the way.   *)
(***************************************************************************)
PassLogin(t, asking, through) ==
  \/ /\ Usable(t)
     /\ Move(t, Answered("keep", None, "/dashboard"))
     /\ UNCHANGED serverVars
  \/ /\ ~Usable(t) /\ Cookies(t).refresh # None
     /\ Refresh(t, Cookies(t).refresh)
     /\ Move(t, At("api", asking))
  \/ /\ ~Usable(t) /\ Cookies(t).refresh = None
     /\ Move(t, through)
     /\ UNCHANGED serverVars

(***************************************************************************)
(* The sign-in page.  It looks at the access cookie alone and takes any    *)
(* for a session, a stale one too; it sees the cookies as the middleware   *)
(* leaves them.                                                            *)
(***************************************************************************)
LoginPage(access) == IF access = "none" THEN "form" ELSE "/dashboard"

OpenLogin(t) ==
  /\ Requesting(t, "/login")
  /\ PassLogin(t, "/login", IF Cookies(t).actor
                            THEN Answered("clear", None, LoginPage("none"))
                            ELSE Answered("keep", None, LoginPage(Cookies(t).access)))

(* The form is posted to /login as well. *)
Submit(t) ==
  /\ tab[t] = At("rest", "form")
  /\ PassLogin(t, "sign-in", Posted(IF Cookies(t).actor THEN "clear" ELSE "keep"))

LoginRefreshed(t) ==
  /\ \E asking \in {"/login", "sign-in"} :
       /\ Waiting(t, asking)
       /\ Move(t, CASE request[t].row # None -> Answered("apply", request[t].row, "/dashboard")
                    [] request[t].row = None /\ asking = "/login" ->
                         Answered("clear", None, LoginPage("none"))
                    [] request[t].row = None /\ asking = "sign-in" -> Posted("clear"))
  /\ Answer(t)

(***************************************************************************)
(* middleware for a staff page: the actor cookie is wanted as well as a    *)
(* usable token; without either everything is cleared.  A page that is let *)
(* through reads the API with the access token, which may refuse it all    *)
(* the same (apiRequest: a 401 redirects to /logout); the cookies of a     *)
(* refresh ride on its answer either way.                                  *)
(***************************************************************************)
Rendered == {"page", "/logout"}

(* Mutation: the way to the sign-in form leaves the cookies alone. *)
OpenPageKeeping(t) ==
  /\ Requesting(t, "/dashboard")
  /\ \/ /\ Usable(t) /\ Cookies(t).actor
        /\ \E at \in Rendered : Move(t, Answered("keep", None, at))
        /\ UNCHANGED serverVars
     \/ /\ ~Usable(t) /\ Cookies(t).actor /\ Cookies(t).refresh # None
        /\ Refresh(t, Cookies(t).refresh)
        /\ Move(t, At("api", "/dashboard"))
     \/ /\ ~Cookies(t).actor \/ (~Usable(t) /\ Cookies(t).refresh = None)
        /\ Move(t, Answered("keep", None, "/login"))
        /\ UNCHANGED serverVars

OpenPage(t) ==
  /\ Requesting(t, "/dashboard")
  /\ \/ /\ Usable(t) /\ Cookies(t).actor
        /\ \E at \in Rendered : Move(t, Answered("keep", None, at))
        /\ UNCHANGED serverVars
     \/ /\ ~Usable(t) /\ Cookies(t).actor /\ Cookies(t).refresh # None
        /\ Refresh(t, Cookies(t).refresh)
        /\ Move(t, At("api", "/dashboard"))
     \/ /\ ~Cookies(t).actor \/ (~Usable(t) /\ Cookies(t).refresh = None)
        /\ Move(t, Answered("clear", None, "/login"))
        /\ UNCHANGED serverVars

PageRefreshed(t) ==
  /\ Waiting(t, "/dashboard")
  /\ \/ /\ request[t].row # None
        /\ \E at \in Rendered : Move(t, Answered("apply", request[t].row, at))
     \/ /\ request[t].row = None
        /\ Move(t, Answered("clear", None, "/login"))
  /\ Answer(t)

(***************************************************************************)
(* The sign-out route tells the API, whatever comes of it, and clears.     *)
(***************************************************************************)
OpenLogout(t) ==
  /\ Requesting(t, "/logout")
  /\ \/ /\ Cookies(t).refresh # None
        /\ Logout(t, Cookies(t).refresh)
        /\ Move(t, At("api", "/logout"))
     \/ /\ Cookies(t).refresh = None
        /\ Move(t, Answered("clear", None, "/login"))
        /\ UNCHANGED serverVars

LoggedOut(t) ==
  /\ Waiting(t, "/logout")
  /\ Move(t, Answered("clear", None, "/login"))
  /\ Answer(t)

(***************************************************************************)
(* The login action of a form that passed: the answer sets all three       *)
(* cookies, over whatever the middleware cleared; after a refusal the form *)
(* stays.                                                                  *)
(***************************************************************************)
SignIn(t, typed) ==
  /\ tab[t].phase = "post"
  /\ Login(t, typed)
  /\ Move(t, [tab[t] EXCEPT !.phase = "api"])

(* Mutation: the form takes any answer for a session. *)
SignedInUnchecked(t) ==
  /\ Waiting(t, "form")
  /\ Move(t, Answered("create", request[t].row, "/dashboard"))
  /\ Answer(t)

SignedIn(t) ==
  /\ Waiting(t, "form")
  /\ Move(t, IF request[t].row # None
             THEN Answered("create", request[t].row, "/dashboard")
             ELSE Answered(tab[t].cookies, None, "form"))
  /\ Answer(t)

(***************************************************************************)
(* applyTokens of the middleware and createSession of the sign-in form, on *)
(* cookies that are there: a refresh does not touch the actor cookie.      *)
(***************************************************************************)
Applied(old, row) == [old EXCEPT !.access = "usable", !.refresh = row]
Created(row) == [access |-> "usable", refresh |-> row, actor |-> TRUE]

(* Mutation: only the access token of a refresh is stored. *)
SetAccessOnly(old, answer) ==
  CASE answer.cookies = "keep" -> old
    [] answer.cookies = "clear" -> NoCookies
    [] answer.cookies = "apply" -> [old EXCEPT !.access = "usable"]
    [] answer.cookies = "create" -> Created(answer.row)

(***************************************************************************)
(* The cookies of the browser as they are when the answer arrives take     *)
(* what it sets; then the redirect.                                        *)
(***************************************************************************)
Set(old, answer) ==
  CASE answer.cookies = "keep" -> old
    [] answer.cookies = "clear" -> NoCookies
    [] answer.cookies = "apply" -> Applied(old, answer.row)
    [] answer.cookies = "create" -> Created(answer.row)

Receive(t) ==
  /\ tab[t].phase = "answer"
  /\ jar' = [jar EXCEPT ![Home[t]] = Set(@, tab[t])]
  /\ tab' = [tab EXCEPT ![t] = At(IF tab[t].at \in Places THEN "rest" ELSE "go", tab[t].at)]
  /\ lost' = [lost EXCEPT ![Home[t]] = @ /\ tab[t].cookies = "keep"]
  /\ UNCHANGED serverVars

(* The user leaves, or the connection breaks, before the answer is there. *)
Lose(t) ==
  /\ tab[t].phase = "answer"
  /\ tab' = [tab EXCEPT ![t] = At("rest", "form")]
  /\ lost' = [lost EXCEPT ![Home[t]] = @ \/ tab[t].cookies # "keep"]
  /\ UNCHANGED <<serverVars, jar>>

-----------------------------------------------------------------------------
(* Cookies run out: the actor cookie a week after the sign-in, the refresh *)
(* cookie with its token; the access cookie may be kept for longer than    *)
(* its token is usable, or not.                                            *)

AccessExpires(b) ==
  /\ \E left \in {"stale", "none"} :
       /\ jar[b].access \notin {"none", left}
       /\ jar' = [jar EXCEPT ![b].access = left]
  /\ UNCHANGED <<serverVars, tab, lost>>

ActorExpires(b) ==
  /\ jar[b].actor
  /\ jar' = [jar EXCEPT ![b].actor = FALSE]
  /\ UNCHANGED <<serverVars, tab, lost>>

RefreshExpires(b) ==
  /\ jar[b].refresh # None
  /\ jar' = [jar EXCEPT ![b].refresh = None]
  /\ UNCHANGED <<serverVars, tab, lost>>

Serving(r) == Serve(r) /\ UNCHANGED <<jar, tab, lost>>

Load(t) ==
  \/ OpenLogin(t) \/ LoginRefreshed(t)
  \/ OpenPage(t) \/ PageRefreshed(t)
  \/ OpenLogout(t) \/ LoggedOut(t)
  \/ (\E typed \in Passwords : SignIn(t, typed)) \/ SignedIn(t)
  \/ Receive(t)

(* What the user and the clock do to a browser. *)
Disturbance ==
  \/ \E t \in Tabs : (\E path \in Paths : Visit(t, path)) \/ Submit(t)
  \/ \E b \in Browsers : AccessExpires(b) \/ ActorExpires(b) \/ RefreshExpires(b)

BrowserNext ==
  \/ Disturbance
  \/ \E t \in Tabs : Load(t) \/ Lose(t) \/ Serving(t)

BrowserSpec == BrowserInit /\ [][BrowserNext]_vars

(***************************************************************************)
(* A request is served or fails, and a tab goes on with what it has.       *)
(***************************************************************************)
FairBrowserSpec ==
  /\ BrowserSpec
  /\ \A t \in Tabs : WF_vars(Load(t)) /\ WF_vars(Serving(t))

-----------------------------------------------------------------------------

(***************************************************************************)
(* A browser at rest does not keep a token the API has retired by          *)
(* rotation or sign-out, unless the answer with the next one was lost:     *)
(* "the stored one must be replaced or the next refresh presents a token   *)
(* the API has already retired" (applyTokens), which would end every       *)
(* session of the account.  This holds for tabs that refresh with the same *)
(* token at the same time, in whatever order their answers arrive.         *)
(***************************************************************************)
KeepsNoRetiredToken ==
  \A b \in Browsers :
    (/\ jar[b].refresh # None
     /\ ~lost[b]
     /\ \A t \in Tabs : Home[t] = b => tab[t].phase \in {"rest", "go"})
      => rows[jar[b].refresh].revoked \notin {"rotated", "logout"}

(***************************************************************************)
(* Once the user and the clock leave a browser alone, all its tabs come to *)
(* rest on a page or on the form and stay there: there is no redirect      *)
(* loop, not even from the half-sessions that crossing answers of two tabs *)
(* leave behind, nor between a sign-in page that takes any access cookie   *)
(* for a session and a middleware that does not ("the one place that can   *)
(* end a redirect loop").                                                  *)
(***************************************************************************)
NavigationEnds ==
  <>[][~Disturbance]_vars => <>[](\A t \in Tabs : tab[t].phase = "rest")
=============================================================================

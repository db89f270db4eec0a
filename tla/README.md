# Verification of Sambehen

TLA+ models of the parts of the backend (`src/backend/src`) in which several
requests, event handlers or cron jobs work on the same rows, and of the session
cookies of the web app (`src/frontend`) that stand in front of them; the TLC runs
that check them on small instances, and theorems about them proved with TLAPS.
`PROJECT.json` maps each definition to the lines it stands for.

Sambehen runs a referral and VIP business for a hierarchy of staff (master,
managers, stores) and their customers. Money is entered by staff: the ledger of
deposits and withdrawals is the source of truth, and VIP standing, referral
rewards, spin draws and balances are derived from it. It is a NestJS process
over PostgreSQL, with an in-process event emitter and cron jobs, and a Next.js
web app whose middleware holds the tokens of a staff session in cookies.

## 1. Inventory

| Component | State | Operations | Interacts with | What is hard | What makes it correct |
|---|---|---|---|---|---|
| Referrals (`modules/referrals`) | programs, codes, referrals, bonus ledger, `customers.bonusBalance`, `referredByCustomerId` | create/update program, assign codes, `attachReferral`, `evaluateForCustomer`, `grantReward`, `reject` | called by customer creation; listens to TransactionCreated | evaluations race for one referral, programs are edited under them, events are lost in a crash | a referral is settled once, paid exactly what its row says; counts and balances agree with the rows; nobody refers themselves through others |
| Transactions (`modules/transactions`) | `transactions`, `customers.balance` | `create`, `createCorrection`, `remove`, `update` | emits TransactionCreated to VIP and referrals | checks precede the transaction that relies on them | corrections stay within their parent and never outlive it; balance is the net of the ledger; history is not rewritten |
| Email campaigns (`modules/emailing`, `shared/mailer`) | campaigns, recipient rows (the queue), opt-outs | compose, send, cancel, cron tick (reclaim, promote, claim, send, record, count, finalise) | SMTP server; reads customers through the recipient filter | several instances, crashes between claim and record, lost replies, cancellation under way | copies are bounded, sent is final, counters are true, every campaign ends |
| VIP (`modules/vip`) | criteria, qualifications | create/update/remove criteria, `recomputeCriteria`, `evaluateCustomer`, nightly drift job | listens to TransactionCreated; read by spins | incremental evaluation only adds; recompute is two statements bounded by two clocks | when quiet, the qualified are those whose ledger reaches the threshold; a closed window's list stays |
| Spins (`modules/spins`) | events, winners | create/update/remove event, `recordWinners`, `removeWinner`, status job | reads qualifications and criteria | eligibility and status are checked before the insert | winners qualified when recorded; statuses go forward; `cancelled` is left alone |
| Staff and ownership (`modules/staff`, `modules/customers`) | staff tree, `managerId`/`storeId` of customers, customer status | create/activate/reassign/remove staff, create, register, reassign, approve, ban and remove customers, bulk operations | every scoped query reads the columns; removing and disabling revoke sessions | a store moves while a customer is assigned to it; a manager is removed while a store comes under it; checks precede unconditional updates | a customer's manager is its store's manager; nobody reports to a deleted account; who was banned stays banned |
| Customer import (`customer-import.service.ts`) | none of its own | preview, commit | customers, ownership | collisions appear between check and insert | all rows or none, owned like any other |
| Authentication (`modules/auth`) | `auth_sessions` | login, refresh (rotation, reuse detection), logout, logout-all, change password | guards of every route; staff and customer services revoke | two refreshes with one token; a refresh or a sign-in during a revocation of all | what outlives a revocation was under way during it; a retired token is recognised |
| Session cookies (`frontend/middleware.ts`, `app/login`, `app/logout`, `lib/session.ts`) | access, refresh and actor cookies of a browser | page load, refresh on the way, sign-in, sign-out | refresh, login and logout of the API | tabs share cookies and refresh at once, answers cross or get lost, cookies expire apart | the browser keeps no retired token; redirects end |
| Messaging (`modules/messaging`) | conversations, messages, read markers; the same between staff | `ensureConversation`, append, read a page, `markRead` | websocket gateway, messages widget | timestamps are not commit order; reading moves a marker to the present | counts are exact; only what was shown counts as read; the inbox agrees with the thread |
| Data scope, money | none | predicates over the columns of a row; sums of decimals | everything | corner cases | a scope never widens; sums are exact |
| Exports, dashboard, games, audit, cache, HTTP layer, seed, pages and forms | see `PROJECT.json` | queries, wiring, presentation | | no protocol | not modelled |

## 2. Plan

In order of what a mistake costs:

1. **Referrals**, abstract **ReferralPayout** (done; theorems in ReferralsProofs).
2. **Ledger**, abstract **LedgerBook** (done; theorems in LedgerProofs). Sums over
   finite sets have a module of lemmas of their own, **Sums**, which the proofs of
   Ledger, Referrals and VIP share.
3. **EmailDispatch** (done; theorems in EmailProofs).
4. **VipQualification** and **Spins**, which meet in the abstract **VipList**
   (done; theorems in VipProofs, over the interface, over each component and over
   the two together). Worth adding: a run of the nightly repair with two criteria
   in one job.
5. **Ownership** (done; theorems in OwnershipProofs): staff tree and customer
   assignment with moves, activation, removal, approval and bulk changes. The
   commit of an import is the creation of several customers in it.
6. **Sessions**, and **BrowserSession** over it, which composes the cookies of a
   browser with the session endpoints (done; theorems in SessionsProofs).
7. **Messaging**, threads with customers and between staff (done; theorems in
   MessagingProofs).
8. Left. Every safety property of the runs is proved, some under the condition
   that makes it true of the code (section 5). Models that could still be added:
   the messages widget of the web app over Messaging (what it counts and shows
   against what it was sent), the scope predicates as operators over Ownership,
   the money operators against a reference.

## 3. How the models are built

Each service is modelled at the granularity PostgreSQL gives it under READ
COMMITTED: one SQL statement outside a transaction, or one committed
`db.transaction` block, is one action. Everything a handler read earlier is in
its local record (`eval`, `request`, `worker`, `signup`), so handlers interleave
between any two statements and act on what they read, not on what is there.
Writes of one block appear together or, where the handler fails, not at all.
Within one action row locks have no effect (the claim's `FOR UPDATE SKIP LOCKED`
is one statement). Two transactions are more than one action: that of
`reassignStore`, whose locks others must wait for (`LockedStore`,
`LockedCustomer`), and that of a message, whose `created_at` is taken at the
beginning and which others see at the end.

| Module | Code | State |
|---|---|---|
| `Referrals` | `referrals.service.ts`, `referral-reward.service.ts`, `customers.service.ts` `create` | `program`, `code`, `referral`, `ledger`, `bonus`, `referredBy` are the tables; `signup` and `eval` are running requests and event handlers; `deposits`, `corrected`, `pending` are what the ledger and the event emitter feed in |
| `ReferralPayout` | the promise of the reward service | `stage`, `paid` |
| `Ledger` | `transactions.service.ts` | `row`, `balance` are tables; `request` the running corrections and deletions |
| `LedgerBook` | the promise of corrections and deletions | `state`, `face`, `left` |
| `EmailDispatch` | `email-dispatcher.job.ts`, `emailing.service.ts`, `mailer.service.ts`, `unsubscribe.controller.ts` | `campaign`, `recipient`, `optedOut` are tables; `worker` is each instance's tick; `request` a running send or cancel; `inbox` what the mail server took |
| `VipList` | what readers of the VIP tables rely on | `today`, `criteria`, `qualified` |
| `VipQualification` | `vip.service.ts`, `vip-qualification.service.ts`, `vip-drift.job.ts` | those of `VipList`; `eval`, `job` are running handlers and rebuilds; `metric`, `pending` are what the ledger and the event emitter feed in; `drift` is history |
| `Spins` | `spins.service.ts`, `spin-status.job.ts` | `event`, `winners` are tables; `request` the running creations and recordings; `tick` the next statement of the status job; `everListed` is history |
| `Ownership` | `staff.service.ts`, `customers.service.ts`, `customer-assignment.service.ts`, `customer-import.service.ts` | `staff`, `customer` are tables; `request` the running requests: what they write (`targets`), what they look up (`account`, `store`), what they resolved (`own`) |
| `Sessions` | `auth.service.ts`, `auth-session.repository.ts`, the services that revoke | `account` is one account's row, `rows` and `issued` its sessions, `request` the running requests; `unswept` is history |
| `BrowserSession` | `middleware.ts`, `login/page.tsx`, `login/login-form.tsx`, `login/actions.ts`, `logout/route.ts`, `lib/session.ts`, `lib/api.ts` | `jar` is the cookies of each browser, `tab` what each tab shows, requests or waits for; `lost` is history |
| `Messaging` | `messaging.service.ts`, `staff-messaging.service.ts` | `thread`, `message`, `marker` are tables, `request` the running sends and readings, `clock` the time; `shown`, `missed`, `crossed` are history |

`Spins` is composed with the component it reads through `VipList`: its next-state
relation takes any step of `ListNext`, and the run `vip_repair` shows that
`VipQualification` takes no other (`KeepsList`). `BrowserSession` extends
`Sessions`: a tab that waits for the API is the request of the same name there,
`Refresh`, `Login`, `Logout` and `Answer` are joint steps of both, and what the
API does in between interleaves with the other tabs.

`MC*` modules hold the values and symmetry sets of the runs. The `...Proofs`
modules hold theorems only. Operators commented `Mutation:` are variants of the
definition that follows them with a plausible mistake; nothing else uses them,
and `PROJECT.json` says which property notices each.

### Abstractions

* Referrals see the ledger through two sums: the debits that are not deleted,
  and how much of them was corrected. Amounts are aggregated, so a deletion
  may take part of a deposit; that allows more than the code.
* A code or link given at signup is the code itself, or none: formats, case and
  lookups by slug are left out. A cap or limit of `0` stands for SQL NULL, which
  the schema's checks make the only other value.
* A window is `upcoming`, `open` or `closed`, moved by the calendar and by edits.
* A percentage is rounded half up in minor units. The code computes in floating
  point and rounds with `toFixed(2)`; the runs use amounts where the two agree.
* The ledger leaves out `update`, which edits the game, the note and the date
  and no column that a property speaks of, and staff scope.
* A mail is `accepted`, `deferred` (4xx, timeout), `refused` (5xx), or
  `unconfirmed`: taken, with the reply lost. Ten minutes pass for all rows of a
  campaign at once, because the reclaim looks at `created_at`, which they share.
* A recipient row has the `id` it was inserted with; a worker holds the ids it
  claimed (`JobFor`) and writes by id, so a row that was deleted and queued again
  is not the one it claimed. `inbox` counts the copies of a recipient's latest row.
* A sum over rows (`Total`, `Entered`, `Achieved`) is `SumFunctionOnSet` of the
  community modules over a finite set; the entries of the ledger are finite in
  number.
* The metric of a VIP criteria is kept per customer and day, as the sum of what
  the live entries add: a deletion may take part of an entry away. Which of the
  three metrics it is decides what an entry may add (`Movements`; a withdrawal
  lowers a net and adds one to a count). Achieved amounts, names, tiers and the
  time zones of the three places that turn a time into a date are left out.
* `recomputeCriteria` compares `NOW()` of the database with `new Date()` of the
  backend. The model takes the first not to be behind the second, as the
  comment at its line 69 does. `older` is then the set of rows a running rebuild
  will delete: those that were there at its watermark, less those any upsert has
  stamped since.
* `updateCriteria` looks the criteria up and writes in two statements, so a
  criteria can be edited after it was removed. The same of a spin event that was
  deleted cannot be observed, and `UpdateEvent` and `RemoveWinner` are one step.
* A spin event's `scheduled_at` is whether it has passed (`due`). `createEvent`
  keeps the window it read with the eligibility check and uses it at the insert.
* Every request of `Ownership` is one of a master, who may do all that managers
  and stores may. The one thing a manager does differently, creating stores of
  its own with nothing but its token, is a disjunct of `StartStore`. `inactive`,
  `suspended` and `banned` are one status, `blocked`. The preview of an import
  changes nothing.
* Access tokens are verified by signature and look at no table, so `Sessions`
  leaves them out. In `BrowserSession` the access cookie is usable, stale (in the
  last half minute of its token or past it, but still kept) or gone: the
  middleware looks at the time, the sign-in page only at whether it is there. A session is
  inserted and given its digest in one step, since its token leaves with the
  answer only. A row stands for its token. The account is not administered in
  `BrowserSession`: there a disabled account is one more way for the API to fail.
* The form is posted to `/login` and passes the same middleware as the page
  (`PassLogin`): a post that is redirected is followed as a navigation, one that is
  let through carries what the middleware cleared into the answer of the sign-in.
  The welcome page redirects like the sign-in page, and the page for a new spin
  event sends a store to the dashboard, but no redirect leads to either of them: a
  visit of the dashboard stands for both. Signing out from the user menu makes the
  calls of the `/logout` route.
* No code closes a conversation or deletes a message. Reading returns the newest
  page; going back to older ones is left out, and what only they hold is missed
  until then. One `clock` stands for the database's and the process's, and every
  stamp moves it: two messages of one instant are not told apart.
* History variables and flags (`late`, `tainted`, `swept`, `unswept`, `crossed`,
  `overtaken`, `second`, `lost`, `shown`, `missed`, `drift`, `everListed`) guard
  nothing. They let a property name the overlap it excludes.

### Failures

`EvaluationFails`, `SignupFails`, `TickDies`, `RequestDies`, `RecomputeFails`: a
database error or the end of the process between two statements. What was
committed stays, the rest does not happen. `Crash` empties the event emitter as
well. `MaxFailures` bounds them in referrals, email and VIP. In the ledger, spins,
ownership, sessions and messaging a request may die at any statement without a
bound (`Die`), which undoes an open transaction; in `BrowserSession` the answer may
also get lost on its way to the tab (`Lose`). A deadlock's victim dies like this.

## 4. Runs

| Run | Instance | What it shows |
|---|---|---|
| `referrals_races` | 2 customers, 2 handlers, two sets of terms, 1 failure | handlers, edits, window closing, signups and a crash in any order: the bonus ledger holds what the rows say (`PaidIffRewarded`), balances agree with it (`BonusBalanceMatchesLedger`), usage counts are exact, settled rows are final, and the component implements `ReferralPayout` (`PaysOnce`) |
| `referrals_serial` | 3 customers, 1 handler, a cap of 1 | one handler at a time keeps the cap (`CapRespected`; two do not, section 6), referrals have no cycle (`NoReferralCycle`) |
| `referrals_liveness` | 2 customers, 1 handler, percentage terms, corrections and withdrawals, no failures | a transaction of a referee who meets the threshold settles the referral |
| `ledger_serial` | 4 entries, 1 request, amounts 1 and 2 | corrections stay within the parent, no orphan, full correction is marked, history is not rewritten, the balance is the net, and the ledger implements `LedgerBook` (`KeepsBook`) |
| `email_concurrent` | 2 instances, 2 recipients, 1 failure, lost replies | no recipient gets more copies than claims of its row, three at most |
| `email_single` | 1 instance, batch of 2, 2 failures, replies arrive | one extra copy per crash at most; counters never overstate and are exact without a crash; sent is final; a cancelled campaign stays cancelled, one staff request at a time (`CancelledStays`); a finished one has nothing left; every queued campaign ends |
| `vip_repair` | 1 customer, 1 criteria, 2 days, 1 handler, 1 request, the nightly job, 1 failure | whoever reaches a criteria is on its list or about to be, and nobody else, until something changes behind its back (`ListFollowsLedger`); the nightly job repairs whatever did (`NightlyRepairs`); nothing else happens to the list than `VipList` says (`KeepsList`) |
| `spins_clock` | 1 customer, 1 criteria, 2 days, 1 event, 2 requests | nobody wins who was never on the list (`WinnersWereListed`); an event left to the clock goes live in its window and ends with it (`EventFollowsWindow`) |
| `ownership` | 2 managers, 1 store, 1 customer, 2 requests | a customer carries its store's manager (`ManagerFollowsStore`), no store is left under a removed manager (`NoOrphanStore`), a blocked customer is not approved again (`ReactivatedOnPurpose`), save through the overlap each of them names |
| `sessions` | 2 requests, 2 passwords, 2 sessions | after all sessions are revoked, a live one was on its way when it happened; it ends at the next refresh if the account is off, but not if only the password changed (`SurvivorsOverlapped`) |
| `sessions_browser` | 2 tabs of 1 browser, 3 sessions | whichever answers cross, of two refreshes with one token as well, a browser does not keep a token that was rotated or signed out, unless an answer was lost (`KeepsNoRetiredToken`); no redirect goes round for ever (`NavigationEnds`) |
| `messaging` | 1 customer thread, 1 staff thread, 2 staff, 2 messages, 2 requests, pages of 1, 5 stamps | counts are exact through racing first messages and failures (`CountMatchesThread`); a message is only read by being shown or in the ways `missed` names (`ReadIsShown`); where sends did not overlap preview, awaited reply and the customer's unread agree with the thread (`InboxAgrees`) |

### Why these bounds

* Two handlers, requests or instances are what every race needs: each checked
  property relates one row to what at most two writers do to it, and a third
  writer can only repeat what one of the two did. `referrals_serial` needs three
  customers: one referrer with two referees reaches a cap of 1, and a cycle may
  have length three. In `referrals_races` a balance is made of one entry, which two
  handlers try to add; balances of several are in `BonusMatches`.
* Deposits of 1 or 2 against thresholds of 1 or 2 fall below, on and above
  them. Two sets of terms let an edit change threshold and cap under a handler.
* Four ledger entries hold an original, two corrections that share it and
  another original; amounts 1 and 2 make full and partial corrections.
* Three attempts are the code's own constant; with `deferred` replies, stalls
  and two deaths every path to the third attempt is explored. A batch of 2 holds
  the whole audience, a batch of 1 leaves some of it for the next claim.
* VIP standing is computed per customer and criteria from the entries of that
  customer: one of each meets every interleaving of a handler, a request's
  rebuild and a nightly one. The nightly job's loop over several criteria is
  only entered once with one criteria (`ListFollows` is proved for any number). Two days hold a window that opens, one
  that closes, and an entry backdated into it.
* In `spins_clock` the second request is there for the draw recorded twice, and
  for a creation during a draw; who else is on the list makes no difference to
  one winner.
* A move of a store is between two managers, and each overlap in `Ownership` is of
  two requests. The bulk operations and the import take any set of customers;
  TLC meets sets of one, and the empty one, the proofs any.
* Two sessions are one rotation, or a sign-in beside another. Two requests make
  every overlap of a revocation with one that is to insert a row; a third session
  would only repeat the rotation.
* `sessions_browser` needs three: a sign-in, and two refreshes with its token that
  both find it live, so that both tabs get a session and their answers cross. Its
  `VIEW` takes states for the same that differ in what no step reads and no
  property speaks of: the history variables of `Sessions`, and the rows of sessions
  that are in no cookie, request or answer any more, of which only the number
  counts. Whatever a step does to the rest depends on the rest alone.
* Two messages have an order to get wrong, and a page of 1 leaves one out. Five
  stamps are two sends, of two each, and a reading; a second reading of the same
  viewer needs fewer messages.
* `CHECK_DEADLOCK FALSE`: the systems stop when the bounds on deposits, entries
  or failures are spent, the last session or stamp is taken and every campaign
  has ended; nothing forces staff on.
* Symmetry is used in runs without liveness properties. `None` is a model value.

### Fairness

Liveness is checked under weak fairness of what the runtime schedules by itself:
started requests and handlers continue, queued events are handled, the cron jobs
fire and their statements return, mail that waits falls due. The second statement
of the spin status job has strong fairness: ticks may die before it again and
again, but not all of them. Staff actions, opt-outs, replies' contents, the
calendar and failures have no fairness. `QualifiedIsSettled` is therefore
conditional (deposits or terms may change first), `NightlyRepairs` and
`EventFollowsWindow` speak of rows staff leave alone from some time on, and
`QueuedIsFinished` names the one state the code cannot leave: a row whose third
claim died. `NavigationEnds` has weak fairness of each tab and of the API's work
for it, and asks that from some time on the user stops clicking and no cookie runs
out: with a cookie expiring at every hop a navigation may go round. Every redirect
that another can lead to is in the model: those of the middleware, that of the
sign-in page on any access cookie, the one to `/logout` when the API refuses a token
or a page misses one, those of sign-in and sign-out.

## 5. Proofs

For all values of the constants that satisfy the named assumptions (types, finite
sets of customers or entries, `None` outside them), and under the condition in the
second column where there is one:

| Theorem | Condition | Says |
|---|---|---|
| `ReferralsProofs!TypeCorrect` | | `Spec => []TypeOK` |
| `ReferralsProofs!PaidOnce` | | `Spec => []PaidIffRewarded` |
| `ReferralsProofs!SettledStays` | | `Spec => SettledIsFinal` |
| `ReferralsProofs!ImplementsPayout` | | `Spec => PaysOnce`, the refinement of `ReferralPayout` |
| `ReferralsProofs!ReferralsAcyclic` | | `Spec => []NoReferralCycle` |
| `ReferralsProofs!UsesCounted` | | `Spec => []UsesMatchRedemptions` |
| `ReferralsProofs!BonusMatches` | | `Spec => []BonusBalanceMatchesLedger` |
| `ReferralsProofs!SerialCapRespected` | one handler | `Spec /\ CapsKept => []CapRespected` |
| `LedgerProofs!TypeCorrect` | | `Spec => []TypeOK` |
| `LedgerProofs!HistoryStays` | | `Spec => HistoryKept` |
| `LedgerProofs!CorrectionsWellShaped` | | `Spec => []CorrectionShape` |
| `LedgerProofs!SerialCorrectionsKeepParents` | one request | `Spec => []NoOrphanCorrection` |
| `LedgerProofs!SerialCorrectionsStayWithin` | one request | `Spec => []CorrectionsWithinParent` |
| `LedgerProofs!SerialFullMeansReversed` | one request | `Spec => []FullyCorrectedIsReversed` |
| `LedgerProofs!SerialBalanceAgrees` | one request | `Spec => []BalanceAgreesForDeposits` |
| `LedgerProofs!SerialKeepsBook` | one request | `Spec => KeepsBook`, the refinement of `LedgerBook` |
| `EmailProofs!TypeCorrect` | | `Spec => []TypeOK` |
| `EmailProofs!CopiesBounded` | | `Spec => []CopiesWithinAttempts` |
| `EmailProofs!CancellationStays` | one request | `Spec => CancelledStays` |
| `EmailProofs!SentStays` | one instance | `Spec => SentIsFinal` |
| `EmailProofs!FinishedStaysDone` | one instance | `Spec => []FinishedIsDone` |
| `EmailProofs!CountersRight` | one instance | `Spec => []CountersMatchRows` |
| `EmailProofs!OneCopyEach` | one instance, replies arrive | `Spec => []OneCopyPlusCrashes` |
| `VipProofs!ListTypeCorrect` | | `ListSpec => []ListTypeOK` |
| `VipProofs!TypeCorrect` | | `Spec => []TypeOK` |
| `VipProofs!ImplementsList` | | `Spec => KeepsList`, the refinement of `VipList` |
| `VipProofs!ListFollows` | | `Spec => []ListFollowsLedger` |
| `VipProofs!SpinsTypeCorrect` | | `SpinSpec => []SpinTypeOK` |
| `VipProofs!WinnersEligible` | | `SpinSpec => []WinnersWereListed` |
| `VipProofs!SpinsOverVip` | | `Together => SpinSpec /\ []WinnersWereListed` |
| `OwnershipProofs!TypeCorrect` | | `Spec => []TypeOK` |
| `OwnershipProofs!ManagersFollow` | | `Spec => []ManagerFollowsStore` |
| `OwnershipProofs!NoStoreOrphaned` | | `Spec => []NoOrphanStore` |
| `OwnershipProofs!ApprovalsAreFresh` | | `Spec => ReactivatedOnPurpose` |
| `SessionsProofs!TypeCorrect` | | `Spec => []TypeOK` |
| `SessionsProofs!OnlyOverlapSurvives` | | `Spec => []SurvivorsOverlapped` |
| `SessionsProofs!BrowserImplementsSessions` | | `BrowserSpec => Spec` |
| `SessionsProofs!BrowserTypeCorrect` | | `BrowserSpec => []BrowserTypeOK` |
| `SessionsProofs!NoRetiredTokenKept` | | `BrowserSpec => []KeepsNoRetiredToken` |
| `MessagingProofs!TypeCorrect` | | `Spec => []TypeOK` |
| `MessagingProofs!CountsKept` | | `Spec => []CountMatchesThread` |
| `MessagingProofs!NothingReadUnseen` | | `Spec => []ReadIsShown` |
| `MessagingProofs!InboxTold` | | `Spec => []InboxAgrees` |

The conditions are hypotheses of the theorems and those of the runs that check the
same properties; everything else is of any size. Section 6 says what goes wrong
without them.

The arguments:

* *Payment.* `PaidIffRewarded` is inductive over `TypeOK`. The two places that
  could break it are the claim, which only fires on a pending or qualified
  referral and therefore finds an empty ledger, and the rejection, which is
  conditional on the row not being rewarded. Everything else leaves both alone
  (`ReferralWriters`). The refinement reads the stage off the row's status.
* *No cycle.* "`referredBy` has no cycle" is not inductive: an attach could
  close one, as far as that formula knows, because the code it redeems was
  chosen by an earlier step. `InvitationOrder` says the same of `InvitedBy`, the
  owner of the code a signup carries from its first step on, and that
  `referredBy` is only ever copied from it. A code is carried by a customer who
  is being created, and owned by one who already exists; a new customer has
  invited nobody, so the ring it would be part of has another member who breaks
  it (`InvitationGrows`).
* *Counting.* `UsesInvariant` adds that a code nobody was issued has no uses.
  Redeeming adds one referral to one code's set, and no step takes one away.
* *Bonus balance.* A grant credits the referrer and the referee by what it enters in
  the ledger in the same transaction, and only into entries that were empty
  (`Pays`, `GrantPays`); each sum grows by the one new entry (`SumChangeIf`).
* *Cap.* `CapInvariant` says what the one handler knows when it is about to grant:
  the cap it loaded is the program's, and there is room for one more (`RoomFor`).
  A second handler could take the room; an edit of the cap would make the two
  differ, hence `CapsKept`. The count is that of the rewarded referrals of one
  referrer, which a grant extends by one.
* *Shape of corrections.* `ShapeInvariant` adds what a running request knows of
  its target: it is an original entry, for good, because type, parent and
  customer are never written again.
* *Orphans.* `OrphanInvariant` adds that the request in flight, the only one,
  has a live target, and, once it has checked, one without corrections. With two
  requests this fails, and so does the theorem's conclusion.
* *Amounts.* `Settled`: what the request summed is still the sum when it inserts, so
  its amount fits in what remains and its decision to mark the parent reversed is
  right. The balance follows the net entry by entry: `NetIn` and the other table
  operators take the table as an argument, and each step adds an entry to a sum or
  takes one out. The refinement reads the book off the table (`StateOf`, `FaceOf`,
  `LeftOf`): an insertion draws on one entry, a deletion voids one or gives a draw
  back.
* *Sums.* The library defines a fold by recursion over subsets. `SmallestSet` takes a
  smallest subset that would be an exception; with it `SumStep` unfolds a sum by
  one element, and the lemmas after it say what a sum does when an element is
  added, removed or changed.
* *Copies.* A claim of a row is a ticket: job, row id and attempt number.
  `TicketsIssued` says no two workers hold the same one and none carries a number
  not yet given out, `TicketsCount` that the copies of a row and the tickets still
  in hand are no more than its attempts. A worker that dies takes its tickets along.
* *One instance.* `InFlight` ties every row in flight to the worker or to a dead
  tick; `FinishedClean` and `Counted` follow a campaign from the count to the stored
  counters (`InStore`) and `Delivered` bounds copies by deaths. Reclaims happen at
  the start of a tick, when nothing of the same instance is in hand.
* *Cancellation.* One request at a time, a campaign about to be queued is still a
  draft (`SendsADraft`); the dispatcher only finishes campaigns that are sending.

* *Winners.* `WinnersWereListed` says nothing of the time between the check and
  the insert. `ListedInvariant` carries the check along: what a request past its
  check has chosen was listed (`CheckedWereListed`), for the criteria of the
  event it will write to, which never changes (`RequestKnows`).
* *The interface.* A step of `VipQualification` is one of `VipList` if the criteria it
  rebuilds has a row. `GoodJob` and `GoodEval` say so of everything a running
  rebuild or handler has read: rows of criteria are never given back
  (`CriteriaStay`, proved of the interface and used on both sides of it). The proofs
  about `Spins` assume nothing of the list but `ListNext`; `Together` replaces it by
  the component, and `SpinsOverVip` carries them over.
* *The list.* `Following` says, for each customer and each criteria with its terms,
  what `ListFollowsLedger` leaves open: a rebuild past its upsert takes nobody off
  who reaches the criteria unless an event, a handler or a request still has them
  before it (`NotTakenOff`), and the terms that were read still stand. The nightly
  job is not among those that are waited for: the invariant has to hold at its
  cleanup of one criteria, when it is not adding to the next.
* *Ownership.* A row is written from what its request resolved earlier, so the
  invariant follows the requests: what one holds is the store's parent unless it
  was overtaken by a move (`Holds`), the manager it attaches a store to is still
  there unless it was removed since (`Attaches`), an account about to be removed
  has only late reports (`Removes`), a move in its transaction holds locks on
  customers that stay the store's (`Locks`), and an approval that is alone aims at
  a pending customer (`Aims`).
* *Sessions.* The row a request will insert carries the password read at its
  start. `Informed` says what the request knows: with another password than the
  account's, or past the account check of a disabled account, it was swept over,
  or its session descends from one that was, or the revocation is still to come.
  A token found live hands this on from its row to the request (`PresentedInformed`).
* *Cookies.* `BrowserImplementsSessions` makes every invariant of `Sessions` one of the
  web app. What is added: a tab and its request are at the same place (`InStep`); a
  token about to be given is live, in one tab's hands and in no cookie yet
  (`OnItsWay`); and a token that was retired while it is in a cookie has a tab of
  that browser waiting for the answer that replaces it, or with a posted form whose
  answer will clear it (`InCookie`, `Replacing`).
* *Counts.* Messages are counted when they commit, so the invariant needs that
  each open transaction holds a message of its own that is not yet kept
  (`Transactions`); then the set of kept messages grows by exactly one.
* *Read markers.* `ReadIsShown` speaks of committed messages only and is not
  inductive: a message may commit under a marker that has passed it.
  `PassedAccounted` says it of every message begun, `Looked` carries the page from
  the reading to the marker, and markers never run ahead of the clock
  (`MarkersPast`), so a new message is above all of them.
* *Inbox.* In a thread whose sends never overlapped, the one under way is later than
  all that is kept (`SendsNext`), so it becomes the preview when it commits
  (`PreviewNewest`), and the two times of the thread separate the customer's last
  message from what came after it (`Turns`).

Out of the prover's reach, and left to TLC: liveness (`QualifiedIsSettled`,
`QueuedIsFinished`, `NightlyRepairs`, `EventFollowsWindow`, `NavigationEnds`), which
rests on fairness and `ENABLED`. That `FairSpec` implies `Spec` is by definition, so
every theorem holds of the fair specifications the runs use. `TypeOK` of Ledger,
Ownership, Sessions and Messaging is proved and in no run; so are
`CorrectionShape`, `ListTypeOK` and `BrowserImplementsSessions`.

## 6. Where the code and its comments disagree

No run states something the code violates. What follows was met while modelling;
where constants are given, the named property of the module fails with them.

Referrals, ledger, email:

* `CapRespected` with 3 customers and 2 evaluators: the reward cap
  (`referrals.schema.ts:58`) is counted before the claim and not looked at again.
  Two referees of one referrer evaluated together both pay.
* With `UseLimits = {1}` two signups redeem a single-use code.
* A program with a threshold of zero "pays out on signup alone"
  (`referrals.schema.ts:52`), but nothing happens until the referee's first
  transaction, since only a transaction triggers an evaluation.
* A correction is always entered as a credit (`transactions.service.ts:329`).
  Correcting a withdrawal raises the balance and lowers the net of the ledger,
  which are then apart by twice the amount (`transactions.schema.ts:35`). Hence
  the premise of `BalanceAgreesForDeposits`.
* With two requests `LedgerSerial.cfg` loses all four of its invariants:
  corrections together exceed the parent, one is inserted between a deletion's
  check and the soft-delete, and two deletions reverse one balance effect twice.
* Deleting a correction leaves its parent `reversed`, so that it cannot be
  corrected again, and deleting the correction of a withdrawal moves the balance
  the wrong way.
* A tick that dies after its last recipient failed leaves `failed_count` at 0. The
  next tick claims nothing, skips the counters and reports the campaign as sent,
  against `email-dispatcher.job.ts:270-271`.
* `EmailSingle.cfg` with two instances: rows in flight look stalled as soon as the
  campaign is ten minutes old, whoever holds them, and counters read earlier are
  stored later. With two requests a send that found the campaign a draft queues it
  after it was cancelled. A cancel that found it sending marks it cancelled after
  it was finished, with one request as well.

Sessions and cookies:

* "Deactivation revokes every session" (`staff.service.ts:229`), and so should a
  deletion and a change of password: a refresh or sign-in under way inserts its row afterwards. `refresh` looks at the status
  again but not at the password, so a survivor of a password change can be
  refreshed for good.
* "Access ends immediately" (`staff.service.ts:229-230`,
  `customers.service.ts:409-410`): the access token is stateless and is good for the
  rest of its fifteen minutes.
* `refresh` speaks of "an already-rotated token" (`auth.service.ts:163`) but takes
  any revoked one for theft, a signed-out one included. `replacedBySessionId` is
  never set, so the two cannot be told apart later.
* "Every exit path either sets a usable session or clears it completely"
  (`middleware.ts:25-28`): each answer does, but a refresh sets no actor cookie, and
  two answers that cross leave tokens without it, or it without tokens.
  `NavigationEnds` shows that the loop the comment fears does not come back.
* "A missing access token here means there is genuinely no session to resume"
  (`login/page.tsx:16-17`), and one that is there is taken for a session: a stale one
  too, which the middleware lets pass as it is when there is neither refresh nor
  actor cookie (`middleware.ts:274`). The dashboard then clears it and sends the
  browser back, once.
* A lost answer to a refresh leaves the rotated token in the browser, and its next
  visit ends every session of the account. `KeepsNoRetiredToken` excludes it
  (`lost`).

Ownership:

* "A database CHECK constraint backs the same invariant"
  (`customer-assignment.service.ts:27-28`): `chk_customers_ownership` compares the
  columns with each other, not with the store's parent. An assignment overlapped
  by a move persists the old manager (`crossed`).
* `remove` refuses while there are direct reports, to orphan nobody; customers a
  manager owns directly are not looked at and stay with the deleted account.
* The import "re-checks for collisions inside the transaction"
  (`customer-import.service.ts:244-246`); it checks before it, and the unique
  indexes decide.
* The access token carries `parentId`. After a move, a store's messaging scope is
  that of the old manager until the token runs out.

Messaging:

* "The inbox can never show a preview that disagrees with the thread"
  (`messaging.service.ts:464-465`): two sends can commit in one order and have taken
  their times in the other. `InboxAgrees` is about threads where none overlapped.
* Reading moves the marker to the present: what committed meanwhile, lies beyond
  the page, or was on an answer that got lost counts as read. `ReadIsShown` names
  these as `missed`.

## 7. What is not modelled

* The messages widget and the inbox page of the web app (`messages-fab.tsx`): local
  copies of what Messaging serves, with live arrivals. A client of its own for a
  later module.
* Pages, forms, tables and navigation of the web app, and the customer portal's
  cookies, which follow the rules of the staff's under other names.
* Exports, dashboard, lists and summaries: read-only queries.
* The data scope: predicates over the columns of one row, evaluated in the query.
  That the columns tell the truth is `ManagerFollowsStore`.
* Money: sums and comparisons of decimal strings without state. The models use
  integers of minor units.
* The games catalogue: independent rows without a protocol.
* Audit and cache: wrappers nothing else depends on for its state.
* Rooms and typing of the websocket gateway; who may write to whom; older pages
  and search of messages.
* Token signatures, digests, realms, and the purge of expired sessions, which
  nothing calls.
* Code generation for referrals, templates, validation of requests, formatting,
  the seed: data conversion or presentation.

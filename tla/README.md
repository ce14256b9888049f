# TLA+ models of the TSKK Academy Platform

Formal models of the platform's core logic: what the backend does to its tables when requests
overlap, repeat, fail half way or arrive in an order nobody planned; what the browser does
with its tokens and pages; and proofs of what holds whatever they do. Paths below are relative
to the repository root; `modules/` is `backend/src/modules/`.

Contents: 1 the system; 2 the modules and how code becomes actions; 3 the runs; 4 the proofs;
5 where code and documents disagree; 6 what is not modelled.

## 1. The system

A NestJS backend over PostgreSQL (Prisma), a Next.js frontend, Razorpay for online payments,
SMTP and push channels for messages. The backend keeps its state in the database; a request
is a chain of awaits, so any number of requests interleave between a read and the write that
depends on it. Interactive transactions run at READ COMMITTED: they give all-or-nothing, not
isolation. What protects the data are unique indexes (a violation, P2002, becomes a 409),
row locks from the first update to the commit, and the checks in the code. A missing row in
an update (P2025) becomes a 404. `TimeoutInterceptor` answers 408 and leaves the handler
running; `AuditLogService` swallows its own errors.

| Component | State | Operations | Talks to | Hard part | Correct when |
|---|---|---|---|---|---|
| fees (`modules/fees`) | invoices, payments, plans | create, update, void, record, verify, refund, late-fee sweep | Razorpay, audit | read outside, write inside a transaction; gateway before database | balance follows from total and paid; each gateway payment entered once; receipts gapless; refunds within payments |
| auth tokens and sessions (`modules/auth/services`) | refresh_tokens, sessions | issue, rotate, revoke | users, JWT | rotation races, reuse detection, partial logout | one live token per login; reuse ends the login; a new password locks old logins out |
| auth accounts (`modules/auth/auth.service.ts`), users | users, verification and reset tokens | register, invite, verify, login, lockout, reset, change, set status, remove | mailer, tokens | one-time links, counters from stale reads | a link works once; guessing is bounded; a suspended user stays so |
| guards and permissions (`common/guards`, `modules/auth`) | the map of role_permissions in memory | load, invalidate, decide | every request | an invalidation while a load is in flight | a revoked permission stops working in bounded time |
| academies, branches | academies, subscriptions, branches | create, update, set status, delete | users | flags cleared and set in steps; count then insert; delete decided on an old read | exactly one primary branch; seats within the limit; deleted is deleted |
| students (`modules/students`) | students, histories, batch_students | admit, update, remove, seat | QR, PDF | code computed, then inserted; removed rows keep their card | a card finds only its student |
| batches (`modules/batches`) | batches, batch_students | enrol, leave, remove | students | capacity checked on an earlier count | capacity kept |
| attendance (`modules/attendance`) | attendances | scan, mark, bulk mark, branch mark, remove | students, batches | check then create; null in a unique index | one row a day and session |
| belts, certificates | belt_exams, certificates, student_history | schedule, grade, issue, revoke | students | grading, certificate and link in three steps; a number counted and then used | graded once; certificates explained by gradings; the history tells the belt |
| parents | parents, parent_students | create, remove, link, unlink | students | flag cleared and set in two statements | one primary parent; a removed parent has no child |
| events | events, registrations | create, update, register, cancel, remove | parents | capacity race; the capacity may be edited | registrations within capacity |
| inventory | items, orders | adjust, order, cancel, reopen | | stock from stale reads | stock is what came in less what went out |
| frontend API client (`frontend/src/lib/api-client.ts`, `auth-store.ts`) | token pair, refresh in flight, localStorage | request, refresh on 401, login, logout | backend auth | single flight, several tabs, lost answers | a request hangs only behind a refresh without an answer; no refresh token used twice by its own client |
| frontend pages | what is shown, the menu, AuthGuard | open, act, redirect | every route | three places decide who may see what | what a user is led to is served; nobody is left before an empty screen |
| learning, instructors, notifications, announcements, settings | their own tables | single-row writes, delivery | channels | | not modelled (section 6) |
| reports, PDF, mailer, audit, health | none of their own | read, render, send | | pure I/O | not modelled (section 6) |

`PROJECT.json` lists every component with its status, and under `hazards` the places where
this code can go wrong in ways a test would hardly reach.

## 2. The modules

| Module | What it is |
|---|---|
| `FeeLedger` | invoices, payments, refunds, late fees, and the gateway's side of a checkout |
| `AccountBook` | abstract: what an invoice promises; `FeeLedger` refines it (`IsAccountBook`) |
| `RefreshTokens` | tokens and sessions of one user: login, refresh, reuse, logout, new password |
| `TokenChain` | abstract: what a rotating token promises; refined by `RefreshTokens` (`IsTokenChain`) and by the server in `ClientRefresh` (`LoginsAreTokenChains`) |
| `AccountAccess` | accounts, e-mailed links, the count of failed logins and its lock, the administrator |
| `ClientRefresh` | the browser's tabs with their store, the shared refresh, and a network that loses messages |
| `Organisation` | an academy, its subscription, branches and seats |
| `StudentRoster` | codes and cards, seats in batches, one day's attendance |
| `Grading` | belt exams, belts, the history of belts, certificates |
| `Family` | parents and their links to students |
| `EventDesk` | events and registrations; extends `Family`, whose links decide whom a parent may register |
| `StockRoom` | items, adjustments, orders |
| `AccessPolicy` | pure: the seed's permissions by role, and for every route of every controller who gets through its guards |
| `Screens` | pure: every page of the frontend with the calls it makes and where their success leads; extends `AccessPolicy` |
| `Portal` | one tab and one account against the guards and the permission map; extends `Screens` |
| `Sums` | pure: the total of a numbered list, a recursive function that can be proved about |
| `FeeLedgerProofs`, `TokenProofs`, `RosterProofs`, `AccessProofs`, `OrganisationProofs`, `StockProofs`, `GradingProofs`, `DeskProofs` | theorems (section 4); `TokenProofs` is about `RefreshTokens` and `ClientRefresh`, `AccessProofs` about `AccountAccess` and `Portal`, `DeskProofs` about `Family` and `EventDesk` |
| `MC...` | TLC instances: symmetry, sets a configuration cannot write, derived sums |

How they compose: `EventDesk` runs on the state of `Family`, one request being at one desk at
a time. `Portal` is built on `Screens` and this on `AccessPolicy`, so that the three places where
the program decides who may see what (decorators, menu, layouts) meet in one state. The
other modules share no table whose interleavings matter to both, and each takes from the others
what they prove: `ClientRefresh` takes the server of `RefreshTokens` one request at a time (both
implement the same `TokenChain`),
`Portal` takes a session as something that may end at any time.

### How the code becomes actions

A handler that reads, awaits and writes is two or more actions; `req[r]` holds what request
`r` read, and `Requests` is how many the server works on at one time. An early return or an
exception before the first write is the guard of the first action. An exception, a 409, a
refusal by the gateway or a process that dies later is `Abandon`: open transactions roll back,
what was committed stays. A transaction whose reads do not matter to what it writes, or whose
insert a unique index ties to what it counted, is one action, and a comment says so. Operators
that no action uses (`AnyAddress`, `LocksBeyond`, `AlwaysGivesBack`, ...) are the plausible bugs
of the mutants in `PROJECT.json`; each stands before the operator it replaces.

**FeeLedger.** `invoices` and `payments` are the tables, `checkouts` is Razorpay. Discounts and
taxes matter only in their sum with the amount, `charge`, which can be negative; the clamp at
zero is `AtLeast0`. `RecordPayment` and `VerifyRazorpay` lead to `applyPayment`, split into
`CheckPayment` (read and checks), `CountReceipts` and `CommitPayment` (inside the
transaction, which writes from the snapshot). `RefundPayment`, `GatewayRefund`,
`BeginRefundTx` and `CommitRefund` are `refundPayment`; the payment row is locked by the
transaction's first update, which is the condition in `BeginRefundTx`. `ReadOverdue` and
`ApplyLateFee` are the sweep for one invoice; nothing in the repository calls `applyLateFees`,
but its comment says a scheduled job does, so it may run at any time. A payment with a
gateway id stands for method RAZORPAY; free-text references of other methods are left out, and
so are the numbers of invoices and plans. Signatures are checked before anything is read: a
bad one is a request that never starts. `received` and `returned` are history variables, and so
is an invoice's `byHand`: an edit was told which status to write, any of them, and no handler
has derived one since.

**RefreshTokens.** No handler touches two users' rows, so there is one user. A client may
present any token it ever got: two tabs share a store, and the answer to a refresh can be
lost. `PresentFresh` and `PresentSpent` are the checks of `rotate`; `CommitRotation` its
transaction with the access token it signs; `RevokeFamily` the answer to reuse. `Login`
merges the password check with the session row, `Issue` adds the first token. `ChangePassword`
is also the tail of `resetPassword`. `Live` means not revoked: an expired token that is not
revoked is still live to the invariants, which makes them stronger. `login`, `pwd`, `detected`
and `secured` are history.

**AccountAccess.** `user` is the users row, `links` both tables of e-mailed links. `register` and
`invite` are a look at the address, an insert, and a link that is written and sent; the last two
are `SendLink`, shared with `resendVerification` and `forgotPassword`. `OpenLink` is the check of
`verifyEmail` and `resetPassword`, whose writes come after further awaits (`VerifyEmail`,
`ResetPassword`). A wrong password reads the count with the row, compares a hash, and writes
the count plus one (`ReadForGuess`, `RecordFailedLogin`). `locked` says that `lockedUntil` lies in
the future, and time is `LockExpires` and `ExpireLink`. `guesses` and a link's `uses` are history.

**ClientRefresh.** A tab is its store and `refreshInFlight`; localStorage is `disk`, written with
every change of a store and read only when a tab loads, as zustand's `persist` does it. A
request goes out with the token of that moment; a 401 joins the refresh under way
(`JoinRefresh`) or starts it (`StartRefresh`); without a refresh token the promise settles before
the `finally` that would clear it (`GiveUp`, flight `stuck`). `Rotate` and `Refuse` are the server,
`LoseRefresh` is the network or a 5xx, `TakeTokens` and `SignOut` what the settled promise does.
A login (`SignIn`) and a rotation issue a pair; `SpentPair` marks the one a rotation was made of.
`mishaps` is history: the logins of which an answer was lost or that two tabs copied.

**Organisation.** `CreateAcademy` is the platform's transaction. Status, deletion and the end of
a subscription are read and write by id. A branch operation takes what it read (`was`,
`primaries`) to its commit, which clears the primaries its transaction saw and writes the row
by id; `raced` is history: whether some branch was written on what had changed since. Users
matter by their seat: registration does not count, an invitation counts and then inserts, a
parent's or instructor's login and the end of a suspension take a seat unasked (`unchecked`).

**StudentRoster.** A student is a row number; a code is the number after the prefix (one
prefix, so changing it in the settings is not modelled); the card carries the code it was
printed with. `IsNextCode` is the computation of `create`, `Unissued` the two unique indexes.
Two scripts an operator may run by hand, `backend/scripts/renumber-student-codes.ts` and
`normalize-student-codes.sql`, rewrite codes in bulk and are outside the model.
`remove` renames the code (0) and keeps card, seats and marks. `marks` counts rows of one day:
what a row says (present, late) never decides anything here. Editing a batch's capacity,
closing it without deleting it, and branches are not modelled. `bypassed` is history.

**Grading.** A belt is its index in `BELT_ORDER`. `grade` is a read with its checks
(`ReadForGrade`), the transaction (`CommitGrade`) and then, outside it, `issueForBeltExam`: its own
read of the exam (`CheckPassed`), count, insert (`InsertCertificate`; the unique index refuses a
number taken since) and the link to the exam. An error in the last three is logged and leaves
the exam graded: `Abandon`. `history[s]` is the belt of the last entry of `student_history` that
tells one: a promotion's, written in the transaction of the grade, or a BELT_CHANGE of
`StudentsService.update`, which reads the student (`ReadForUpdate`), writes the belt (`WriteBelt`)
and enters it in a statement of its own (`RecordBelt`) if it differs from what was read. The
entry of an admission tells no belt, so it leaves `history[s]` empty. Updates that carry no belt
and entries written by hand are left out. `admitted`, `disturbed` and `reopened` are history:
`disturbed` names the students whose history fell behind (`After`, `Abandon`).

**Family, EventDesk.** `linkChild` checks, clears the primary links it sees, and inserts:
`CheckLink`, `ClearPrimary`, `CommitLink`; the unique index refuses a second link. The admission of
a student with a parent looks the parent up first and links it in a later transaction:
`CheckAdmit`, `CommitAdmit`. `maker` is
history: which request made a link primary. `register` counts, looks at the parent's link,
and inserts: `CountForRegister`, `AssertStudentAccess`, `InsertRegistration`. A cancelled
registration keeps its row, and its place. A capacity is edited freely, so the bound is on the
largest it had (`ceiling`, history; 0 once there was none). A student is soft-deleted and keeps
links and registrations.

**StockRoom.** `adjustStock` reads the item and writes the sum (`ReadForAdjustment`,
`CommitAdjustment`); an order checks the stock and decrements later (`CheckOrder`,
`CommitOrder`); a status change reads the order, and a cancellation gives back the lines by what
it read (`ReadOrder`, `CommitStatus`). An item's edit sets the stock outright. `supplied`,
`clobbered`, `restocked` and `reopened` are history.

**AccessPolicy, Screens, Portal.** `AccessPolicy` translates the decorators of every handler
(public, roles, permissions, tenant) and the four guards in their order; `Screens` has one record
per page file. `Portal` runs them: `cache` is the map of `PermissionsService` by the keys it lacks,
with its age and, as history, for how long it has been wrong; `load` is the query in flight.
`SetRole` writes and invalidates; `Withdraw` is an operator who deletes a row of
`role_permissions`, which no code does. `JwtStrategy` reads the account and then waits for the
map, possibly for a reload: `Authenticate`, `Authorise`, `Decide`. `refused` is history: what a page
asked for in vain to which the tab was led, for a user whom the backend knew as the tab did
(`Known`), when an act was let through and when the page asked. The tab keeps the user its
login stored, and `AuthGuard` and the layouts decide on that (`Shown`, `Redirect`).

### Bounds

`MaxPayments`, `MaxReturned`, `MaxTokens`, `MaxSessions`, `MaxPasswords`, `MaxStudents`, `MaxMarks`,
`MaxLinks`, `MaxFailures`, `MaxOrders`, `MaxStock`, `MaxExams`, `MaxCertificates`, `MaxReopened`,
`MaxPairs`, `MaxChanges` bound tables and counters; they appear only in guards. The services
have no lower limit that these could hide: a request refused for a bound is a request not
yet made. Two requests are enough for every race described here, which are between one read
and one write of another.

| Run | Why its instance is large enough |
|---|---|
| `fees_serial` | two payments of one or two, every status an edit can name, and refunds of three in all: a part payment, its completion, a partial refund and another of the same payment |
| `fees_concurrent` | two payments of one, by hand or through the gateway, race for a receipt number, and a refund or an edit overwrites either; the statuses an edit can name change no other column |
| tokens | three tokens and two requests allow a login, a refresh and a racing refresh |
| roster | two students allow a removed one and its successor; one place in the batch fills it |
| `accounts` | three attempts allow late failures to take the count back before the lock (`MAX_LOGIN_ATTEMPTS` is 5 in the code); two links allow one to verify and one to reset, or two of a kind; `MaxFailures` = 4 lets a lock expire and one more guess lock again |
| `client_refresh` | two pairs allow a rotation and a second presentation of the first token; two tabs and two calls allow a joined refresh, a late 401 and a copied login |
| `organisation` | two branches allow both or none to be primary; three users compete for one seat |
| `grading` | one exam and three certificates: two racing gradings and one by hand; one reopening allows a second round; three belts tell a belt that was read from the one of a promotion and of an update. `View` of `MCGrading` forgets the belt of admission once the history tells another |
| `events` | two parents allow two primaries; two students and one place allow overbooking |
| `stock_room` | two orders of one or two pieces of a stock of two; one reopening |
| `portal` | every page, route, role and menu entry; one change is either of two roles (one of the staff, one not) or a withdrawn key; `TTL` and `MaxQuery` of one tick allow a load to outlive an invalidation |

`Portal` has bounds of another kind, each named in a comment: the reads of a page are decided
together; no address is typed while a call waits; while an act that leads to another page
waits, the tab only signs out and in; one act waits at a time; and the key withdrawn
(`attendance.view`) is one that no act leads to. They leave out interleavings of
answers within one tab that no property tells apart, apart from the last: an act whose
success leads to a page of which the key was withdrawn in between would be refused there, which
`ArrivalsAreServed` does not claim to exclude.

`MaxQuery` is also an assumption: a query is answered or fails within that many ticks.

`CHECK_DEADLOCK FALSE` everywhere: a server with no request and every bound reached has
nothing to do.

## 3. The runs

| Run | Requests | Shows |
|---|---|---|
| `fees_concurrent` | 2 | receipts run 1, 2, 3, ...; a gateway payment is entered once; an invoice never shows more paid than its receipts, whatever overwrites what |
| `fees_serial` | 1, crashes anywhere | the balance follows from the money, and so does a status that a handler derived (not one an edit named); paid is receipts less refunds unless a payment was refunded twice; refinement of `AccountBook` |
| `tokens_serial` | 1, crashes anywhere | one live token per login; reuse ends it; a completed change of password locks old logins out; refinement of `TokenChain` |
| `tokens_concurrent` | 2 | `replacedBy` chains run forward in one login; a login that has ended and is not being refreshed stays ended |
| `accounts` | 2 | a link does its work at most once per overlapping request; a lock lets through at most `choose(N + attempts - 1, N) + N - 1` wrong passwords with `N` requests; once every way to verify an account is shut, only the administrator moves its status |
| `client_refresh` | 2 tabs, 2 calls | a client presents a spent token only after a lost answer or with a copied login; a request is settled or waits for a refresh that is never answered (liveness); refinement of `TokenChain` by its server |
| `organisation` | 2 | one primary branch until two requests on it overlap; a deleted academy never works again; invitations exceed the seats by less than the overlapping requests |
| `roster` | 2 | a card finds only its student; one row a day per batch; capacity exceeded by at most the unchecked seats and one less than the requests under way |
| `grading` | 2 | a final result stands once those who read the exam before are through; certificates are bounded by overlaps and reopenings; the last entry of the history names the belt, but for overlaps that are named |
| `events` | 2 | two primary parents come of two requests; a removed parent gains no child once the links and admissions that had looked it up are through; overbooking is less than the overlapping requests |
| `stock_room` | 2 | how far stock is oversold; how often an order comes back; every piece is accounted for unless an adjustment overwrote a change |
| `portal` | 1 tab | what login, menu and acts lead to is served; the permission map is wrong for at most its time to live and one query; staff always reach a page (liveness) |

The serial runs are not a claim that the server is serial. They check that the logic is right
when nothing interferes; the concurrent runs check what survives interference, and many of
their properties are the exact measure of what does not: `LinkWithinRequests` with one request
is "one-time", with two it is "at most twice", and the counterexamples for anything
sharper are two-step overlaps. `PROJECT.json` gives for each property a plausible bug, defined
next to the operator it replaces, that TLC must find.

**Fairness.** Only two runs assume any. `client_refresh` assumes weak fairness of what settles
a call (an answer, a refusal or the 30 s timeout of `api`, `api-client.ts:26`, must come) and of the
sign-out that a failed refresh runs in the tab.
Users need not do anything, and neither need the exchange of a refresh: `refreshAccessToken`
posts with the bare `axios` (`api-client.ts:45`), which has no timeout, so a refresh may stay
without an answer for ever. `CallsSettle` says that this is the only way for a request to
hang: with a failed refresh that leaves those who joined it waiting it fails. `portal` assumes
weak fairness of `Redirect` alone: React runs an effect of a mounted component. The services promise nothing else that must eventually happen.

**Refinements.** `IsAccountBook` and `IsTokenChain` are checked with one request at a time; the
abstract modules are what the documentation describes, and overlapping requests do not
implement them (section 5). `LoginsAreTokenChains` is checked with several tabs, since the
server of `ClientRefresh` answers one request at a time. All three refinements are also proved.

## 4. The proofs

Eight modules, every theorem for any sets of requests, rows and inputs and any bounds. The
assumptions are the named ones of the modules (`FeeAssumption`, `AccessAssumption`, ...): types of
the constants, and finiteness of `Requests` (and `Users`) where something is counted. Every safety
property and every refinement that a run checks is stated by a theorem. A theorem that needs
more says so in its statement: `OneAtATime`, `TablesServe`.

`FeeLedgerProofs`, from `FeeAssumption` alone:

- `TypesCorrect`: `TypeOK` always. Its induction needs `RequestOK`: a request under way names
  a real invoice, a refund a payment on file.
- `ReceiptNumbering`, `SingleEntry`, `NothingPaidWithoutReceipt`: the three properties of
  `fees_concurrent`. The inductive invariant `Typed /\ Ledger` adds to them what each request
  knows: the count it took never exceeds the rows there are (so a number that passes the unique
  index is the next one), and no snapshot shows more paid than was received by then (so
  writing an old snapshot can lose money but not invent it). `QuietSteps` shows that every
  step but `CommitPayment` and `CommitRefund` leaves payments and `received` alone and moves
  `paid` only to a value some row or snapshot had.
- `BooksStayBalanced`, `StatusStaysTrue` (`BooksBalanced`, `StatusAgrees`) for one request at a time
  (`OneAtATime`; they are false for two). They are inductive with `Holds`: the invoice still says
  what the request at work read of it, and an amount it checked is still owed. Edits may write
  any status; `StatusAgrees` is about the others, those of `byHand` false.
- `ImplementsAccountBook` (`IsAccountBook`), from the same invariant: each commit changes what the
  account book sees of one invoice as `Collect`, `Return` or `Price` does, every other step not
  at all. In the book a collection and a return are positive and entered as they are made, so
  what is paid cannot rise without an entry or beyond what is owed, nor fall without a refund. A payment of nothing on an overpaid invoice is a `Price` that stays the same.
- `InvoicesShowNet` (`LedgerIsNetOfRefunds`) for one request at a time, by the invariant `AllNet`:
  what was received is the total of the amounts on file (`Net`), the refunds on file are never
  more than what was returned, and none is more than its payment (`RefundsFit`).

What `Total` is of a list that changed or grew (`TotalAppended`, `TotalChanged`, `TotalsApart`) follows
from `TotalIs`: two functions that satisfy its equations agree, since there is no least place where
they differ. The library's induction cannot be cited (it takes an operator), but that `<` on
`Nat` is well founded can. `StockProofs` repeats these lemmas: the two modules have only `Sums` in
common, which holds definitions.

`TokenProofs`, with no assumption on the bounds but that they are numbers:

- `TypesCorrect`, by the invariant `Typed`: a request between two awaits names a token and a
  session on file, and every token a family that a token on file began.
- `ChainsNeverLoop` (`ChainsRunForward`) and `DeadForGood` (`DeadFamiliesStayDead`) for any
  overlap of requests. Every step keeps the rows (`RowsKept`: rows are added, never moved to
  another login, never un-revoked); only `Issue` and `CommitRotation` do more (`QuietSteps`). A
  refresh starts from a token that works (`RefreshesStartLive`) and a family grows only by the
  successor of a token under refresh (`FamilyGrowth`), so a dead login stays dead.
- `OneLiveToken`, `ReuseIsFinal` and `OldPasswordUseless` for one request at a time
  (`OneAtATime`), which is what they need: they are false for two (section 5). The three
  together are inductive with `Knows`: while a refresh waits its token still works, and
  the password a login checked is not older than the last one that logged every device out.
- `ImplementsTokenChain` (`IsTokenChain`), from the same invariant: the token that works is the one
  the `CHOOSE` of `LiveToken` picks (`HolderWorks`), `Issue` and `CommitRotation` are `HandOn`, and
  every other step can only `End` chains, since what works after it worked before.

`TokenProofs` on `ClientRefresh`, for any number of tabs and requests in each:

- `BrowserTypesCorrect` (`BrowserTypeOK`), with `Issued`: whoever has a pair has one on file, and a login
  is numbered by its first pair.
- `OnlyMishapsEndLogins` (`NoFalseReuse`): a login without a mishap is in one tab (`OneHolder`), the
  token this tab presents is unspent, and what is in a store or on disk is unspent or about to
  be replaced by an answer on its way (`FreshPairs`, `FreshDisk`). Nearly every step moves one tab
  and leaves the pairs alone, or spends only pairs of the login being renewed; the lemmas are
  stated for those kinds of step and cited per action.
- `BrowserServerImplementsTokenChain` (`LoginsAreTokenChains`), by `OneLivePair`: of each login one
  pair at most is live; `SignIn` and `Rotate` are `HandOn`, every other step only ends chains.

`RosterProofs`:

- `TypesCorrect`; `CardsFindTheirStudent` (`QrFindsOnlyItsStudent`), whose invariant says that a
  student who was not removed has the code on the card, a removed one has code 0, cards are
  positive and no two are the same; `OverrunBounded` (`CapacityOverrunBounded`): a step adds at most
  one to seats plus requests, and only when the batch had room for it; `MarkedOnce`
  (`OneMarkPerBatch`), inductive as it stands: every way of marking guards its write by the unique
  index, and the delete of a batch moves its rows to no batch.

`AccessProofs`:

- `TypesCorrect`: a locked account has failed before, an opened link is on file.
- `LinksBounded` (`LinkWithinRequests`): uses plus openings of a link grow only while it is unused,
  and then uses are 0 (the strengthening), so the sum is at most the requests there are.
- `StatusProtected` (`StatusIsTheAdministrators`): every step is shown either harmless (no status, no
  verification and no link changes in favour of the account) or one that a shut account excludes.
- `GuessingBounded` (`GuessesBounded`): the tally of an account says for each count how many requests
  would leave at most that count behind. A guess moves it strictly forward in a linear order,
  so the guesses made while the account is open are at most the tallies passed (`GuessesCounted`),
  and the guess that locks it leaves at most the `N - 1` others. That the tallies are
  `choose(N + attempts - 1, N)` many is an `ASSUME` of `MCAccountAccess`, evaluated for up to 5
  attempts and 3 requests.

`AccessProofs` on `Portal`, for any roles, keys, times and number of changes:

- `WithdrawalsTakeEffect` (`PermissionsCatchUp`), by `Catching`: what a query found has been wrong for no
  longer than it is on its way, and a map that answers for no longer than its age and one
  query. An invalidated map does not answer, so an invalidation that a query in flight
  overwrites does no harm beyond that.
- `NobodyLedAstray` (`ArrivalsAreServed`), by `Guided`: the tab has one user at most and was led only to
  what the tables grant this user, and what waits was asked for this user unless it is an act
  that leads elsewhere. Its hypothesis `TablesServe` is what the tables of pages, routes and
  menu entries must say: the menu, the homes and the acts lead to pages whose reads are
  granted to whoever is led there. It is a finite fact about `AccessPolicy`, `Screens`
  and the withdrawable keys, beyond the provers for its size; `MCPortal` has TLC evaluate it for the
  key of the run, and so for no key at all. It is true of most keys. It fails of
  `report.view`, `settings.view`, `parent.manage` and the views of students, batches, fees, belts,
  certificates, events, videos, inventory and announcements: a super admin's menu does not look
  at what the map lacks, and an act of one key (`student.create`) leads to a page of another.

`OrganisationProofs`:

- `TypesCorrect`; `OneHeadOffice` (`OnePrimaryUnlessRaced`): while nothing was raced, what a request
  holds (`was`, `primaries`) at its commit is what is there, so its write keeps exactly one.
- `Closed` (`ClosedForGood`), one step per action; `SeatsBounded` (`SeatsWithinRequests`): an
  invitation is begun only below the limit, and a commit moves one user from those under way to
  those seated.

`StockProofs`:

- `TypesCorrect`; `OversellingBounded` (`OversoldWithinRequests`): what orders under way can still take
  is a multiple of `MaxQuantity`, and a commit takes its own share; `RestockingBounded`
  (`RestockedPerReopening`), strengthened with: an order that is not CANCELLED has gone back at most
  requests times reopenings, which leaves room for every request that sees it open now.
- `StockAccountedFor` (`StockAccounted`): an item's stock is what was supplied less what its orders
  hold, for a list of orders of any length: each commit changes one place of the list (or
  appends one), and so the total by that place; a correction that overwrote a change it had not
  read is `clobbered`.

`GradingProofs`:

- `TypesCorrect`, with the certificate an exam links to; `ResultsFinal` (`ResultStands`), one step
  per action: nobody starts to grade or remove an exam whose result is final.
- `BeltsTold` (`BeltIsRecorded`), inductive with: an update under way is of one student on file. For
  a student not `disturbed`, either no entry is due and the last one names the belt, or every
  entry that is due does (`Told`). One lemma per step that writes a belt or an entry; for each, a
  belt written while an entry is due, or without one of its own, is what `After` names.
- `CertificatesBounded` (`CertificatesPerReopening`), strengthened with `Filed` (nothing refers to an
  exam that was never scheduled) and `Balanced` (the certificates of an ungraded exam, issued or on
  their way, are at most requests times reopenings): that leaves room for one certificate of
  everyone who finds it ungraded now.

`DeskProofs`, about `Family` and `EventDesk`:

- `TypesCorrect`: no registration outlives its event.
- `RemovedParentsStayApart` (`RemovedParentGainsNoChild`), one step per action: a link and an
  admission commit only for a request that looked the parent up (`Linking`), and none looks up a
  parent that was removed.
- `PrimariesApart` (`OnePrimaryPerRequest`): a primary link has exactly one maker, a request that
  commits a primary link has demoted those it saw, its own earlier ones among them.
- `OverbookingBounded` (`BookedWithinRequests`): registrations plus registering requests of an event
  stay below the largest capacity plus requests; it needs that the present capacity is at most
  the ceiling and that an event's registrations are finite.

Only model-checked: the two liveness properties, `CallsSettle` and `StaffAlwaysLand`, which are out of
the prover's reach; and two facts about finite data, `TablesServe` and the number of tallies.

## 5. Where code and documents disagree

Met while modelling; each follows from the actions named.

Overlapping requests:

- `docs/ARCHITECTURE.md:101` has the balance re-derived in the transaction; `applyPayment` and
  `refundPayment` derive it from a row read before, so a payment can be lost from `paid`, and a void
  can be written over one (`CommitPayment`).
- A refresh past its checks survives the revocation of its family: `tokens.service.ts:45` calls
  reuse the end of it (`CommitRotation` after `RevokeFamily`).
- `branches.service.ts:151` says "An academy must always have at least one primary branch": two
  overlapping updates leave none, or two (`CommitBranch` with `raced`).
- Two scans outside a batch both add a row for a day (`docs/RUNBOOK.md:50`): null is distinct from
  null in the unique index.
- A parent removed between the look at it (`students.service.ts:67`, or `linkChild`'s) and the
  transaction that links it gains a child (`RemovedParentGainsNoChild` holds once these are through).
- An update of a student gives back the belt it read over a promotion committed meanwhile and
  enters nothing in the history, or enters its belt after a later change
  (`students.service.ts:263`).
- A one-time link works once for every request that opened it in time.

One request at a time:

- `refundPayment` compares one refund with the payment, not their sum: two partial refunds
  return more than was paid, against its own message "Refund exceeds paid amount"; the second
  overwrites the first on file.
- An edit may name any status (`fees.service.ts:203`): PAID over an open balance, which no payment
  then settles and no edit reopens, or PENDING over money paid.
- After a refresh the access token carries the family's id, and logout looks for a session of that
  id: the session row stays (`auth.controller.ts:141`).
- The code of a removed student cannot be issued again, because the card keeps it
  (`students.service.ts:295`).
- An invited user who sets a password by the link stays `PENDING_VERIFICATION` and cannot log in
  before verifying separately; the failed-login count does not restart when a lock expires.
- Seats are counted by `invite` only: registration, a parent's or instructor's login and the
  end of a suspension take one unasked.
- A refresh without a refresh token leaves `refreshInFlight` set for the life of the tab
  (`docs/ARCHITECTURE.md:80`); requests are still settled, with the error of the first.
- A refresh that is never answered holds every request of the tab that was refused meanwhile:
  it is posted without the timeout of the other calls (`api-client.ts:45`).
- `docs/API.md` gives a page size of at most 100; the code allows 200.

Pages and routes (`Screens` against `AccessPolicy`):

- Calls no route answers: `DELETE /batches/batches/:id` (`CHANGELOG.md:11`: "batches CRUD"),
  `POST /certificates/:id/revoke` (it is PATCH), `POST /inventory/items/:id/adjust`
  (`adjust-stock`), `GET /notifications/inbox`, `POST /notifications/:id/read` and `/read-all` (PATCH).
- The menu asks for `parent.view` and `instructor.view`, keys the seed does not have: no role
  but the super admin sees those entries.
- The overview asks for `reports.dashboard`, which is refused to a receptionist; a super admin, having
  no academy, is refused on every page scoped to one. These are the exceptions of
  `ArrivalsAreServed` (`KnownRefusals`, and the condition on the academy in `Expected`).
- A parent or student who comes to an address under `/dashboard`, by the logo of their own top bar
  (`frontend/src/components/app-shell/topbar.tsx:44`), by hand, or by the `?redirect=` of someone
  who signed out before, stays before an empty screen: `AuthGuard` sends them to
  `/dashboard` again. `StaffAlwaysLand` is about the staff for this reason.
- Links to pages that do not exist: `/dashboard/fees/invoices/new`, `/dashboard/learning/documents`,
  `/dashboard/profile`, `/dashboard/batches/[id]/edit`, `/student/attendance`, `/student/fees`,
  `/student/certificates`; mails point to `/auth/reset-password`, `/auth/verify` and `/auth/login`, and
  the pages are `/reset-password`, `/verify` and `/login`.
- The cache of React Query survives a sign-out: the next user of the tab may see the answers
  of the one before until they are fetched again. Not modelled.

## 6. Not modelled

- **Learning, instructors, announcements, settings**: single-row writes by id, upserts under a
  unique index, a number counted under one (as in `StudentRoster` and `Grading`). Their routes and
  pages are in `AccessPolicy` and `Screens`.
- **Notifications, mailer**: chains of calls to channels whose answers are outside the repository.
- **Reports, audit log, health, configuration, bootstrap, PDF and QR rendering, uploads, exports**:
  they change nothing that anything else reads.
- **Parts of modelled components**: fee plans; classes, schedules and a batch's capacity once it
  is set; holidays and statistics; names and addresses everywhere; signatures of tokens and
  gateway messages (a bad one is a request that never starts).
- **Data**: money is a small integer of paise; rupees, formatting and what JavaScript does beyond 2^53
  are left out; dates are the few distinctions the guards make (expired, locked, in
  the window).
- **Crashes between the gateway and the database** are modelled in `FeeLedger`, but nothing in the
  repository ever compares the two, so no property says they agree again.

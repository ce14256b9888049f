---------------------------- MODULE AccountAccess ----------------------------
(***************************************************************************)
(* How an account comes to be usable and how it stops being so: register   *)
(* and invite, the e-mailed links, the count of failed logins with its     *)
(* lock, and the administrator's status changes (AuthService,              *)
(* UsersService).                                                          *)
(*                                                                         *)
(* Every operation reads first and writes later, with a password hash, a   *)
(* mail or a plain await in between, so each is two steps of a request.    *)
(* The tokens that a login hands out are RefreshTokens' business.          *)
(***************************************************************************)
EXTENDS Integers, Sequences, FiniteSets

CONSTANTS
    Requests,           \* the HTTP requests the server works on at one time
    Accounts,           \* e-mail addresses: unique among the users rows
    MaxLoginAttempts,   \* MAX_LOGIN_ATTEMPTS
    StatusInputs,       \* the statuses an administrator sets
    MaxLinks,           \* bound: rows of email_verifications and password_resets
    MaxFailures         \* bound: failedLoginCount

UserStatus == {"ACTIVE", "INACTIVE", "SUSPENDED", "PENDING_VERIFICATION"}

ASSUME AccessAssumption ==
    /\ IsFiniteSet(Requests)
    /\ MaxLoginAttempts \in Nat \ {0}
    /\ StatusInputs \subseteq UserStatus
    /\ MaxLinks \in Nat /\ MaxFailures \in Nat

VARIABLES
    user,       \* the users rows
    links,      \* the email_verifications and password_resets rows
    req,        \* the requests in progress
    guesses     \* history: the wrong passwords answered since the account was last open

vars == <<user, links, req, guesses>>

\* locked: lockedUntil is in the future.
User == [exists : BOOLEAN, status : UserStatus, deleted : BOOLEAN, verified : BOOLEAN,
         failures : Nat, locked : BOOLEAN]

\* uses is history: how often the link did its work.
Link == [of : Accounts, kind : {"verify", "reset"}, expired : BOOLEAN, used : BOOLEAN, uses : Nat]

Stages == {"idle", "register", "invite", "mail", "guess", "login", "open", "admin"}

\* of: the account, mail: the kind of link to send, link: the one opened, seen: the count
\* of failures read, to: what the administrator wants.
RequestState ==
    [stage : Stages, of : SUBSET Accounts, mail : {"none", "verify", "reset"}, link : Nat,
     seen : Nat, to : UserStatus \cup {"deleted"}]

Idle == [stage |-> "idle", of |-> {}, mail |-> "none", link |-> 0, seen |-> 0, to |-> "ACTIVE"]
NoUser == [exists |-> FALSE, status |-> "PENDING_VERIFICATION", deleted |-> FALSE,
           verified |-> FALSE, failures |-> 0, locked |-> FALSE]

Init ==
    /\ user = [a \in Accounts |-> NoUser]
    /\ links = <<>>
    /\ req = [r \in Requests |-> Idle]
    /\ guesses = [a \in Accounts |-> 0]

IsIdle(r) == req[r].stage = "idle"
At(r, stage, a) == req[r].stage = stage /\ a \in req[r].of
Begin(r, fields) == IsIdle(r) /\ req' = [req EXCEPT ![r] = fields]
Finish(r) == req' = [req EXCEPT ![r] = Idle]
Mail(r, a, kind) == [Idle EXCEPT !.stage = "mail", !.of = {a}, !.mail = kind]
Unchanged == UNCHANGED <<user, links, guesses>>

-----------------------------------------------------------------------------
(* Accounts and the mails that follow.                                     *)

BeginRegister(r, a) ==
    /\ ~user[a].exists
    /\ Begin(r, [Idle EXCEPT !.stage = "register", !.of = {a}])
    /\ Unchanged

BeginInvite(r, a) ==
    /\ ~user[a].exists
    /\ Begin(r, [Idle EXCEPT !.stage = "invite", !.of = {a}])
    /\ Unchanged

\* The unique index on email refuses the second insert.
Insert(r, a) ==
    /\ ~user[a].exists
    /\ user' = [user EXCEPT ![a].exists = TRUE]
    /\ UNCHANGED <<links, guesses>>

CommitRegister(r, a) ==
    /\ At(r, "register", a)
    /\ Insert(r, a)
    /\ req' = [req EXCEPT ![r] = Mail(r, a, "verify")]

CommitInvite(r, a) ==
    /\ At(r, "invite", a)
    /\ Insert(r, a)
    /\ req' = [req EXCEPT ![r] = Mail(r, a, "reset")]

AnyAddress(a) == user[a].exists
Unverified(a) == user[a].exists /\ ~user[a].verified

ResendVerification(r, a) ==
    /\ Unverified(a)
    /\ Begin(r, Mail(r, a, "verify"))
    /\ Unchanged

ForgotPassword(r, a) ==
    /\ user[a].exists /\ ~user[a].deleted
    /\ Begin(r, Mail(r, a, "reset"))
    /\ Unchanged

\* The row of the link is written; the mail goes out after it.
SendLink(r, a) ==
    /\ At(r, "mail", a)
    /\ Len(links) < MaxLinks
    /\ links' = Append(links, [of |-> a, kind |-> req[r].mail, expired |-> FALSE,
                               used |-> FALSE, uses |-> 0])
    /\ Finish(r)
    /\ UNCHANGED <<user, guesses>>

-----------------------------------------------------------------------------
(* Opening a link: verifyEmail and resetPassword.                          *)

Unexpired(l) == ~links[l].expired
Fresh(l) == ~links[l].used /\ ~links[l].expired

OpenLink(r, l) ==
    /\ Fresh(l)
    /\ Begin(r, [Idle EXCEPT !.stage = "open", !.of = {links[l].of}, !.link = l])
    /\ Unchanged

Spend(l) == links' = [links EXCEPT ![l].used = TRUE, ![l].uses = @ + 1]

\* The account is made ACTIVE whatever it is by now.
VerifyEmail(r, a) ==
    LET l == req[r].link IN
    /\ At(r, "open", a)
    /\ links[l].kind = "verify"
    /\ Spend(l)
    /\ user' = [user EXCEPT ![a].verified = TRUE, ![a].status = "ACTIVE"]
    /\ Finish(r)
    /\ UNCHANGED guesses

CountReset(a) ==
    /\ user' = [user EXCEPT ![a].failures = 0]
    /\ guesses' = [guesses EXCEPT ![a] = 0]

\* A new password, or a login, starts the count again and opens the lock.
Reopened(a) ==
    /\ user' = [user EXCEPT ![a].failures = 0, ![a].locked = FALSE]
    /\ guesses' = [guesses EXCEPT ![a] = 0]

ResetPassword(r, a) ==
    LET l == req[r].link IN
    /\ At(r, "open", a)
    /\ links[l].kind = "reset"
    /\ Spend(l)
    /\ Reopened(a)
    /\ Finish(r)

ExpireLink(l) ==
    /\ ~links[l].expired
    /\ links' = [links EXCEPT ![l].expired = TRUE]
    /\ UNCHANGED <<user, req, guesses>>

-----------------------------------------------------------------------------
(* Logins.                                                                 *)

Answerable(a) == user[a].exists /\ ~user[a].deleted /\ ~user[a].locked

\* A wrong password: the count is read with the row, before the hash is compared.
ReadForGuess(r, a) ==
    /\ Answerable(a)
    /\ user[a].failures < MaxFailures
    /\ Begin(r, [Idle EXCEPT !.stage = "guess", !.of = {a}, !.seen = user[a].failures])
    /\ Unchanged

LocksBeyond(count) == count > MaxLoginAttempts
Locks(count) == count >= MaxLoginAttempts

RecordFailedLogin(r, a) ==
    LET nextCount == req[r].seen + 1 IN
    /\ At(r, "guess", a)
    /\ user' = [user EXCEPT ![a].failures = nextCount,
                            ![a].locked = @ \/ Locks(nextCount)]
    /\ guesses' = [guesses EXCEPT ![a] = @ + 1]
    /\ Finish(r)
    /\ UNCHANGED links

ReadForLogin(r, a) ==
    /\ Answerable(a)
    /\ user[a].status = "ACTIVE"
    /\ Begin(r, [Idle EXCEPT !.stage = "login", !.of = {a}])
    /\ Unchanged

CommitLogin(r, a) ==
    /\ At(r, "login", a)
    /\ Reopened(a)
    /\ Finish(r)
    /\ UNCHANGED links

\* lockedUntil passes.  The count stays where it is.
LockExpires(a) ==
    /\ user[a].locked
    /\ user' = [user EXCEPT ![a].locked = FALSE]
    /\ guesses' = [guesses EXCEPT ![a] = 0]
    /\ UNCHANGED <<links, req>>

-----------------------------------------------------------------------------
(* The administrator: setStatus and remove.                                *)

ReadForAdmin(r, a, to) ==
    /\ user[a].exists /\ ~user[a].deleted
    /\ Begin(r, [Idle EXCEPT !.stage = "admin", !.of = {a}, !.to = to])
    /\ Unchanged

SetStatus(r, a) ==
    /\ At(r, "admin", a) /\ req[r].to # "deleted"
    /\ user' = [user EXCEPT ![a].status = req[r].to]
    /\ Finish(r)
    /\ UNCHANGED <<links, guesses>>

Remove(r, a) ==
    /\ At(r, "admin", a) /\ req[r].to = "deleted"
    /\ user' = [user EXCEPT ![a].deleted = TRUE, ![a].status = "INACTIVE"]
    /\ Finish(r)
    /\ UNCHANGED <<links, guesses>>

\* The insert is refused, the mail fails, or the process dies.
Abandon(r) ==
    /\ ~IsIdle(r)
    /\ Finish(r)
    /\ Unchanged

Serve(r) ==
    \/ \E a \in Accounts :
          \/ BeginRegister(r, a) \/ CommitRegister(r, a)
          \/ BeginInvite(r, a) \/ CommitInvite(r, a)
          \/ ResendVerification(r, a) \/ ForgotPassword(r, a) \/ SendLink(r, a)
          \/ VerifyEmail(r, a) \/ ResetPassword(r, a)
          \/ ReadForGuess(r, a) \/ RecordFailedLogin(r, a)
          \/ ReadForLogin(r, a) \/ CommitLogin(r, a)
          \/ \E to \in StatusInputs \cup {"deleted"} : ReadForAdmin(r, a, to)
          \/ SetStatus(r, a) \/ Remove(r, a)
    \/ \E l \in DOMAIN links : OpenLink(r, l)
    \/ Abandon(r)

Next ==
    \/ \E r \in Requests : Serve(r)
    \/ \E a \in Accounts : LockExpires(a)
    \/ \E l \in DOMAIN links : ExpireLink(l)

Spec == Init /\ [][Next]_vars

-----------------------------------------------------------------------------
TypeOK ==
    /\ user \in [Accounts -> User]
    /\ \A a \in Accounts : user[a].locked => user[a].failures > 0
    /\ links \in Seq(Link)
    /\ req \in [Requests -> RequestState]
    /\ \A r \in Requests : req[r].stage = "open" => req[r].link \in DOMAIN links
    /\ guesses \in [Accounts -> Nat]

\* auth.controller.ts:117 calls the token of a reset one-time.  A link is checked before it
\* is marked as used: it works once for every request that opened it before the first was
\* through, never for one that came after.
Opening(l) == {r \in Requests : req[r].stage = "open" /\ req[r].link = l}

LinkWithinRequests ==
    \A l \in DOMAIN links : links[l].uses + Cardinality(Opening(l)) <= Cardinality(Requests)

\* What the requests may know of an account's count while it is open: how many of them would
\* write at most n + 1, for every n whose successor does not lock.
Tallies(attempts, requests) ==
    {t \in [0 .. attempts - 2 -> 0 .. requests] : \A m, n \in DOMAIN t : m <= n => t[m] <= t[n]}

Tally == Tallies(MaxLoginAttempts, Cardinality(Requests))

\* A failed login writes the count it read plus one, so a late one can take the count back.
\* Still the lock comes: of MaxLoginAttempts wrong passwords if they come one by one, and of
\* no more than there are tallies with the overlap of N requests, of which N - 1 may be
\* answered when the account is locked already.
GuessesBounded ==
    \A a \in Accounts : guesses[a] <= Cardinality(Tally) + Cardinality(Requests) - 1

\* verifyEmail makes an account ACTIVE again that was suspended meanwhile.  That way is shut
\* for good once the address is verified, no link to verify it is left and no request that
\* could send or open one is under way: from then on the status is the administrator's alone.
Shut(a) ==
    /\ user[a].verified
    /\ \A l \in DOMAIN links : links[l].of = a /\ links[l].kind = "verify" => ~Fresh(l)
    /\ \A r \in Requests : a \in req[r].of => req[r].stage \in {"idle", "guess", "login", "admin"}
                                              \/ req[r].mail = "reset"
                                              \/ (req[r].stage = "open" /\ links[req[r].link].kind = "reset")

StatusIsTheAdministrators ==
    [][\A a \in Accounts : Shut(a) =>
          /\ Shut(a)'
          /\ user'[a].status # user[a].status => \E r \in Requests : At(r, "admin", a)]_vars
=============================================================================

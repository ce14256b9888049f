----------------------------- MODULE Organisation -----------------------------
(***************************************************************************)
(* One academy with its subscription, its branches and the users who take  *)
(* its seats (AcademiesService, BranchesService, and the parts of          *)
(* UsersService and AuthService that add a user).  Names, addresses and    *)
(* prices decide nothing and are left out.                                 *)
(*                                                                         *)
(* A row lock held by a transaction only delays the writes of another one, *)
(* so a transaction is two steps: what it reads, and what it commits.      *)
(***************************************************************************)
EXTENDS Integers, FiniteSets

CONSTANTS
    Requests,       \* the HTTP requests the server works on at one time
    Branches,       \* branch rows
    Headquarters,   \* the branch made with the academy
    Users,          \* user rows
    SeatLimits      \* the seat limits the platform's administrator enters

ASSUME OrganisationAssumption ==
    /\ IsFiniteSet(Requests) /\ IsFiniteSet(Users)
    /\ Headquarters \in Branches
    /\ SeatLimits \subseteq Nat \ {0}

VARIABLES
    academy,    \* the academies row: its status, and whether deletedAt is set
    seatLimit,  \* seatLimit of the subscription
    branch,     \* the branches rows
    user,       \* the users rows
    req,        \* the requests in progress
    raced,      \* history: a branch was written on what had changed since it was read
    unchecked,  \* history: users who took their seat without a look at the limit
    ceiling     \* history: the largest seat limit there was

vars == <<academy, seatLimit, branch, user, req, raced, unchecked, ceiling>>
branchVars == <<branch, raced>>
seatVars == <<seatLimit, user, unchecked, ceiling>>
Tables == <<academy, seatLimit, branch, user, raced, unchecked, ceiling>>

AcademyStatus == {"none", "TRIAL", "ACTIVE", "SUSPENDED", "EXPIRED", "CANCELLED"}
BranchRow == {"none", "plain", "primary", "deleted"}
UserRow == {"none", "seated", "suspended", "deleted"}

Stages == {"idle", "academy", "delete", "expire", "create", "update", "write", "remove",
           "register", "invite"}

\* was and primaries are what the request read; to is what it will write.
Idle == [stage |-> "idle", status |-> "none", target |-> {}, was |-> "none", to |-> "none",
         primaries |-> {}]

RequestState ==
    [stage : Stages, status : AcademyStatus, target : SUBSET (Branches \cup Users),
     was : BranchRow, to : BranchRow, primaries : SUBSET Branches]

Init ==
    /\ academy = [status |-> "none", deleted |-> FALSE]
    /\ seatLimit = 0
    /\ branch = [b \in Branches |-> "none"]
    /\ user = [u \in Users |-> "none"]
    /\ req = [r \in Requests |-> Idle]
    /\ raced = FALSE
    /\ unchecked = {}
    /\ ceiling = 0

IsIdle(r) == req[r].stage = "idle"
Begin(r, fields) == IsIdle(r) /\ req' = [req EXCEPT ![r] = fields]
Finish(r) == req' = [req EXCEPT ![r] = Idle]

-----------------------------------------------------------------------------
(* The academy and its subscription.                                       *)

LimitSeats(limit) ==
    /\ seatLimit' = limit
    /\ ceiling' = IF limit > ceiling THEN limit ELSE ceiling

\* One transaction: the academy, its head office, the subscription, and perhaps its
\* administrator, whose seat nobody counts.
CreateAcademy(r, status, limit, admins) ==
    /\ IsIdle(r)
    /\ academy.status = "none"
    /\ academy' = [status |-> status, deleted |-> FALSE]
    /\ branch' = [branch EXCEPT ![Headquarters] = "primary"]
    /\ LimitSeats(limit)
    /\ user' = [u \in Users |-> IF u \in admins THEN "seated" ELSE user[u]]
    /\ unchecked' = unchecked \cup admins
    /\ UNCHANGED <<req, raced>>

Exists == academy.status # "none"
EvenDeleted == Exists
Live == Exists /\ ~academy.deleted

ReadForStatus(r, status) ==
    /\ Live
    /\ Begin(r, [Idle EXCEPT !.stage = "academy", !.status = status])
    /\ UNCHANGED Tables

SetStatus(r) ==
    /\ req[r].stage = "academy"
    /\ academy' = [academy EXCEPT !.status = req[r].status]
    /\ Finish(r)
    /\ UNCHANGED <<branchVars, seatVars>>

ReadForDelete(r) ==
    /\ Live
    /\ academy.status # "ACTIVE"
    /\ Begin(r, [Idle EXCEPT !.stage = "delete"])
    /\ UNCHANGED Tables

SoftDelete(r) ==
    /\ req[r].stage = "delete"
    /\ academy' = [status |-> "CANCELLED", deleted |-> TRUE]
    /\ Finish(r)
    /\ UNCHANGED <<branchVars, seatVars>>

\* The subscription outlives the academy's deletion.  When it ends, the academy is expired
\* by a second write.
UpdateSubscription(r, limit, ended) ==
    /\ Exists
    /\ LimitSeats(limit)
    /\ IF ended THEN Begin(r, [Idle EXCEPT !.stage = "expire"])
                ELSE IsIdle(r) /\ UNCHANGED req
    /\ UNCHANGED <<academy, branchVars, user, unchecked>>

Expire(r) ==
    /\ req[r].stage = "expire"
    /\ academy' = [academy EXCEPT !.status = "EXPIRED"]
    /\ Finish(r)
    /\ UNCHANGED <<branchVars, seatVars>>

-----------------------------------------------------------------------------
(* Branches.                                                               *)

Primaries == {b \in Branches : branch[b] = "primary"}
LiveBranch(b) == branch[b] \in {"plain", "primary"}

\* The transaction of create: the flags it clears, then the row it inserts.
BeginCreateBranch(r, b, to) ==
    /\ Exists
    /\ branch[b] = "none"
    /\ Begin(r, [Idle EXCEPT !.stage = "create", !.target = {b}, !.to = to,
                             !.primaries = Primaries])
    /\ UNCHANGED Tables

\* findById, before the transaction of update and the write of remove.
ReadForUpdate(r, b, to) ==
    /\ LiveBranch(b)
    /\ Begin(r, [Idle EXCEPT !.stage = "update", !.target = {b}, !.was = branch[b], !.to = to])
    /\ UNCHANGED Tables

KeepsNone(q) == TRUE
KeepsAPrimary(q) == q.to = "plain" /\ q.was = "primary" => Primaries \ q.target # {}

BeginUpdate(r) ==
    /\ req[r].stage = "update"
    /\ KeepsAPrimary(req[r])
    /\ req' = [req EXCEPT ![r] = [@ EXCEPT !.stage = "write", !.primaries = Primaries]]
    /\ UNCHANGED Tables

NotPrimary(b) == branch[b] # "primary"
AnyBranch(b) == LiveBranch(b)

ReadForRemove(r, b) ==
    /\ LiveBranch(b)
    /\ NotPrimary(b)
    /\ Begin(r, [Idle EXCEPT !.stage = "remove", !.target = {b}, !.was = branch[b],
                             !.to = "deleted"])
    /\ UNCHANGED Tables

\* What the request decided on is not what is there any more.
Stale(q) ==
    \/ \E b \in q.target : branch[b] # q.was
    \/ q.stage # "remove" /\ Primaries # q.primaries

\* updateMany clears the primaries it saw; the write that follows names the row by id alone,
\* so a row deleted meanwhile stays deleted.
Written(q) ==
    [b \in Branches |->
        IF b \in q.target THEN IF branch[b] = "deleted" THEN "deleted" ELSE q.to
        ELSE IF q.to = "primary" /\ b \in q.primaries /\ branch[b] = "primary" THEN "plain"
        ELSE branch[b]]

CommitBranch(r) ==
    /\ req[r].stage \in {"create", "write", "remove"}
    /\ req[r].stage = "create" => \A b \in req[r].target : branch[b] = "none"
    /\ branch' = Written(req[r])
    /\ raced' = (raced \/ Stale(req[r]))
    /\ Finish(r)
    /\ UNCHANGED <<academy, seatVars>>

-----------------------------------------------------------------------------
(* Seats.                                                                  *)

Seated == {u \in Users : user[u] = "seated"}

\* The sign-up page asks whether the academy takes registrations, not whether it has seats.
BeginRegister(r, u) ==
    /\ Live /\ academy.status \notin {"SUSPENDED", "CANCELLED"}
    /\ user[u] = "none"
    /\ Begin(r, [Idle EXCEPT !.stage = "register", !.target = {u}])
    /\ UNCHANGED Tables

Uncounted == TRUE
HasSeat == Cardinality(Seated) < seatLimit

BeginInvite(r, u) ==
    /\ Exists
    /\ user[u] = "none"
    /\ HasSeat
    /\ Begin(r, [Idle EXCEPT !.stage = "invite", !.target = {u}])
    /\ UNCHANGED Tables

\* The unique index on email refuses the second insert of one user.
CommitUser(r) ==
    /\ req[r].stage \in {"register", "invite"}
    /\ \A u \in req[r].target : user[u] = "none"
    /\ user' = [u \in Users |-> IF u \in req[r].target THEN "seated" ELSE user[u]]
    /\ unchecked' = unchecked \cup (IF req[r].stage = "register" THEN req[r].target ELSE {})
    /\ Finish(r)
    /\ UNCHANGED <<academy, branchVars, seatLimit, ceiling>>

\* The login of a new parent or instructor, and the end of a suspension.
TakeSeat(r, u) ==
    /\ Exists
    /\ IsIdle(r)
    /\ user[u] \in {"none", "suspended"}
    /\ user' = [user EXCEPT ![u] = "seated"]
    /\ unchecked' = unchecked \cup {u}
    /\ UNCHANGED <<academy, branchVars, seatLimit, ceiling, req>>

LeaveSeat(r, u, to) ==
    /\ IsIdle(r)
    /\ user[u] \in {"seated", "suspended"}
    /\ user' = [user EXCEPT ![u] = to]
    /\ UNCHANGED <<academy, branchVars, seatLimit, unchecked, ceiling, req>>

\* A unique index refuses, the database fails, or the process dies.
Abandon(r) ==
    /\ ~IsIdle(r)
    /\ Finish(r)
    /\ UNCHANGED Tables

-----------------------------------------------------------------------------
Govern(r) ==
    \/ \E status \in {"TRIAL", "ACTIVE"}, limit \in SeatLimits, admins \in SUBSET Users :
          Cardinality(admins) <= 1 /\ CreateAcademy(r, status, limit, admins)
    \/ \E status \in {"SUSPENDED", "ACTIVE"} : ReadForStatus(r, status)
    \/ SetStatus(r) \/ ReadForDelete(r) \/ SoftDelete(r)
    \/ \E limit \in SeatLimits, ended \in BOOLEAN : UpdateSubscription(r, limit, ended)
    \/ Expire(r)

Settle(r) ==
    \/ \E b \in Branches, to \in {"plain", "primary"} :
          BeginCreateBranch(r, b, to) \/ ReadForUpdate(r, b, to)
    \/ \E b \in Branches : ReadForRemove(r, b)
    \/ BeginUpdate(r) \/ CommitBranch(r)

Seat(r) ==
    \/ \E u \in Users : BeginRegister(r, u) \/ BeginInvite(r, u) \/ TakeSeat(r, u)
    \/ \E u \in Users, to \in {"suspended", "deleted"} : LeaveSeat(r, u, to)
    \/ CommitUser(r)

Next == \E r \in Requests : Govern(r) \/ Settle(r) \/ Seat(r) \/ Abandon(r)

Spec == Init /\ [][Next]_vars

-----------------------------------------------------------------------------
TypeOK ==
    /\ academy \in [status : AcademyStatus, deleted : BOOLEAN]
    /\ seatLimit \in Nat
    /\ branch \in [Branches -> BranchRow]
    /\ user \in [Users -> UserRow]
    /\ req \in [Requests -> RequestState]
    /\ raced \in BOOLEAN
    /\ unchecked \subseteq Users
    /\ ceiling \in Nat

\* update, create and remove clear and count flags in steps of their own: an academy has
\* exactly one primary branch until one of them writes on what had changed since it looked.
OnePrimaryUnlessRaced == Exists /\ ~raced => Cardinality(Primaries) = 1

\* setStatus and softDelete write by id what they decided on an earlier read, and
\* updateSubscription never looks: after a deletion no further request gets so far, and once
\* those that had seen the academy alive are gone only the end of its subscription changes it.
Reopening == {r \in Requests : req[r].stage \in {"academy", "delete"}}

ClosedForGood ==
    [][academy.deleted =>
          /\ academy'.deleted
          /\ Reopening' \subseteq Reopening
          /\ Reopening = {} => academy'.status \in {academy.status, "EXPIRED"}]_vars

\* create counts the seats before it inserts: the users it admitted exceed the largest limit
\* there was by less than the requests under way, whoever else took seats unasked.
Inviting == {r \in Requests : req[r].stage = "invite"}

SeatsWithinRequests ==
    Exists => Cardinality(Seated \ unchecked) + Cardinality(Inviting)
                  < ceiling + Cardinality(Requests)
=============================================================================

-------------------------- MODULE OrganisationProofs --------------------------
(***************************************************************************)
(* What Organisation guarantees for every number of requests, branches and *)
(* users and every seat limit: its types, one primary branch, a deleted    *)
(* academy that stays so, and how far the seats exceed the limit.          *)
(***************************************************************************)
EXTENDS Organisation, FiniteSetTheorems, TLAPS

-----------------------------------------------------------------------------
(* Types, and what a request in progress holds.                            *)

\* Every stage has the fields its reader filled in; before the academy there is nothing.
RequestOK(q) ==
    /\ q.stage = "academy" => q.status \in {"SUSPENDED", "ACTIVE"}
    /\ q.stage \in {"create", "update", "write", "remove"} => \E b \in Branches : q.target = {b}
    /\ q.stage = "create" => q.was = "none" /\ q.to \in {"plain", "primary"}
    /\ q.stage \in {"update", "write"} => q.was \in {"plain", "primary"} /\ q.to \in {"plain", "primary"}
    /\ q.stage = "write" /\ q.to = "plain" /\ q.was = "primary" => q.primaries \ q.target # {}
    /\ q.stage = "remove" => q.was = "plain" /\ q.to = "deleted"
    /\ q.stage \in {"register", "invite"} => \E u \in Users : q.target = {u}

Consistent ==
    /\ \A r \in Requests : RequestOK(req[r])
    /\ ~Exists => /\ branch = [b \in Branches |-> "none"]
                  /\ user = [u \in Users |-> "none"]
                  /\ req = [r \in Requests |-> Idle]
                  /\ ~academy.deleted
    /\ Exists => Requests # {}
    /\ seatLimit <= ceiling

Typed == TypeOK /\ Consistent

LEMMA IdleTyped == Idle \in RequestState /\ RequestOK(Idle)
BY DEF Idle, RequestState, Stages, AcademyStatus, BranchRow, RequestOK

LEMMA InitTyped == Init => Typed
<1> SUFFICES ASSUME Init PROVE Typed
  OBVIOUS
<1>1. academy \in [status : AcademyStatus, deleted : BOOLEAN] /\ ~Exists /\ ~academy.deleted
  BY DEF Init, AcademyStatus, Exists
<1>2. req \in [Requests -> RequestState] /\ \A r \in Requests : RequestOK(req[r])
  BY IdleTyped DEF Init
<1>3. TypeOK
  BY <1>1, <1>2 DEF Init, TypeOK, BranchRow, UserRow
<1>4. Consistent
  BY <1>1, <1>2 DEF Init, Consistent
<1> QED BY <1>3, <1>4 DEF Typed

\* A request that moves to a well-formed state and leaves the tables keeps everything typed.
LEMMA RequestTyped ==
    ASSUME Typed, NEW r \in Requests, NEW fields \in RequestState, RequestOK(fields),
           req' = [req EXCEPT ![r] = fields]
    PROVE  req' \in [Requests -> RequestState] /\ \A q \in Requests : RequestOK(req'[q])
BY DEF Typed, TypeOK, Consistent

LEMMA ReadTyped ==
    ASSUME Typed, Exists, NEW r \in Requests, NEW fields \in RequestState, RequestOK(fields),
           req' = [req EXCEPT ![r] = fields], UNCHANGED Tables
    PROVE  Typed'
<1>1. req' \in [Requests -> RequestState] /\ \A q \in Requests : RequestOK(req'[q])
  BY RequestTyped
<1>2. Exists' /\ Requests # {}
  BY DEF Exists, Tables
<1>3. TypeOK'
  BY <1>1 DEF Tables, Typed, TypeOK
<1>4. Consistent'
  BY <1>1, <1>2 DEF Tables, Typed, Consistent
<1> QED BY <1>3, <1>4 DEF Typed

\* A request in progress means there is an academy.
LEMMA Busy ==
    ASSUME Typed, NEW r \in Requests, req[r].stage # "idle"
    PROVE  Exists
BY DEF Typed, Consistent, Idle

LEMMA GovernTyped == ASSUME Typed, NEW r \in Requests, Govern(r) PROVE Typed'
<1>1. ASSUME NEW status \in {"TRIAL", "ACTIVE"}, NEW limit \in SeatLimits,
             NEW admins \in SUBSET Users, CreateAcademy(r, status, limit, admins)
      PROVE  Typed'
  <2>1. Exists' /\ academy' \in [status : AcademyStatus, deleted : BOOLEAN]
    BY <1>1 DEF CreateAcademy, Exists, AcademyStatus
  <2>2. /\ seatLimit' \in Nat /\ ceiling' \in Nat /\ seatLimit' <= ceiling'
    BY <1>1, OrganisationAssumption DEF CreateAcademy, LimitSeats, Typed, TypeOK
  <2>3. /\ branch' \in [Branches -> BranchRow] /\ user' \in [Users -> UserRow]
        /\ unchecked' \subseteq Users
    BY <1>1 DEF CreateAcademy, Typed, TypeOK, BranchRow, UserRow
  <2>4. TypeOK'
    BY <1>1, <2>1, <2>2, <2>3 DEF CreateAcademy, Typed, TypeOK
  <2>5. Consistent'
    BY <1>1, <2>1, <2>2 DEF CreateAcademy, Typed, Consistent
  <2> QED BY <2>4, <2>5 DEF Typed
<1>2. ASSUME NEW status \in {"SUSPENDED", "ACTIVE"}, ReadForStatus(r, status) PROVE Typed'
  <2>1. [Idle EXCEPT !.stage = "academy", !.status = status] \in RequestState
    BY IdleTyped DEF Idle, RequestState, Stages, AcademyStatus
  <2>2. RequestOK([Idle EXCEPT !.stage = "academy", !.status = status])
    BY DEF Idle, RequestOK
  <2> QED BY <1>2, <2>1, <2>2, ReadTyped DEF ReadForStatus, Live, Begin
<1>3. CASE ReadForDelete(r)
  <2>1. [Idle EXCEPT !.stage = "delete"] \in RequestState
    BY IdleTyped DEF Idle, RequestState, Stages
  <2>2. RequestOK([Idle EXCEPT !.stage = "delete"])
    BY DEF Idle, RequestOK
  <2> QED BY <1>3, <2>1, <2>2, ReadTyped DEF ReadForDelete, Live, Begin
<1>4. ASSUME NEW limit \in SeatLimits, NEW ended \in BOOLEAN, UpdateSubscription(r, limit, ended)
      PROVE  Typed'
  <2>1. Exists' /\ Requests # {}
    BY <1>4 DEF UpdateSubscription, Exists
  <2>2. seatLimit' \in Nat /\ ceiling' \in Nat /\ seatLimit' <= ceiling'
    BY <1>4, OrganisationAssumption DEF UpdateSubscription, LimitSeats, Typed, TypeOK
  <2>3. [Idle EXCEPT !.stage = "expire"] \in RequestState
    BY IdleTyped DEF Idle, RequestState, Stages
  <2>4. RequestOK([Idle EXCEPT !.stage = "expire"])
    BY DEF Idle, RequestOK
  <2>5. req' = [req EXCEPT ![r] = [Idle EXCEPT !.stage = "expire"]] \/ req' = req
    BY <1>4 DEF UpdateSubscription, Begin
  <2>6. req' \in [Requests -> RequestState] /\ \A q \in Requests : RequestOK(req'[q])
    BY <2>3, <2>4, <2>5, RequestTyped DEF Typed, TypeOK, Consistent
  <2>7. TypeOK'
    BY <1>4, <2>2, <2>6 DEF UpdateSubscription, branchVars, Typed, TypeOK
  <2>8. Consistent'
    BY <2>1, <2>2, <2>6 DEF Consistent
  <2> QED BY <2>7, <2>8 DEF Typed
<1>5. CASE SetStatus(r) \/ SoftDelete(r) \/ Expire(r)
  <2>1. req[r].stage \in {"academy", "delete", "expire"} /\ RequestOK(req[r])
    BY <1>5 DEF SetStatus, SoftDelete, Expire, Typed, Consistent
  <2>2. Exists
    BY <2>1, Busy
  <2> DEFINE status == IF req[r].stage = "academy" THEN req[r].status
                       ELSE IF req[r].stage = "delete" THEN "CANCELLED" ELSE "EXPIRED"
             deleted == IF req[r].stage = "delete" THEN TRUE ELSE academy.deleted
  <2>8. academy \in [status : AcademyStatus, deleted : BOOLEAN]
    BY DEF Typed, TypeOK
  <2>9. academy' = [status |-> status, deleted |-> deleted]
    BY <1>5, <2>8 DEF SetStatus, SoftDelete, Expire
  <2>10. status \in AcademyStatus \ {"none"} /\ deleted \in BOOLEAN
    BY <2>1, <2>8 DEF AcademyStatus, RequestOK
  <2>3. Exists' /\ academy' \in [status : AcademyStatus, deleted : BOOLEAN]
    BY <2>9, <2>10 DEF Exists
  <2>4. req' \in [Requests -> RequestState] /\ \A q \in Requests : RequestOK(req'[q])
    BY <1>5, IdleTyped, RequestTyped DEF SetStatus, SoftDelete, Expire, Finish
  <2>5. UNCHANGED <<branchVars, seatVars>>
    BY <1>5 DEF SetStatus, SoftDelete, Expire
  <2>6. TypeOK'
    BY <2>3, <2>4, <2>5 DEF branchVars, seatVars, Typed, TypeOK
  <2>7. Consistent'
    BY <2>3, <2>4, <2>5 DEF seatVars, Typed, Consistent
  <2> QED BY <2>6, <2>7 DEF Typed
<1> QED BY <1>1, <1>2, <1>3, <1>4, <1>5 DEF Govern

LEMMA SettleTyped == ASSUME Typed, NEW r \in Requests, Settle(r) PROVE Typed'
<1>1. Primaries \subseteq Branches
  BY DEF Primaries
<1>2. ASSUME NEW b \in Branches, NEW to \in {"plain", "primary"}, BeginCreateBranch(r, b, to)
      PROVE  Typed'
  <2> DEFINE fields == [Idle EXCEPT !.stage = "create", !.target = {b}, !.to = to,
                                    !.primaries = Primaries]
  <2>1. fields \in RequestState
    BY <1>1, IdleTyped DEF Idle, RequestState, Stages, BranchRow
  <2>2. RequestOK(fields)
    BY DEF Idle, RequestOK
  <2> QED BY <1>2, <2>1, <2>2, ReadTyped DEF BeginCreateBranch, Begin
<1>3. ASSUME NEW b \in Branches, NEW to \in {"plain", "primary"}, ReadForUpdate(r, b, to)
      PROVE  Typed'
  <2> DEFINE fields == [Idle EXCEPT !.stage = "update", !.target = {b}, !.was = branch[b],
                                    !.to = to]
  <2>1. branch[b] \in {"plain", "primary"} /\ Exists
    BY <1>3 DEF ReadForUpdate, LiveBranch, Typed, Consistent
  <2>2. fields \in RequestState
    BY <2>1, IdleTyped DEF Idle, RequestState, Stages, BranchRow
  <2>3. RequestOK(fields)
    BY <2>1 DEF Idle, RequestOK
  <2> QED BY <1>3, <2>1, <2>2, <2>3, ReadTyped DEF ReadForUpdate, Begin
<1>4. ASSUME NEW b \in Branches, ReadForRemove(r, b) PROVE Typed'
  <2> DEFINE fields == [Idle EXCEPT !.stage = "remove", !.target = {b}, !.was = branch[b],
                                    !.to = "deleted"]
  <2>1. branch[b] = "plain" /\ Exists
    BY <1>4 DEF ReadForRemove, LiveBranch, NotPrimary, Typed, Consistent
  <2>2. fields \in RequestState
    BY <2>1, IdleTyped DEF Idle, RequestState, Stages, BranchRow
  <2>3. RequestOK(fields)
    BY <2>1 DEF Idle, RequestOK
  <2> QED BY <1>4, <2>1, <2>2, <2>3, ReadTyped DEF ReadForRemove, Begin
<1>5. CASE BeginUpdate(r)
  <2> DEFINE q == req[r]
             fields == [q EXCEPT !.stage = "write", !.primaries = Primaries]
  <2>1. q \in RequestState /\ q.stage = "update" /\ RequestOK(q) /\ KeepsAPrimary(q)
    BY <1>5 DEF BeginUpdate, Typed, TypeOK, Consistent
  <2>2. fields \in RequestState
    BY <1>1, <2>1 DEF RequestState, Stages
  <2>3. /\ fields.stage = "write" /\ fields.primaries = Primaries /\ fields.target = q.target
        /\ fields.was = q.was /\ fields.to = q.to
    BY <2>1 DEF RequestState
  <2>4. RequestOK(fields)
    BY <2>1, <2>3 DEF RequestOK, KeepsAPrimary
  <2>5. Exists
    BY <2>1, Busy
  <2>6. req' = [req EXCEPT ![r] = fields] /\ UNCHANGED Tables
    BY <1>5 DEF BeginUpdate
  <2> HIDE DEF fields
  <2> QED BY <2>2, <2>4, <2>5, <2>6, ReadTyped
<1>6. CASE CommitBranch(r)
  <2> DEFINE q == req[r]
  <2>1. q \in RequestState /\ Exists
    BY <1>6, Busy DEF CommitBranch, Typed, TypeOK
  <2>2. branch' \in [Branches -> BranchRow]
    BY <1>6, <2>1 DEF CommitBranch, Written, RequestState, BranchRow, Typed, TypeOK
  <2>3. req' \in [Requests -> RequestState] /\ \A p \in Requests : RequestOK(req'[p])
    BY <1>6, IdleTyped, RequestTyped DEF CommitBranch, Finish
  <2>4. raced' \in BOOLEAN
    BY <1>6 DEF CommitBranch, Stale
  <2>5. TypeOK'
    BY <1>6, <2>2, <2>3, <2>4 DEF CommitBranch, seatVars, Typed, TypeOK
  <2>6. Exists'
    BY <1>6, <2>1 DEF CommitBranch, Exists
  <2>7. Consistent'
    BY <1>6, <2>1, <2>3, <2>6 DEF CommitBranch, seatVars, Typed, Consistent
  <2> QED BY <2>5, <2>7 DEF Typed
<1> QED BY <1>2, <1>3, <1>4, <1>5, <1>6 DEF Settle

LEMMA SeatTyped == ASSUME Typed, NEW r \in Requests, Seat(r) PROVE Typed'
<1>1. ASSUME NEW u \in Users, NEW stage \in {"register", "invite"}, Exists,
             Begin(r, [Idle EXCEPT !.stage = stage, !.target = {u}]), UNCHANGED Tables
      PROVE  Typed'
  <2>1. [Idle EXCEPT !.stage = stage, !.target = {u}] \in RequestState
    BY IdleTyped DEF Idle, RequestState, Stages
  <2>2. RequestOK([Idle EXCEPT !.stage = stage, !.target = {u}])
    BY DEF Idle, RequestOK
  <2> QED BY <1>1, <2>1, <2>2, ReadTyped DEF Begin
<1>2. ASSUME user' \in [Users -> UserRow], unchecked' \subseteq Users, Exists,
             UNCHANGED <<academy, branchVars, seatLimit, ceiling>>,
             req' = req \/ req' = [req EXCEPT ![r] = Idle]
      PROVE  Typed'
  <2>1. req' \in [Requests -> RequestState] /\ \A p \in Requests : RequestOK(req'[p])
    BY <1>2, IdleTyped, RequestTyped DEF Typed, TypeOK, Consistent
  <2>2. TypeOK'
    BY <1>2, <2>1 DEF branchVars, Typed, TypeOK
  <2>3. Exists'
    BY <1>2 DEF Exists
  <2>4. Consistent'
    BY <1>2, <2>1, <2>3 DEF Typed, Consistent
  <2> QED BY <2>2, <2>4 DEF Typed
<1>3. ASSUME NEW u \in Users, BeginRegister(r, u) \/ BeginInvite(r, u) PROVE Typed'
  BY <1>1, <1>3 DEF BeginRegister, BeginInvite, Live
<1>4. ASSUME NEW u \in Users, TakeSeat(r, u) PROVE Typed'
  <2>1. user' \in [Users -> UserRow] /\ unchecked' \subseteq Users
    BY <1>4 DEF TakeSeat, Typed, TypeOK, UserRow
  <2> QED BY <1>2, <1>4, <2>1 DEF TakeSeat
<1>5. ASSUME NEW u \in Users, NEW to \in {"suspended", "deleted"}, LeaveSeat(r, u, to)
      PROVE  Typed'
  <2>1. user' \in [Users -> UserRow] /\ unchecked' \subseteq Users
    BY <1>5 DEF LeaveSeat, Typed, TypeOK, UserRow
  <2>2. Exists
    BY <1>5 DEF LeaveSeat, Typed, Consistent
  <2> QED BY <1>2, <1>5, <2>1, <2>2 DEF LeaveSeat
<1>6. CASE CommitUser(r)
  <2>1. Exists
    BY <1>6, Busy DEF CommitUser
  <2>2. user' \in [Users -> UserRow]
    BY <1>6 DEF CommitUser, Typed, TypeOK, UserRow
  <2>3. req[r].target \subseteq Users
    BY <1>6 DEF CommitUser, Typed, Consistent, RequestOK
  <2>4. unchecked' \subseteq Users
    BY <1>6, <2>3 DEF CommitUser, Typed, TypeOK
  <2> QED BY <1>2, <1>6, <2>1, <2>2, <2>4 DEF CommitUser, Finish
<1> QED BY <1>3, <1>4, <1>5, <1>6 DEF Seat

LEMMA StepTyped == Typed /\ [Next]_vars => Typed'
<1>1. ASSUME Typed, NEW r \in Requests, Abandon(r) PROVE Typed'
  <2>1. Exists
    BY <1>1, Busy DEF Abandon, IsIdle
  <2> QED BY <1>1, <2>1, IdleTyped, ReadTyped DEF Abandon, Finish
<1>2. ASSUME Typed, UNCHANGED vars PROVE Typed'
  BY <1>2 DEF Typed, TypeOK, Consistent, Exists, vars
<1> QED BY <1>1, <1>2, GovernTyped, SettleTyped, SeatTyped DEF Next

\* Whatever requests overlap, each is well-formed for its stage, and there is no request,
\* branch or user before the academy (the tables of schema.prisma).
THEOREM TypesCorrect == Spec => []Typed
<1> QED BY InitTyped, StepTyped, PTL DEF Spec

-----------------------------------------------------------------------------
(* One primary branch.                                                     *)

OnePrimary == Exists /\ ~raced => \E p \in Branches : Primaries = {p}

LEMMA OneIsOne == Typed /\ OnePrimary => OnePrimaryUnlessRaced
BY FS_Singleton DEF OnePrimary, OnePrimaryUnlessRaced

\* A branch written as it was found, among the primaries that were found, leaves one primary.
LEMMA FreshWrite ==
    ASSUME Typed, OnePrimary, NEW r \in Requests, CommitBranch(r), ~raced'
    PROVE  OnePrimary'
<1> DEFINE q == req[r]
<1>1. ~raced /\ ~Stale(q) /\ branch' = Written(q) /\ branch \in [Branches -> BranchRow]
  BY DEF CommitBranch, Typed, TypeOK
<1>2. q.stage \in {"create", "write", "remove"} /\ RequestOK(q) /\ Exists
  BY Busy DEF CommitBranch, Typed, Consistent
<1>3. PICK b \in Branches : q.target = {b}
  BY <1>2 DEF RequestOK
<1>4. PICK p \in Branches : Primaries = {p}
  BY <1>1, <1>2 DEF OnePrimary
<1>5. branch[b] = q.was
  BY <1>1, <1>3 DEF Stale
<1>6. \A c \in Branches : branch'[c] = IF c = b THEN IF branch[b] = "deleted" THEN "deleted" ELSE q.to
                                      ELSE IF q.to = "primary" /\ c \in q.primaries /\ branch[c] = "primary"
                                           THEN "plain" ELSE branch[c]
  BY <1>1, <1>3 DEF Written
<1>7. \A c \in Branches : branch[c] = "primary" <=> c = p
  BY <1>4 DEF Primaries
<1>8. CASE q.to = "primary"
  <2>1. q.stage # "remove" /\ q.was # "deleted"
    BY <1>2, <1>8 DEF RequestOK
  <2>2. p \in q.primaries
    BY <1>1, <1>4, <2>1 DEF Stale
  <2>3. \A c \in Branches : branch'[c] = "primary" <=> c = b
    BY <1>5, <1>6, <1>7, <1>8, <2>1, <2>2
  <2> QED BY <2>3 DEF OnePrimary, Primaries
<1>9. CASE q.to # "primary"
  <2>1. q.was # "primary"
    <3>1. SUFFICES ASSUME q.was = "primary" PROVE FALSE
      OBVIOUS
    <3>2. q.stage = "write" /\ q.to = "plain" /\ q.primaries \ {b} # {}
      BY <1>2, <1>3, <1>9, <3>1 DEF RequestOK
    <3>3. q.primaries = {p} /\ p = b
      BY <1>1, <1>4, <1>5, <1>7, <3>1, <3>2 DEF Stale
    <3> QED BY <3>2, <3>3
  <2>2. \A c \in Branches : branch'[c] = "primary" <=> c = p
    BY <1>5, <1>6, <1>7, <1>9, <2>1
  <2> QED BY <2>2 DEF OnePrimary, Primaries
<1> QED BY <1>8, <1>9

LEMMA StepOnePrimary == Typed /\ OnePrimary /\ [Next]_vars => OnePrimary'
<1> SUFFICES ASSUME Typed, OnePrimary, [Next]_vars PROVE OnePrimary'
  OBVIOUS
<1>1. ASSUME UNCHANGED branchVars, Exists' => Exists PROVE OnePrimary'
  BY <1>1 DEF OnePrimary, Primaries, branchVars
<1>2. ASSUME NEW r \in Requests, NEW status, NEW limit, NEW admins,
             CreateAcademy(r, status, limit, admins)
      PROVE  OnePrimary'
  <2>1. \A b \in Branches : branch'[b] = "primary" <=> b = Headquarters
    BY <1>2, OrganisationAssumption DEF CreateAcademy, Typed, Consistent, Exists
  <2> QED BY <2>1, OrganisationAssumption DEF OnePrimary, Primaries
<1>3. ASSUME NEW r \in Requests, CommitBranch(r) PROVE OnePrimary'
  BY <1>3, FreshWrite DEF OnePrimary
<1>4. ASSUME NEW r \in Requests, SetStatus(r) \/ SoftDelete(r) \/ Expire(r) PROVE OnePrimary'
  <2>1. Exists /\ UNCHANGED branchVars
    BY <1>4, Busy DEF SetStatus, SoftDelete, Expire
  <2> QED BY <1>1, <2>1
<1>5. ASSUME UNCHANGED <<academy, branchVars>> PROVE OnePrimary'
  BY <1>1, <1>5 DEF Exists
<1>6. ASSUME NEW r \in Requests, Govern(r) PROVE OnePrimary'
  BY <1>2, <1>4, <1>5, <1>6 DEF Govern, ReadForStatus, ReadForDelete, UpdateSubscription, Tables, branchVars
<1>7. ASSUME NEW r \in Requests, Settle(r) PROVE OnePrimary'
  BY <1>3, <1>5, <1>7 DEF Settle, BeginCreateBranch, ReadForUpdate, ReadForRemove, BeginUpdate, Tables, branchVars
<1>8. ASSUME NEW r \in Requests, Seat(r) \/ Abandon(r) PROVE OnePrimary'
  BY <1>5, <1>8 DEF Seat, BeginRegister, BeginInvite, CommitUser, TakeSeat, LeaveSeat, Abandon, Tables, branchVars
<1>9. ASSUME UNCHANGED vars PROVE OnePrimary'
  BY <1>5, <1>9 DEF vars, branchVars
<1> QED BY <1>6, <1>7, <1>8, <1>9 DEF Next

\* An academy has exactly one primary branch until a branch is written on what had changed
\* since the request looked (BranchesService.create, update and remove).
THEOREM OneHeadOffice == Spec => []OnePrimaryUnlessRaced
<1>1. Init => OnePrimary
  BY DEF Init, OnePrimary, Exists
<1> QED BY InitTyped, StepTyped, <1>1, StepOnePrimary, OneIsOne, PTL DEF Spec

-----------------------------------------------------------------------------
(* A deleted academy.                                                      *)

LEMMA StepClosed ==
    ASSUME Typed, [Next]_vars, academy.deleted
    PROVE  /\ academy'.deleted
           /\ Reopening' \subseteq Reopening
           /\ Reopening = {} => academy'.status \in {academy.status, "EXPIRED"}
<1> DEFINE Goal == /\ academy'.deleted
                   /\ Reopening' \subseteq Reopening
                   /\ Reopening = {} => academy'.status \in {academy.status, "EXPIRED"}
<1>1. Exists /\ ~Live /\ academy \in [status : AcademyStatus, deleted : BOOLEAN]
  BY DEF Typed, TypeOK, Consistent, Live
<1>2. ASSUME NEW r \in Requests, NEW fields, fields.stage \notin {"academy", "delete"},
             req' = [req EXCEPT ![r] = fields]
      PROVE  Reopening' \subseteq Reopening
  BY <1>2 DEF Typed, TypeOK, Reopening
<1>3. Idle.stage \notin {"academy", "delete"}
  BY DEF Idle
<1>4. ASSUME NEW r \in Requests, SetStatus(r) \/ SoftDelete(r) PROVE Goal
  <2>1. Reopening # {} /\ academy'.deleted
    BY <1>1, <1>4 DEF SetStatus, SoftDelete, Reopening
  <2>2. Reopening' \subseteq Reopening
    BY <1>2, <1>3, <1>4 DEF SetStatus, SoftDelete, Finish
  <2> QED BY <2>1, <2>2
<1>5. ASSUME NEW r \in Requests, Expire(r) PROVE Goal
  <2>1. academy'.deleted /\ academy'.status = "EXPIRED"
    BY <1>1, <1>5 DEF Expire
  <2>2. Reopening' \subseteq Reopening
    BY <1>2, <1>3, <1>5 DEF Expire, Finish
  <2> QED BY <2>1, <2>2
<1>6. ASSUME UNCHANGED academy, Reopening' \subseteq Reopening PROVE Goal
  BY <1>6
<1>7. ASSUME NEW r \in Requests, NEW limit, NEW ended, UpdateSubscription(r, limit, ended)
      PROVE  Goal
  <2>1. [Idle EXCEPT !.stage = "expire"].stage \notin {"academy", "delete"}
    BY DEF Idle
  <2>2. Reopening' \subseteq Reopening
    BY <1>2, <1>7, <2>1 DEF UpdateSubscription, Begin, Reopening
  <2> QED BY <1>6, <1>7, <2>2 DEF UpdateSubscription
<1>8. ASSUME NEW r \in Requests, Govern(r) PROVE Goal
  BY <1>1, <1>4, <1>5, <1>7, <1>8 DEF Govern, CreateAcademy, Exists, ReadForStatus, ReadForDelete
<1>9. ASSUME NEW r \in Requests, Settle(r) PROVE Goal
  <2>1. UNCHANGED academy
    BY <1>9 DEF Settle, BeginCreateBranch, ReadForUpdate, ReadForRemove, BeginUpdate, CommitBranch, Tables
  <2>2. \E fields : fields.stage \notin {"academy", "delete"} /\ req' = [req EXCEPT ![r] = fields]
    <3>1. CASE BeginUpdate(r)
      <4>1. req[r] \in RequestState
        BY DEF Typed, TypeOK
      <4>2. [req[r] EXCEPT !.stage = "write", !.primaries = Primaries].stage = "write"
        BY <4>1 DEF RequestState
      <4> QED BY <3>1, <4>2 DEF BeginUpdate
    <3>2. CASE CommitBranch(r)
      BY <1>3, <3>2 DEF CommitBranch, Finish
    <3>3. ASSUME NEW b \in Branches, NEW to, BeginCreateBranch(r, b, to)
          PROVE  \E fields : fields.stage \notin {"academy", "delete"} /\ req' = [req EXCEPT ![r] = fields]
      <4>1. [Idle EXCEPT !.stage = "create", !.target = {b}, !.to = to, !.primaries = Primaries].stage
              = "create"
        BY DEF Idle
      <4> QED BY <3>3, <4>1 DEF BeginCreateBranch, Begin
    <3>4. ASSUME NEW b \in Branches, NEW to, ReadForUpdate(r, b, to)
          PROVE  \E fields : fields.stage \notin {"academy", "delete"} /\ req' = [req EXCEPT ![r] = fields]
      <4>1. [Idle EXCEPT !.stage = "update", !.target = {b}, !.was = branch[b], !.to = to].stage = "update"
        BY DEF Idle
      <4> QED BY <3>4, <4>1 DEF ReadForUpdate, Begin
    <3>5. ASSUME NEW b \in Branches, ReadForRemove(r, b)
          PROVE  \E fields : fields.stage \notin {"academy", "delete"} /\ req' = [req EXCEPT ![r] = fields]
      <4>1. [Idle EXCEPT !.stage = "remove", !.target = {b}, !.was = branch[b], !.to = "deleted"].stage
              = "remove"
        BY DEF Idle
      <4> QED BY <3>5, <4>1 DEF ReadForRemove, Begin
    <3> QED BY <1>9, <3>1, <3>2, <3>3, <3>4, <3>5 DEF Settle
  <2> QED BY <1>2, <1>6, <2>1, <2>2
<1>10. ASSUME NEW r \in Requests, Seat(r) \/ Abandon(r) PROVE Goal
  <2>1. UNCHANGED academy
    BY <1>10 DEF Seat, BeginRegister, BeginInvite, CommitUser, TakeSeat, LeaveSeat, Abandon, Tables
  <2>2. ASSUME NEW u, NEW stage \in {"register", "invite"},
               req' = [req EXCEPT ![r] = [Idle EXCEPT !.stage = stage, !.target = {u}]]
        PROVE  Reopening' \subseteq Reopening
    <3>1. [Idle EXCEPT !.stage = stage, !.target = {u}].stage \notin {"academy", "delete"}
      BY DEF Idle
    <3> QED BY <1>2, <2>2, <3>1
  <2>3. ASSUME Finish(r) \/ UNCHANGED req PROVE Reopening' \subseteq Reopening
    BY <1>2, <1>3, <2>3 DEF Finish, Reopening
  <2>4. Reopening' \subseteq Reopening
    BY <1>10, <2>2, <2>3 DEF Seat, BeginRegister, BeginInvite, Begin, CommitUser, TakeSeat, LeaveSeat, Abandon
  <2> QED BY <1>6, <2>1, <2>4
<1>11. ASSUME UNCHANGED vars PROVE Goal
  BY <1>11 DEF vars, Reopening
<1> QED BY <1>8, <1>9, <1>10, <1>11 DEF Next

\* Once an academy is deleted no request gets as far as changing it, and when those that had
\* seen it alive are gone only the end of its subscription does (AcademiesService).
THEOREM Closed == Spec => ClosedForGood
<1>1. Typed /\ [Next]_vars
        => [academy.deleted =>
              /\ academy'.deleted
              /\ Reopening' \subseteq Reopening
              /\ Reopening = {} => academy'.status \in {academy.status, "EXPIRED"}]_vars
  BY StepClosed
<1> QED BY InitTyped, StepTyped, <1>1, PTL DEF Spec, ClosedForGood

-----------------------------------------------------------------------------
(* Seats.                                                                  *)

Checked == Seated \ unchecked

Within == Cardinality(Checked) + Cardinality(Inviting) < ceiling + Cardinality(Requests)

\* Before the academy there may be no request at all, and nothing is promised.
SeatsOK == Requests # {} => Within

LEMMA Countable ==
    /\ IsFiniteSet(Checked) /\ IsFiniteSet(Inviting)
    /\ Cardinality(Checked) \in Nat /\ Cardinality(Inviting) \in Nat
    /\ Cardinality(Requests) \in Nat
<1>1. Checked \subseteq Users /\ Inviting \subseteq Requests
  BY DEF Checked, Seated, Inviting
<1>2. IsFiniteSet(Checked) /\ IsFiniteSet(Inviting)
  BY <1>1, FS_Subset, OrganisationAssumption
<1> QED BY <1>2, FS_CardinalityType, OrganisationAssumption

\* A step that checks nobody in and starts no invitation keeps the bound.
LEMMA SeatsKept ==
    ASSUME Typed, Typed', Within, Checked' \subseteq Checked, Inviting' \subseteq Inviting,
           ceiling' >= ceiling
    PROVE  Within'
<1>1. /\ Cardinality(Checked') \in Nat /\ Cardinality(Inviting') \in Nat
      /\ Cardinality(Checked') <= Cardinality(Checked)
      /\ Cardinality(Inviting') <= Cardinality(Inviting)
  BY Countable, FS_Subset, FS_CardinalityType
<1>2. ceiling \in Nat /\ ceiling' \in Nat
  BY DEF Typed, TypeOK
<1>3. Within' <=> Cardinality(Checked') + Cardinality(Inviting') < ceiling' + Cardinality(Requests)
  BY DEF Within
<1> QED BY <1>1, <1>2, <1>3, Countable DEF Within

\* An invitation that begins saw a free seat, and at most all requests did.
LEMMA SeatFound ==
    ASSUME Typed, Typed', HasSeat, UNCHANGED <<user, unchecked, ceiling>>
    PROVE  Within'
<1>1. Seated \subseteq Users /\ Checked \subseteq Seated /\ Checked' = Checked
  BY DEF Seated, Checked
<1>2. /\ IsFiniteSet(Seated) /\ Cardinality(Seated) \in Nat
      /\ Cardinality(Checked) <= Cardinality(Seated)
  BY <1>1, FS_Subset, FS_CardinalityType, OrganisationAssumption
<1>3. Inviting' \subseteq Requests
  BY DEF Inviting
<1>4. Cardinality(Inviting') \in Nat /\ Cardinality(Inviting') <= Cardinality(Requests)
  BY <1>3, FS_Subset, FS_CardinalityType, OrganisationAssumption
<1>5. Cardinality(Seated) < ceiling
  BY <1>2 DEF HasSeat, Typed, TypeOK, Consistent
<1>6. ceiling' = ceiling /\ ceiling \in Nat
  BY DEF Typed, TypeOK
<1>7. Within' <=> Cardinality(Checked) + Cardinality(Inviting') < ceiling + Cardinality(Requests)
  BY <1>1, <1>6 DEF Within
<1> QED BY <1>2, <1>4, <1>5, <1>6, <1>7, Countable

\* Whoever it seats, an invitation that ends hands its place on.
LEMMA SeatTaken ==
    ASSUME Typed, Within, NEW r \in Requests, req[r].stage = "invite",
           CommitUser(r)
    PROVE  Within'
<1>1. PICK u \in Users : req[r].target = {u}
  BY DEF Typed, Consistent, RequestOK
<1>2. Checked' \subseteq Checked \cup {u}
  BY <1>1 DEF CommitUser, Checked, Seated
<1>3. Inviting' \subseteq Inviting \ {r} /\ r \in Inviting
  BY DEF CommitUser, Finish, Idle, Inviting, Typed, TypeOK
<1>4. /\ IsFiniteSet(Checked \cup {u})
      /\ Cardinality(Checked \cup {u}) <= Cardinality(Checked) + 1
  BY FS_AddElement, Countable
<1>5. /\ IsFiniteSet(Inviting \ {r})
      /\ Cardinality(Inviting \ {r}) = Cardinality(Inviting) - 1
  BY <1>3, FS_RemoveElement, Countable
<1>6. /\ Cardinality(Checked') \in Nat /\ Cardinality(Checked') <= Cardinality(Checked) + 1
      /\ Cardinality(Inviting') \in Nat /\ Cardinality(Inviting') <= Cardinality(Inviting) - 1
  <2>1. /\ Cardinality(Checked') \in Nat
        /\ Cardinality(Checked') <= Cardinality(Checked \cup {u})
    BY <1>2, <1>4, FS_Subset, FS_CardinalityType
  <2>2. /\ Cardinality(Inviting') \in Nat
        /\ Cardinality(Inviting') <= Cardinality(Inviting \ {r})
    BY <1>3, <1>5, FS_Subset, FS_CardinalityType
  <2>3. Cardinality(Checked \cup {u}) \in Nat
    BY <1>4, FS_CardinalityType
  <2> QED BY <1>4, <1>5, <2>1, <2>2, <2>3, Countable
<1>7. ceiling' = ceiling /\ ceiling \in Nat
  BY DEF CommitUser, Typed, TypeOK
<1>8. Within' <=> Cardinality(Checked') + Cardinality(Inviting') < ceiling + Cardinality(Requests)
  BY <1>7 DEF Within
<1> QED BY <1>6, <1>7, <1>8, Countable DEF Within

\* A request that ends, or starts anything but an invitation, is no invitation.
LEMMA NoInvitation ==
    ASSUME Typed, NEW r \in Requests, NEW fields, fields.stage # "invite",
           UNCHANGED req \/ req' = [req EXCEPT ![r] = fields]
    PROVE  Inviting' \subseteq Inviting
BY DEF Typed, TypeOK, Inviting

LEMMA ServeSeats ==
    ASSUME Typed, Typed', Within, NEW r \in Requests, Govern(r) \/ Settle(r) \/ Seat(r) \/ Abandon(r)
    PROVE  Within'
<1>1. ASSUME UNCHANGED <<user, unchecked>>, ceiling' >= ceiling, NEW fields, fields.stage # "invite",
             UNCHANGED req \/ req' = [req EXCEPT ![r] = fields]
      PROVE  Within'
  <2>1. Checked' \subseteq Checked
    BY <1>1 DEF Checked, Seated
  <2>2. Inviting' \subseteq Inviting
    BY <1>1, NoInvitation
  <2> QED BY <1>1, <2>1, <2>2, SeatsKept
<1>2. ceiling \in Nat /\ Idle.stage # "invite"
  BY DEF Typed, TypeOK, Idle
<1>3. ASSUME UNCHANGED <<user, unchecked, ceiling>>, Finish(r) \/ UNCHANGED req PROVE Within'
  <2>1. ceiling' >= ceiling
    BY <1>2, <1>3
  <2> QED BY <1>1, <1>2, <1>3, <2>1 DEF Finish
<1>4. ASSUME UNCHANGED Tables, NEW fields, fields.stage # "invite", req' = [req EXCEPT ![r] = fields]
      PROVE  Within'
  <2>1. ceiling' >= ceiling
    BY <1>2, <1>4 DEF Tables
  <2> QED BY <1>1, <1>4, <2>1 DEF Tables
<1>5. ASSUME NEW status, NEW limit \in SeatLimits, NEW admins, CreateAcademy(r, status, limit, admins)
      PROVE  Within'
  <2>1. Checked' \subseteq Checked
    BY <1>5 DEF CreateAcademy, Checked, Seated
  <2>2. ceiling' >= ceiling
    BY <1>2, <1>5, OrganisationAssumption DEF CreateAcademy, LimitSeats
  <2>3. Inviting' \subseteq Inviting
    BY <1>2, <1>5, NoInvitation DEF CreateAcademy
  <2> QED BY <2>1, <2>2, <2>3, SeatsKept
<1>6. ASSUME NEW limit \in SeatLimits, NEW ended, UpdateSubscription(r, limit, ended)
      PROVE  Within'
  <2>1. ceiling' >= ceiling
    BY <1>2, <1>6, OrganisationAssumption DEF UpdateSubscription, LimitSeats
  <2>2. [Idle EXCEPT !.stage = "expire"].stage # "invite"
    BY DEF Idle
  <2> QED BY <1>1, <1>6, <2>1, <2>2 DEF UpdateSubscription, Begin
<1>7. ASSUME NEW status, ReadForStatus(r, status) PROVE Within'
  <2>1. [Idle EXCEPT !.stage = "academy", !.status = status].stage # "invite"
    BY DEF Idle
  <2> QED BY <1>4, <1>7, <2>1 DEF ReadForStatus, Begin
<1>8. CASE ReadForDelete(r)
  <2>1. [Idle EXCEPT !.stage = "delete"].stage # "invite"
    BY DEF Idle
  <2> QED BY <1>4, <1>8, <2>1 DEF ReadForDelete, Begin
<1>9. CASE SetStatus(r) \/ SoftDelete(r) \/ Expire(r) \/ CommitBranch(r) \/ Abandon(r)
  BY <1>3, <1>9 DEF SetStatus, SoftDelete, Expire, CommitBranch, Abandon, seatVars, Tables
<1>10. CASE Govern(r)
  BY <1>5, <1>6, <1>7, <1>8, <1>9, <1>10 DEF Govern
<1>11. CASE Settle(r)
  <2>1. ASSUME NEW b, NEW to, BeginCreateBranch(r, b, to) PROVE Within'
    <3>1. [Idle EXCEPT !.stage = "create", !.target = {b}, !.to = to, !.primaries = Primaries].stage
            # "invite"
      BY DEF Idle
    <3> QED BY <1>4, <2>1, <3>1 DEF BeginCreateBranch, Begin
  <2>2. ASSUME NEW b, NEW to, ReadForUpdate(r, b, to) PROVE Within'
    <3>1. [Idle EXCEPT !.stage = "update", !.target = {b}, !.was = branch[b], !.to = to].stage
            # "invite"
      BY DEF Idle
    <3> QED BY <1>4, <2>2, <3>1 DEF ReadForUpdate, Begin
  <2>3. ASSUME NEW b, ReadForRemove(r, b) PROVE Within'
    <3>1. [Idle EXCEPT !.stage = "remove", !.target = {b}, !.was = branch[b], !.to = "deleted"].stage
            # "invite"
      BY DEF Idle
    <3> QED BY <1>4, <2>3, <3>1 DEF ReadForRemove, Begin
  <2>4. CASE BeginUpdate(r)
    <3>1. [req[r] EXCEPT !.stage = "write", !.primaries = Primaries].stage # "invite"
      BY DEF Typed, TypeOK, RequestState
    <3> QED BY <1>4, <2>4, <3>1 DEF BeginUpdate
  <2> QED BY <1>9, <1>11, <2>1, <2>2, <2>3, <2>4 DEF Settle
<1>12. CASE Seat(r)
  <2>1. ASSUME NEW u, BeginRegister(r, u) PROVE Within'
    <3>1. [Idle EXCEPT !.stage = "register", !.target = {u}].stage # "invite"
      BY DEF Idle
    <3> QED BY <1>4, <2>1, <3>1 DEF BeginRegister, Begin
  <2>2. ASSUME NEW u, BeginInvite(r, u) PROVE Within'
    BY <2>2, SeatFound DEF BeginInvite, Tables
  <2>3. ASSUME Checked' \subseteq Checked, UNCHANGED ceiling, Finish(r) \/ UNCHANGED req PROVE Within'
    <3>1. ceiling' >= ceiling
      BY <1>2, <2>3
    <3>2. Inviting' \subseteq Inviting
      BY <1>2, <2>3, NoInvitation DEF Finish
    <3> QED BY <2>3, <3>1, <3>2, SeatsKept
  <2>4. ASSUME NEW u, NEW to \in {"suspended", "deleted"}, TakeSeat(r, u) \/ LeaveSeat(r, u, to)
        PROVE  Within'
    BY <2>3, <2>4 DEF TakeSeat, LeaveSeat, Checked, Seated, Typed, TypeOK
  <2>5. ASSUME CommitUser(r), req[r].stage = "register" PROVE Within'
    <3>1. Checked' \subseteq Checked
      BY <2>5 DEF CommitUser, Checked, Seated
    <3> QED BY <2>3, <2>5, <3>1 DEF CommitUser
  <2>6. CASE CommitUser(r)
    BY <2>5, <2>6, SeatTaken DEF CommitUser
  <2> QED BY <1>12, <2>1, <2>2, <2>4, <2>6 DEF Seat
<1> QED BY <1>9, <1>10, <1>11, <1>12

\* The users whom create admitted exceed the largest seat limit there was by less than the
\* requests under way, however many it overlaps with (UsersService.create).
THEOREM SeatsBounded == Spec => []SeatsWithinRequests
<1>1. Init => SeatsOK
  <2> SUFFICES ASSUME Init, Requests # {} PROVE Within
    BY DEF SeatsOK
  <2>1. Checked = {} /\ Inviting = {} /\ ceiling = 0
    BY DEF Init, Checked, Seated, Inviting, Idle
  <2>2. Cardinality(Requests) # 0
    BY FS_EmptySet, OrganisationAssumption
  <2> QED BY <2>1, <2>2, FS_EmptySet, Countable DEF Within
<1>2. Typed /\ Typed' /\ SeatsOK /\ [Next]_vars => SeatsOK'
  <2>1. ASSUME Within, UNCHANGED vars PROVE Within'
    BY <2>1 DEF Within, Checked, Seated, Inviting, vars
  <2> QED BY <2>1, ServeSeats DEF SeatsOK, Next
<1>3. Typed /\ SeatsOK => SeatsWithinRequests
  BY DEF Typed, Consistent, SeatsOK, Within, Checked, SeatsWithinRequests
<1> QED BY InitTyped, StepTyped, <1>1, <1>2, <1>3, PTL DEF Spec
=============================================================================

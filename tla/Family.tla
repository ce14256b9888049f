------------------------------- MODULE Family -------------------------------
(***************************************************************************)
(* Parents and the students they are linked to (ParentsService, and the    *)
(* admission of a student with a parent in StudentsService).  Names,       *)
(* addresses and the parent's user account are left out.                   *)
(*                                                                         *)
(* A transaction at READ COMMITTED writes what it decided on to rows that  *)
(* others may have changed since: the rows it clears are those it saw.     *)
(***************************************************************************)
EXTENDS Integers, FiniteSets

CONSTANTS
    Requests,   \* the HTTP requests the server works on at one time
    Parents,    \* rows of parents
    Students    \* rows of students

ASSUME FamilyAssumption == IsFiniteSet(Requests)

VARIABLES
    parent,     \* the parents rows: not created, live or soft-deleted
    student,    \* the students rows, likewise
    link,       \* the parent_students rows: absent, present, or the primary one
    maker,      \* history: the request that made a link the primary one
    req         \* the requests in progress

familyVars == <<parent, student, link, maker, req>>

RowStates == {"none", "live", "deleted"}
LinkStates == {"none", "plain", "primary"}
Pairs == Parents \X Students

Idle == [stage |-> "idle", parent |-> {}, student |-> {}, primary |-> FALSE, cleared |-> {}]

AtMostOne(S) == {{}} \cup {{x} : x \in S}

\* cleared: the primary links the transaction saw and demotes when it commits.
RequestState ==
    [stage : {"idle", "admit", "link", "cleared", "remove"}, parent : AtMostOne(Parents),
     student : AtMostOne(Students), primary : BOOLEAN, cleared : SUBSET Parents]

FamilyInit ==
    /\ parent = [p \in Parents |-> "none"]
    /\ student = [s \in Students |-> "none"]
    /\ link = [x \in Pairs |-> "none"]
    /\ maker = [x \in Pairs |-> {}]
    /\ req = [r \in Requests |-> Idle]

IsIdle(r) == req[r].stage = "idle"
Begin(r, fields) == IsIdle(r) /\ req' = [req EXCEPT ![r] = fields]
Finish(r) == req' = [req EXCEPT ![r] = Idle]
Rows == <<parent, student, link, maker>>

\* The request r wrote the links.
Credit(r) ==
    maker' = [x \in Pairs |-> IF link'[x] # "primary" THEN {}
                              ELSE IF link[x] = "primary" THEN maker[x] ELSE {r}]

Primaries(s) == {p \in Parents : link[<<p, s>>] = "primary"}

\* The requests that looked the parent up and have yet to link it.
Linking(p) ==
    {r \in Requests : p \in req[r].parent /\ req[r].stage \in {"admit", "link", "cleared"}}

-----------------------------------------------------------------------------
(* Students and parents come and go.                                       *)

\* The parent a client names for a new student, if it names one, is looked up before the
\* transaction that admits the student.
CheckAdmit(r, with) ==
    /\ \A p \in with : parent[p] = "live"
    /\ Begin(r, [Idle EXCEPT !.stage = "admit", !.parent = with])
    /\ UNCHANGED Rows

\* The transaction creates the student and its primary link, whatever became of the parent.
CommitAdmit(r, s) ==
    /\ req[r].stage = "admit"
    /\ student[s] = "none"
    /\ student' = [student EXCEPT ![s] = "live"]
    /\ link' = [x \in Pairs |-> IF x[2] = s /\ x[1] \in req[r].parent THEN "primary" ELSE link[x]]
    /\ Credit(r)
    /\ Finish(r)
    /\ UNCHANGED parent

\* A soft-deleted student keeps its links.
RemoveStudent(r, s) ==
    /\ IsIdle(r)
    /\ student[s] = "live"
    /\ student' = [student EXCEPT ![s] = "deleted"]
    /\ UNCHANGED <<parent, link, maker, req>>

CreateParent(r, p, children) ==
    /\ IsIdle(r)
    /\ parent[p] = "none"
    /\ \A s \in children : student[s] = "live"
    /\ parent' = [parent EXCEPT ![p] = "live"]
    /\ link' = [x \in Pairs |-> IF x[1] = p /\ x[2] \in children THEN "plain" ELSE link[x]]
    /\ Credit(r)
    /\ UNCHANGED <<student, req>>

ReadForRemove(r, p) ==
    /\ parent[p] = "live"
    /\ Begin(r, [Idle EXCEPT !.stage = "remove", !.parent = {p}])
    /\ UNCHANGED Rows

Without(p) == [x \in Pairs |-> IF x[1] = p THEN "none" ELSE link[x]]

RemoveParent(r, p) ==
    /\ req[r].stage = "remove" /\ p \in req[r].parent
    /\ parent' = [parent EXCEPT ![p] = "deleted"]
    /\ link' = Without(p)
    /\ Credit(r)
    /\ Finish(r)
    /\ UNCHANGED student

-----------------------------------------------------------------------------
(* linkChild and unlinkChild.                                              *)

EvenDeleted(p) == parent[p] # "none"
BelongsToAcademy(p) == parent[p] = "live"

CheckLink(r, p, s, primary) ==
    /\ BelongsToAcademy(p)
    /\ student[s] = "live"
    /\ Begin(r, [Idle EXCEPT !.stage = "link", !.parent = {p}, !.student = {s},
                             !.primary = primary])
    /\ UNCHANGED Rows

NoneDemoted(s) == {}
Demoted(s) == Primaries(s)

ClearPrimary(r, s) ==
    /\ req[r].stage = "link" /\ s \in req[r].student
    /\ req' = [req EXCEPT ![r].stage = "cleared",
                          ![r].cleared = IF req[r].primary THEN Demoted(s) ELSE {}]
    /\ UNCHANGED Rows

\* parentId and studentId are unique together: a second link rolls everything back.
CommitLink(r, p, s) ==
    LET q == req[r] IN
    /\ q.stage = "cleared" /\ p \in q.parent /\ s \in q.student
    /\ link[<<p, s>>] = "none"
    /\ link' = [x \in Pairs |->
                 IF x = <<p, s>> THEN (IF q.primary THEN "primary" ELSE "plain")
                 ELSE IF x[2] = s /\ x[1] \in q.cleared /\ link[x] = "primary" THEN "plain"
                 ELSE link[x]]
    /\ Credit(r)
    /\ Finish(r)
    /\ UNCHANGED <<parent, student>>

UnlinkChild(r, p, s) ==
    /\ IsIdle(r)
    /\ BelongsToAcademy(p)
    /\ link[<<p, s>>] # "none"
    /\ link' = [link EXCEPT ![<<p, s>>] = "none"]
    /\ Credit(r)
    /\ UNCHANGED <<parent, student, req>>

Abandon(r) ==
    /\ ~IsIdle(r)
    /\ Finish(r)
    /\ UNCHANGED Rows

ServeFamily(r) ==
    \/ \E s \in Students :
          CommitAdmit(r, s) \/ RemoveStudent(r, s) \/ ClearPrimary(r, s)
    \/ \E with \in AtMostOne(Parents) : CheckAdmit(r, with)
    \/ \E p \in Parents :
          ReadForRemove(r, p) \/ RemoveParent(r, p)
            \/ \E children \in SUBSET Students : CreateParent(r, p, children)
    \/ \E p \in Parents, s \in Students :
          CommitLink(r, p, s) \/ UnlinkChild(r, p, s)
            \/ \E primary \in BOOLEAN : CheckLink(r, p, s, primary)
    \/ Abandon(r)

FamilySpec == FamilyInit /\ [][\E r \in Requests : ServeFamily(r)]_familyVars

-----------------------------------------------------------------------------
FamilyTypeOK ==
    /\ parent \in [Parents -> RowStates]
    /\ student \in [Students -> RowStates]
    /\ link \in [Pairs -> LinkStates]
    /\ maker \in [Pairs -> SUBSET Requests]
    /\ req \in [Requests -> RequestState]

\* linkChild demotes the primary parents it sees, in a transaction that does not see those
\* of others under way.  A student that has two primary parents has them of two requests that
\* overlapped; no request leaves two by itself, and the next to link one demotes them all.
OnePrimaryPerRequest ==
    \A s \in Students : \A p, q \in Primaries(s) :
        p # q => maker[<<p, s>>] \cap maker[<<q, s>>] = {}

\* linkChild and the admission of a student look the parent up before the transaction that
\* links it, so a parent removed in between gains a child.  When no request that looked it
\* up is under way any more, a removed parent gains no child again.
RemovedParentGainsNoChild ==
    [][\A p \in Parents :
          parent[p] = "deleted" /\ Linking(p) = {} =>
             /\ Linking(p)' = {}
             /\ \A s \in Students : link'[<<p, s>>] # "none" => link[<<p, s>>] # "none"]_familyVars
=============================================================================

--------------------------- MODULE StudentRoster ---------------------------
(***************************************************************************)
(* The students of one academy: their codes and QR cards (StudentsService, *)
(* qr.util.ts), their places in batches (StudentsService, BatchesService)  *)
(* and the attendance of one working day (AttendanceService).              *)
(*                                                                         *)
(* Students are numbered by their row.  A code is the number after the     *)
(* prefix; the QR card carries the code it was printed with.               *)
(***************************************************************************)
EXTENDS Integers, Sequences, FiniteSets

CONSTANTS
    Requests,       \* the HTTP requests the server works on at one time
    Batches,        \* the batches the academy starts with
    Capacity,       \* batch.capacity
    MaxStudents,    \* bound: rows of the students table
    MaxMarks,       \* bound: attendance rows of one student without a batch
    None            \* attendance without a batch: batchId null

ASSUME RosterAssumption ==
    /\ Capacity \in Nat
    /\ MaxStudents \in Nat
    /\ MaxMarks \in Nat
    /\ None \notin Batches
    /\ IsFiniteSet(Requests) /\ Requests # {}

VARIABLES
    students,   \* the students rows in the order of admission, deleted ones included
    open,       \* the batches that still exist
    seats,      \* the batch_students rows: of each batch and student, whether it has left
    marks,      \* how many attendances rows each student has today, by batch
    req,        \* the requests in progress
    bypassed    \* history: seats of each batch taken without looking at its capacity

vars == <<students, open, seats, marks, req, bypassed>>

Rows == 1 .. MaxStudents
Sessions == Batches \cup {None}

\* Code 0 is one of the names remove gives, which no card carries.
StudentRow == [code : Nat, qr : Nat, deleted : BOOLEAN, active : BOOLEAN]

Seat == {"never", "seated", "left"}

Stages == {"idle", "admit", "enrol", "scan", "branch"}

RequestState == [stage : Stages, code : Nat, active : BOOLEAN, student : Rows \cup {0},
                 session : Sessions, batches : SUBSET Batches, entries : SUBSET Rows]

Idle == [stage |-> "idle", code |-> 0, active |-> FALSE, student |-> 0, session |-> None,
         batches |-> {}, entries |-> {}]

Init ==
    /\ students = <<>>
    /\ open = Batches
    /\ seats = [b \in Batches |-> [s \in Rows |-> "never"]]
    /\ marks = [s \in Rows |-> [b \in Sessions |-> 0]]
    /\ req = [r \in Requests |-> Idle]
    /\ bypassed = [b \in Batches |-> 0]

Tables == <<students, open, seats, marks, bypassed>>

Begin(r, fields) == req[r].stage = "idle" /\ req' = [req EXCEPT ![r] = fields]
Finish(r) == req' = [req EXCEPT ![r] = Idle]

Present(s) == s \in DOMAIN students /\ ~students[s].deleted
Seated(b) == {s \in Rows : seats[b][s] = "seated"}

-----------------------------------------------------------------------------
(* Admission, changes of status, removal.                                  *)

\* One more than the highest code of the students who are not deleted.
IsNextCode(n) ==
    /\ \A s \in DOMAIN students : Present(s) => students[s].code < n
    /\ n = 1 \/ \E s \in DOMAIN students : Present(s) /\ students[s].code = n - 1

NumberStudent(r, batches, active) ==
    /\ Len(students) < MaxStudents
    /\ \E n \in 1 .. Len(students) + 1 :
          /\ IsNextCode(n)
          /\ Begin(r, [Idle EXCEPT !.stage = "admit", !.code = n, !.active = active,
                                   !.batches = batches])
    /\ UNCHANGED Tables

\* The unique indexes on (academyId, studentCode) and on qrCode.
UniqueCodeOnly(code) == \A s \in DOMAIN students : students[s].code # code
Unissued(code) ==
    \A s \in DOMAIN students : students[s].code # code /\ students[s].qr # code

AdmitStudent(r) ==
    LET q == req[r]
        new == Len(students) + 1
    IN
    /\ q.stage = "admit"
    /\ Len(students) < MaxStudents
    /\ Unissued(q.code)
    /\ q.batches \subseteq open
    /\ students' = Append(students, [code |-> q.code, qr |-> q.code, deleted |-> FALSE,
                                     active |-> q.active])
    /\ seats' = [b \in Batches |->
                   IF b \in q.batches THEN [seats[b] EXCEPT ![new] = "seated"] ELSE seats[b]]
    /\ bypassed' = [b \in Batches |-> bypassed[b] + (IF b \in q.batches THEN 1 ELSE 0)]
    /\ Finish(r)
    /\ UNCHANGED <<open, marks>>

SetStatus(s, active) ==
    /\ Present(s)
    /\ students' = [students EXCEPT ![s].active = active]
    /\ UNCHANGED <<open, seats, marks, req, bypassed>>

\* The code slot is freed by renaming; the card, the seats and the marks stay.
Removed(row) == [row EXCEPT !.deleted = TRUE, !.active = FALSE, !.code = 0]

RemoveStudent(s) ==
    /\ Present(s)
    /\ students' = [students EXCEPT ![s] = Removed(@)]
    /\ UNCHANGED <<open, seats, marks, req, bypassed>>

-----------------------------------------------------------------------------
(* Seats in a batch.                                                       *)

\* enrollStudent reads the batch with its seats, then looks for the student's own seat.
AnyRoom(b) == TRUE
HasRoom(b) == Cardinality(Seated(b)) < Capacity

EnrollStudent(r, b, s) ==
    /\ b \in open
    /\ HasRoom(b)
    /\ Present(s)
    /\ seats[b][s] # "seated"
    /\ Begin(r, [Idle EXCEPT !.stage = "enrol", !.student = s, !.session = b])
    /\ UNCHANGED Tables

\* (batchId, studentId) is unique: a student who has left keeps the row and cannot return.
CommitEnrolment(r) ==
    LET q == req[r] IN
    /\ q.stage = "enrol"
    /\ q.session \in open
    /\ seats[q.session][q.student] = "never"
    /\ seats' = [seats EXCEPT ![q.session][q.student] = "seated"]
    /\ Finish(r)
    /\ UNCHANGED <<students, open, marks, bypassed>>

\* addToBatch, from the student's page, does not look at the capacity.
AddToBatch(b, s) ==
    /\ b \in open
    /\ Present(s)
    /\ seats[b][s] = "never"
    /\ seats' = [seats EXCEPT ![b][s] = "seated"]
    /\ bypassed' = [bypassed EXCEPT ![b] = @ + 1]
    /\ UNCHANGED <<students, open, marks, req>>

\* BatchesService.removeStudent, and removeFromBatch for a student not deleted.
LeaveBatch(b, s) ==
    /\ b \in open
    /\ seats[b][s] = "seated"
    /\ seats' = [seats EXCEPT ![b][s] = "left"]
    /\ UNCHANGED <<students, open, marks, req, bypassed>>

\* The delete cascades to batch_students and sets batchId of its attendances to null.
RemoveBatch(b) ==
    /\ b \in open
    /\ open' = open \ {b}
    /\ seats' = [seats EXCEPT ![b] = [s \in Rows |-> "never"]]
    /\ marks' = [s \in Rows |-> [marks[s] EXCEPT ![b] = 0, ![None] = @ + marks[s][b]]]
    /\ UNCHANGED <<students, req, bypassed>>

-----------------------------------------------------------------------------
(* Attendance on one day.                                                  *)

Exists(b) == b \in open \cup {None}

\* The unique index (studentId, date, batchId) does not see rows whose batchId is null.
NeverUnique(s, b) == b = None => marks[s][None] < MaxMarks
Markable(s, b) == IF b = None THEN marks[s][None] < MaxMarks ELSE marks[s][b] = 0

\* scan: the card gives a code, and the code the student who has it now.
Scan(r, card, s, b) ==
    /\ Present(s) /\ students[s].active
    /\ students[s].code = students[card].qr
    /\ Exists(b)
    /\ marks[s][b] = 0
    /\ Begin(r, [Idle EXCEPT !.stage = "scan", !.student = s, !.session = b])
    /\ UNCHANGED Tables

CommitScan(r) ==
    LET q == req[r] IN
    /\ q.stage = "scan"
    /\ Exists(q.session)
    /\ Markable(q.student, q.session)
    /\ marks' = [marks EXCEPT ![q.student][q.session] = @ + 1]
    /\ Finish(r)
    /\ UNCHANGED <<students, open, seats, bypassed>>

Mark(s, b) ==
    /\ Present(s)
    /\ Exists(b)
    /\ Markable(s, b)
    /\ marks' = [marks EXCEPT ![s][b] = @ + 1]
    /\ UNCHANGED <<students, open, seats, req, bypassed>>

\* bulkMark upserts by the unique index, for whichever students it is given.
BulkMark(b, entries) ==
    /\ b \in open
    /\ marks' = [s \in Rows |-> IF s \in entries THEN [marks[s] EXCEPT ![b] = 1] ELSE marks[s]]
    /\ UNCHANGED <<students, open, seats, req, bypassed>>

\* branchBulkMark reads which students have a row without a batch, then writes the rows of
\* all entries in one transaction: what matters is for whom it creates one.
ReadBranchMarks(r, entries) ==
    /\ \A s \in entries : Present(s)
    /\ Begin(r, [Idle EXCEPT !.stage = "branch",
                             !.entries = {s \in entries : marks[s][None] = 0}])
    /\ UNCHANGED Tables

CommitBranchMarks(r) ==
    LET new == req[r].entries IN
    /\ req[r].stage = "branch"
    /\ \A s \in new : marks[s][None] < MaxMarks
    /\ marks' = [s \in Rows |->
                   IF s \in new THEN [marks[s] EXCEPT ![None] = @ + 1] ELSE marks[s]]
    /\ Finish(r)
    /\ UNCHANGED <<students, open, seats, bypassed>>

Recorded(s, b) == marks[s][b] > 0

RemoveMark(s, b) ==
    /\ Recorded(s, b)
    /\ marks' = [marks EXCEPT ![s][b] = @ - 1]
    /\ UNCHANGED <<students, open, seats, req, bypassed>>

\* A unique index refuses the row (409), a check throws, or the process dies.
Abandon(r) ==
    /\ req[r].stage # "idle"
    /\ Finish(r)
    /\ UNCHANGED Tables

Serve(r) ==
    \/ \E batches \in SUBSET open, active \in BOOLEAN : NumberStudent(r, batches, active)
    \/ AdmitStudent(r)
    \/ \E b \in Batches, s \in DOMAIN students : EnrollStudent(r, b, s)
    \/ CommitEnrolment(r)
    \/ \E card, s \in DOMAIN students, b \in Sessions : Scan(r, card, s, b)
    \/ CommitScan(r)
    \/ \E entries \in SUBSET DOMAIN students : ReadBranchMarks(r, entries)
    \/ CommitBranchMarks(r)
    \/ Abandon(r)

Next ==
    \/ \E r \in Requests : Serve(r)
    \/ \E s \in DOMAIN students :
          \/ \E active \in BOOLEAN : SetStatus(s, active)
          \/ RemoveStudent(s)
          \/ \E b \in Batches : AddToBatch(b, s) \/ LeaveBatch(b, s)
          \/ \E b \in Sessions : Mark(s, b) \/ RemoveMark(s, b)
    \/ \E b \in Batches, entries \in SUBSET DOMAIN students : BulkMark(b, entries)
    \/ \E b \in Batches : RemoveBatch(b)

Spec == Init /\ [][Next]_vars

-----------------------------------------------------------------------------
TypeOK ==
    /\ students \in Seq(StudentRow) /\ Len(students) <= MaxStudents
    /\ open \subseteq Batches
    /\ seats \in [Batches -> [Rows -> Seat]]
    /\ marks \in [Rows -> [Sessions -> Nat]]
    /\ req \in [Requests -> RequestState]
    /\ bypassed \in [Batches -> Nat]

\* A QR card leads to the student it was printed for, and to nobody once that student is
\* removed: the code it carries is never another student's (scan looks students up by code,
\* not by card, and create hands codes of removed students out again).
QrFindsOnlyItsStudent ==
    \A card, s \in DOMAIN students :
        Present(s) /\ students[s].code = students[card].qr => s = card

\* Whichever way attendance is taken for a batch, a student has one row a day in it.
OneMarkPerBatch == \A s \in Rows, b \in Batches : marks[s][b] <= 1

\* enrollStudent checks the capacity on a count it read earlier: a batch exceeds it by the
\* seats taken without looking, and by one less than the requests under way, never more.
Enrolling(b) == {r \in Requests : req[r].stage = "enrol" /\ req[r].session = b}

CapacityOverrunBounded ==
    \A b \in Batches :
        Cardinality(Seated(b)) + Cardinality(Enrolling(b))
            <= Capacity + bypassed[b] + Cardinality(Requests) - 1
=============================================================================

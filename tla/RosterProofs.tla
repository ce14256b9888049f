---------------------------- MODULE RosterProofs ----------------------------
(***************************************************************************)
(* What StudentRoster guarantees for every number of requests, students    *)
(* and batches, however the requests interleave: its types, that a QR card *)
(* finds only its student, how far a batch can exceed its capacity, and    *)
(* that attendance for a batch is taken once a day.                        *)
(***************************************************************************)
EXTENDS StudentRoster, FiniteSetTheorems, SequenceTheorems, TLAPS

-----------------------------------------------------------------------------
(* Types.                                                                  *)

LEMMA IdleTyped == Idle \in RequestState
BY DEF Idle, RequestState, Stages, Sessions

LEMMA InitTyped == Init => TypeOK
<1> SUFFICES ASSUME Init PROVE TypeOK
  OBVIOUS
<1>1. students \in Seq(StudentRow) /\ Len(students) <= MaxStudents
  BY RosterAssumption DEF Init
<1>2. req \in [Requests -> RequestState]
  BY IdleTyped DEF Init
<1>3. seats \in [Batches -> [Rows -> Seat]]
  BY DEF Init, Seat
<1>4. marks \in [Rows -> [Sessions -> Nat]]
  BY DEF Init
<1>5. open \subseteq Batches /\ bypassed \in [Batches -> Nat]
  BY DEF Init
<1> QED BY <1>1, <1>2, <1>3, <1>4, <1>5 DEF TypeOK

\* A step that starts a request, moves nothing else and fills the request with typed
\* fields keeps the types; so does one that ends a request.
LEMMA BeginTyped ==
    ASSUME TypeOK, NEW r \in Requests, NEW fields \in RequestState, Begin(r, fields),
           UNCHANGED Tables
    PROVE  TypeOK'
BY DEF TypeOK, Begin, Tables

LEMMA FinishTyped ==
    ASSUME TypeOK, NEW r \in Requests, Finish(r)
    PROVE  req' \in [Requests -> RequestState]
BY IdleTyped DEF TypeOK, Finish

\* One more seat, one seat given up or one more mark stays within the tables' types.
LEMMA SeatTyped ==
    ASSUME TypeOK, NEW b \in Batches, NEW s, NEW v \in Seat,
           seats' = [seats EXCEPT ![b][s] = v]
    PROVE  seats' \in [Batches -> [Rows -> Seat]]
<1>1. seats[b] \in [Rows -> Seat]
  BY DEF TypeOK
<1>2. [seats[b] EXCEPT ![s] = v] \in [Rows -> Seat]
  BY <1>1
<1> QED BY <1>2 DEF TypeOK

LEMMA MarkTyped ==
    ASSUME TypeOK, NEW b, NEW s, NEW v, s \in Rows /\ b \in Sessions => v \in Nat,
           marks' = [marks EXCEPT ![s][b] = v]
    PROVE  marks' \in [Rows -> [Sessions -> Nat]]
<1>1. s \in Rows => [marks[s] EXCEPT ![b] = v] \in [Sessions -> Nat]
  BY DEF TypeOK
<1> QED BY <1>1 DEF TypeOK

LEMMA RowTyped ==
    ASSUME TypeOK, NEW s \in DOMAIN students, NEW row \in StudentRow,
           students' = [students EXCEPT ![s] = row]
    PROVE  /\ students' \in Seq(StudentRow) /\ Len(students') <= MaxStudents
           /\ DOMAIN students' = DOMAIN students
           /\ \A t \in DOMAIN students : students'[t] = IF t = s THEN row ELSE students[t]
BY DEF TypeOK

LEMMA RowOnFile == ASSUME TypeOK, NEW s \in DOMAIN students PROVE students[s] \in StudentRow
BY DEF TypeOK

LEMMA AppendTyped ==
    ASSUME TypeOK, Len(students) < MaxStudents, NEW row \in StudentRow,
           students' = Append(students, row)
    PROVE  /\ students' \in Seq(StudentRow) /\ Len(students') = Len(students) + 1
           /\ DOMAIN students = 1 .. Len(students)
           /\ DOMAIN students' = 1 .. Len(students) + 1
           /\ students'[Len(students) + 1] = row
           /\ \A t \in DOMAIN students : students'[t] = students[t]
BY DEF TypeOK

LEMMA ServeTyped == ASSUME TypeOK, NEW r \in Requests, Serve(r) PROVE TypeOK'
<1> USE DEF Tables
<1>1. ASSUME NEW batches \in SUBSET open, NEW active \in BOOLEAN,
             NumberStudent(r, batches, active)
      PROVE  TypeOK'
  <2>1. PICK n \in 1 .. Len(students) + 1 :
               Begin(r, [Idle EXCEPT !.stage = "admit", !.code = n, !.active = active,
                                     !.batches = batches])
    BY <1>1 DEF NumberStudent
  <2>2. n \in Nat /\ batches \subseteq Batches
    BY DEF TypeOK
  <2>3. [Idle EXCEPT !.stage = "admit", !.code = n, !.active = active, !.batches = batches]
          \in RequestState
    BY <2>2, IdleTyped DEF Idle, RequestState, Stages
  <2> QED BY <1>1, <2>1, <2>3, BeginTyped DEF NumberStudent
<1>2. CASE AdmitStudent(r)
  <2> DEFINE q == req[r]
             new == Len(students) + 1
             row == [code |-> q.code, qr |-> q.code, deleted |-> FALSE, active |-> q.active]
  <2>1. q \in RequestState
    BY DEF TypeOK
  <2>2. row \in StudentRow
    BY <2>1 DEF RequestState, StudentRow
  <2>3. students' \in Seq(StudentRow) /\ Len(students') <= MaxStudents
    BY <1>2, <2>2, AppendTyped, RosterAssumption DEF AdmitStudent, TypeOK
  <2>4. ASSUME NEW b \in Batches PROVE [seats[b] EXCEPT ![new] = "seated"] \in [Rows -> Seat]
    BY DEF TypeOK, Seat
  <2>5. seats' \in [Batches -> [Rows -> Seat]]
    BY <1>2, <2>4 DEF AdmitStudent, TypeOK
  <2>6. bypassed' \in [Batches -> Nat]
    BY <1>2 DEF AdmitStudent, TypeOK
  <2> QED BY <1>2, <2>3, <2>5, <2>6, FinishTyped DEF AdmitStudent, TypeOK
<1>3. ASSUME NEW b \in Batches, NEW s \in DOMAIN students, EnrollStudent(r, b, s)
      PROVE  TypeOK'
  <2>1. s \in Rows
    BY RosterAssumption DEF TypeOK, Rows
  <2>2. [Idle EXCEPT !.stage = "enrol", !.student = s, !.session = b] \in RequestState
    BY <2>1, IdleTyped DEF Idle, RequestState, Stages, Sessions
  <2> QED BY <1>3, <2>2, BeginTyped DEF EnrollStudent
<1>4. CASE CommitEnrolment(r)
  <2>1. req[r].session \in Batches
    BY <1>4 DEF CommitEnrolment, TypeOK
  <2>2. seats' \in [Batches -> [Rows -> Seat]]
    BY <1>4, <2>1, SeatTyped DEF CommitEnrolment, Seat
  <2> QED BY <1>4, <2>2, FinishTyped DEF CommitEnrolment, TypeOK
<1>5. ASSUME NEW card \in DOMAIN students, NEW s \in DOMAIN students, NEW b \in Sessions,
             Scan(r, card, s, b)
      PROVE  TypeOK'
  <2>1. s \in Rows
    BY RosterAssumption DEF TypeOK, Rows
  <2>2. [Idle EXCEPT !.stage = "scan", !.student = s, !.session = b] \in RequestState
    BY <2>1, IdleTyped DEF Idle, RequestState, Stages
  <2> QED BY <1>5, <2>2, BeginTyped DEF Scan
<1>6. CASE CommitScan(r)
  <2> DEFINE s == req[r].student
             b == req[r].session
  <2>1. s \in Rows /\ b \in Sessions => marks[s][b] + 1 \in Nat
    BY DEF TypeOK
  <2>2. marks' = [marks EXCEPT ![s][b] = marks[s][b] + 1]
    BY <1>6 DEF CommitScan
  <2> HIDE DEF s, b
  <2>3. marks' \in [Rows -> [Sessions -> Nat]]
    BY <2>1, <2>2, MarkTyped
  <2> QED BY <1>6, <2>3, FinishTyped DEF CommitScan, TypeOK
<1>7. ASSUME NEW entries \in SUBSET DOMAIN students, ReadBranchMarks(r, entries)
      PROVE  TypeOK'
  <2> DEFINE new == {s \in entries : marks[s][None] = 0}
  <2>1. new \subseteq Rows
    BY RosterAssumption DEF TypeOK, Rows
  <2>2. [Idle EXCEPT !.stage = "branch", !.entries = new] \in RequestState
    BY <2>1, IdleTyped DEF Idle, RequestState, Stages
  <2> QED BY <1>7, <2>2, BeginTyped DEF ReadBranchMarks
<1>8. CASE CommitBranchMarks(r)
  <2> DEFINE new == req[r].entries
  <2>1. ASSUME NEW s \in Rows
        PROVE  [marks[s] EXCEPT ![None] = @ + 1] \in [Sessions -> Nat]
    BY DEF TypeOK, Sessions
  <2>2. marks' \in [Rows -> [Sessions -> Nat]]
    BY <1>8, <2>1 DEF CommitBranchMarks, TypeOK
  <2> QED BY <1>8, <2>2, FinishTyped DEF CommitBranchMarks, TypeOK
<1>9. CASE Abandon(r)
  BY <1>9, FinishTyped DEF Abandon, TypeOK
<1> QED BY <1>1, <1>2, <1>3, <1>4, <1>5, <1>6, <1>7, <1>8, <1>9 DEF Serve

\* Steps of the office that need no request.
Office ==
    \/ \E s \in DOMAIN students :
          \/ \E active \in BOOLEAN : SetStatus(s, active)
          \/ RemoveStudent(s)
          \/ \E b \in Batches : AddToBatch(b, s) \/ LeaveBatch(b, s)
          \/ \E b \in Sessions : Mark(s, b) \/ RemoveMark(s, b)
    \/ \E b \in Batches, entries \in SUBSET DOMAIN students : BulkMark(b, entries)
    \/ \E b \in Batches : RemoveBatch(b)

LEMMA NextSteps == Next <=> Office \/ \E r \in Requests : Serve(r)
BY DEF Next, Office

LEMMA OfficeTyped == ASSUME TypeOK, Office PROVE TypeOK'
<1>1. ASSUME NEW s \in DOMAIN students, NEW active \in BOOLEAN, SetStatus(s, active)
      PROVE  TypeOK'
  <2>1. [students[s] EXCEPT !.active = active] \in StudentRow
    BY RowOnFile DEF StudentRow
  <2>2. students' = [students EXCEPT ![s] = [students[s] EXCEPT !.active = active]]
    BY <1>1 DEF SetStatus
  <2> QED BY <1>1, <2>1, <2>2, RowTyped DEF SetStatus, TypeOK
<1>2. ASSUME NEW s \in DOMAIN students, RemoveStudent(s) PROVE TypeOK'
  <2>1. Removed(students[s]) \in StudentRow
    BY RowOnFile DEF StudentRow, Removed
  <2>2. students' = [students EXCEPT ![s] = Removed(students[s])]
    BY <1>2 DEF RemoveStudent
  <2> QED BY <1>2, <2>1, <2>2, RowTyped DEF RemoveStudent, TypeOK
<1>3. ASSUME NEW s \in DOMAIN students, NEW b \in Batches, AddToBatch(b, s) PROVE TypeOK'
  <2>1. seats' \in [Batches -> [Rows -> Seat]]
    BY <1>3, SeatTyped DEF AddToBatch, Seat
  <2>2. bypassed' \in [Batches -> Nat]
    BY <1>3 DEF AddToBatch, TypeOK
  <2> QED BY <1>3, <2>1, <2>2 DEF AddToBatch, TypeOK
<1>4. ASSUME NEW s \in DOMAIN students, NEW b \in Batches, LeaveBatch(b, s) PROVE TypeOK'
  <2>1. seats' \in [Batches -> [Rows -> Seat]]
    BY <1>4, SeatTyped DEF LeaveBatch, Seat
  <2> QED BY <1>4, <2>1 DEF LeaveBatch, TypeOK
<1>5. ASSUME NEW s \in DOMAIN students, NEW b \in Sessions, Mark(s, b) PROVE TypeOK'
  <2>1. s \in Rows /\ b \in Sessions => marks[s][b] + 1 \in Nat
    BY DEF TypeOK
  <2>2. marks' = [marks EXCEPT ![s][b] = marks[s][b] + 1]
    BY <1>5 DEF Mark
  <2>3. marks' \in [Rows -> [Sessions -> Nat]]
    BY <2>1, <2>2, MarkTyped
  <2> QED BY <1>5, <2>3 DEF Mark, TypeOK
<1>6. ASSUME NEW s \in DOMAIN students, NEW b \in Sessions, RemoveMark(s, b) PROVE TypeOK'
  <2>1. s \in Rows /\ b \in Sessions => marks[s][b] - 1 \in Nat
    BY <1>6 DEF RemoveMark, Recorded, TypeOK
  <2>2. marks' = [marks EXCEPT ![s][b] = marks[s][b] - 1]
    BY <1>6 DEF RemoveMark
  <2>3. marks' \in [Rows -> [Sessions -> Nat]]
    BY <2>1, <2>2, MarkTyped
  <2> QED BY <1>6, <2>3 DEF RemoveMark, TypeOK
<1>7. ASSUME NEW b \in Batches, NEW entries \in SUBSET DOMAIN students, BulkMark(b, entries)
      PROVE  TypeOK'
  <2>1. ASSUME NEW s \in Rows PROVE [marks[s] EXCEPT ![b] = 1] \in [Sessions -> Nat]
    BY DEF TypeOK, Sessions
  <2>2. marks' \in [Rows -> [Sessions -> Nat]]
    BY <1>7, <2>1 DEF BulkMark, TypeOK
  <2> QED BY <1>7, <2>2 DEF BulkMark, TypeOK
<1>8. ASSUME NEW b \in Batches, RemoveBatch(b) PROVE TypeOK'
  <2>1. seats' \in [Batches -> [Rows -> Seat]]
    BY <1>8 DEF RemoveBatch, TypeOK, Seat
  <2>2. ASSUME NEW s \in Rows
        PROVE  [marks[s] EXCEPT ![b] = 0, ![None] = @ + marks[s][b]] \in [Sessions -> Nat]
    <3>1. marks[s] \in [Sessions -> Nat] /\ b \in Sessions /\ None \in Sessions
      BY DEF TypeOK, Sessions
    <3> HIDE DEF Sessions
    <3> QED BY <3>1
  <2>3. marks' \in [Rows -> [Sessions -> Nat]]
    BY <1>8, <2>2 DEF RemoveBatch, TypeOK
  <2>4. open' \subseteq Batches
    BY <1>8 DEF RemoveBatch, TypeOK
  <2> QED BY <1>8, <2>1, <2>3, <2>4 DEF RemoveBatch, TypeOK
<1> QED BY <1>1, <1>2, <1>3, <1>4, <1>5, <1>6, <1>7, <1>8 DEF Office

LEMMA StepTyped == TypeOK /\ [Next]_vars => TypeOK'
<1>1. ASSUME TypeOK, Next PROVE TypeOK'
  BY <1>1, NextSteps, ServeTyped, OfficeTyped
<1>2. ASSUME TypeOK, UNCHANGED vars PROVE TypeOK'
  BY <1>2 DEF TypeOK, vars
<1> QED BY <1>1, <1>2

\* Rows, seats and marks keep their types: in particular no number of attendance rows is
\* ever negative, although rows are added and removed one by one (AttendanceService).
THEOREM TypesCorrect == Spec => []TypeOK
<1> QED BY InitTyped, StepTyped, PTL DEF Spec

-----------------------------------------------------------------------------
(* Cards and codes.                                                        *)

\* A student who was not removed has the code on the card, a removed one has none, no two
\* cards are the same, and the codes handed out are above zero.
CardOK(row) == row.qr > 0 /\ row.code = IF row.deleted THEN 0 ELSE row.qr

Cards ==
    /\ \A s \in DOMAIN students : CardOK(students[s])
    /\ \A s, t \in DOMAIN students : students[s].qr = students[t].qr => s = t
    /\ \A r \in Requests : req[r].stage = "admit" => req[r].code > 0

LEMMA InitCards == Init => Cards
BY DEF Init, Cards, Idle

\* A step that leaves the students alone keeps the cards, unless it hands out code 0.
LEMMA QuietKeepsCards ==
    ASSUME TypeOK, Cards, UNCHANGED students, NEW r \in Requests, NEW fields,
           fields.stage = "admit" => fields.code > 0,
           \/ UNCHANGED req
           \/ req' = [req EXCEPT ![r] = fields]
    PROVE  Cards'
BY DEF TypeOK, Cards

\* An update of a student keeps the cards if it keeps the card and the code that goes with it.
LEMMA UpdateKeepsCards ==
    ASSUME TypeOK, Cards, UNCHANGED req, NEW s \in DOMAIN students, NEW row \in StudentRow,
           students' = [students EXCEPT ![s] = row],
           row.qr = students[s].qr, CardOK(row)
    PROVE  Cards'
<1>1. /\ DOMAIN students' = DOMAIN students
      /\ \A t \in DOMAIN students : students'[t] = IF t = s THEN row ELSE students[t]
  BY RowTyped
<1>2. \A t \in DOMAIN students' : CardOK(students'[t])
  BY <1>1 DEF Cards
<1>3. \A t \in DOMAIN students' : students'[t].qr = students[t].qr
  BY <1>1
<1> QED BY <1>1, <1>2, <1>3 DEF Cards

\* The unique index on the card keeps the new one apart from all earlier ones.
LEMMA AdmissionKeepsCards ==
    ASSUME TypeOK, Cards, NEW r \in Requests, AdmitStudent(r) PROVE Cards'
<1> DEFINE code == req[r].code
           new == Len(students) + 1
           row == [code |-> code, qr |-> code, deleted |-> FALSE, active |-> req[r].active]
<1>1. code > 0 /\ Unissued(code) /\ row \in StudentRow
  BY DEF AdmitStudent, Cards, TypeOK, RequestState, StudentRow
<1>2. /\ DOMAIN students = 1 .. Len(students) /\ DOMAIN students' = 1 .. new
      /\ students'[new] = row
      /\ \A t \in DOMAIN students : students'[t] = students[t]
  BY <1>1, AppendTyped DEF AdmitStudent
<1>3. Len(students) \in Nat
  BY DEF TypeOK
<1>4. \A t \in DOMAIN students' : t = new \/ t \in DOMAIN students
  BY <1>2, <1>3
<1>5. CardOK(row) /\ row.qr = code
  BY <1>1 DEF CardOK
<1> HIDE DEF row, code, new
<1>6. \A t \in DOMAIN students' : CardOK(students'[t])
  BY <1>2, <1>4, <1>5 DEF Cards
<1>7. \A s, t \in DOMAIN students' : students'[s].qr = students'[t].qr => s = t
  BY <1>1, <1>2, <1>4, <1>5 DEF Cards, Unissued
<1>8. \A t \in Requests : req'[t].stage = "admit" => req'[t].code > 0
  BY DEF AdmitStudent, Finish, Idle, Cards, TypeOK
<1> QED BY <1>6, <1>7, <1>8 DEF Cards

LEMMA ServeKeepsCards == ASSUME TypeOK, Cards, NEW r \in Requests, Serve(r) PROVE Cards'
<1> USE QuietKeepsCards
<1>1. ASSUME NEW batches \in SUBSET open, NEW active \in BOOLEAN,
             NumberStudent(r, batches, active)
      PROVE  Cards'
  <2>1. PICK n \in 1 .. Len(students) + 1 :
               Begin(r, [Idle EXCEPT !.stage = "admit", !.code = n, !.active = active,
                                     !.batches = batches])
    BY <1>1 DEF NumberStudent
  <2>2. [Idle EXCEPT !.stage = "admit", !.code = n, !.active = active,
                     !.batches = batches].code > 0
    BY DEF Idle, TypeOK
  <2> QED BY <1>1, <2>1, <2>2 DEF NumberStudent, Begin, Tables
<1>2. CASE AdmitStudent(r)
  BY <1>2, AdmissionKeepsCards
<1>3. ASSUME NEW b \in Batches, NEW s \in DOMAIN students, EnrollStudent(r, b, s)
      PROVE  Cards'
  BY <1>3 DEF EnrollStudent, Begin, Idle, Tables
<1>4. ASSUME NEW card \in DOMAIN students, NEW s \in DOMAIN students, NEW b \in Sessions,
             Scan(r, card, s, b)
      PROVE  Cards'
  BY <1>4 DEF Scan, Begin, Idle, Tables
<1>5. ASSUME NEW entries \in SUBSET DOMAIN students, ReadBranchMarks(r, entries)
      PROVE  Cards'
  BY <1>5 DEF ReadBranchMarks, Begin, Idle, Tables
<1>6. CASE CommitEnrolment(r) \/ CommitScan(r) \/ CommitBranchMarks(r) \/ Abandon(r)
  <2>1. UNCHANGED students /\ req' = [req EXCEPT ![r] = Idle]
    BY <1>6 DEF CommitEnrolment, CommitScan, CommitBranchMarks, Abandon, Finish, Tables
  <2> QED BY <2>1 DEF Idle
<1> QED BY <1>1, <1>2, <1>3, <1>4, <1>5, <1>6 DEF Serve

LEMMA OfficeKeepsCards == ASSUME TypeOK, Cards, Office PROVE Cards'
<1>1. ASSUME NEW s \in DOMAIN students, NEW active \in BOOLEAN, SetStatus(s, active)
      PROVE  Cards'
  <2> DEFINE row == [students[s] EXCEPT !.active = active]
  <2>1. row \in StudentRow /\ row.qr = students[s].qr /\ CardOK(row)
    BY RowOnFile DEF StudentRow, Cards, CardOK
  <2>2. students' = [students EXCEPT ![s] = row] /\ UNCHANGED req
    BY <1>1 DEF SetStatus
  <2> HIDE DEF row
  <2> QED BY <2>1, <2>2, UpdateKeepsCards
<1>2. ASSUME NEW s \in DOMAIN students, RemoveStudent(s) PROVE Cards'
  <2> DEFINE row == Removed(students[s])
  <2>1. row \in StudentRow /\ row.qr = students[s].qr /\ CardOK(row)
    BY RowOnFile DEF StudentRow, Cards, CardOK, Removed
  <2>2. students' = [students EXCEPT ![s] = row] /\ UNCHANGED req
    BY <1>2 DEF RemoveStudent
  <2> HIDE DEF row
  <2> QED BY <2>1, <2>2, UpdateKeepsCards
<1>3. ASSUME UNCHANGED <<students, req>> PROVE Cards'
  BY <1>3 DEF Cards
<1> QED BY <1>1, <1>2, <1>3
        DEF Office, AddToBatch, LeaveBatch, Mark, RemoveMark, BulkMark, RemoveBatch

LEMMA StepCards == TypeOK /\ Cards /\ [Next]_vars => Cards'
<1>1. ASSUME TypeOK, Cards, Next PROVE Cards'
  BY <1>1, NextSteps, ServeKeepsCards, OfficeKeepsCards
<1>2. ASSUME Cards, UNCHANGED vars PROVE Cards'
  BY <1>2 DEF Cards, vars
<1> QED BY <1>1, <1>2

\* However admissions race, fail and follow removals, a card leads to the student it was
\* printed for or to nobody (create, remove, scan).
THEOREM CardsFindTheirStudent == Spec => []QrFindsOnlyItsStudent
<1>1. TypeOK /\ Cards => QrFindsOnlyItsStudent
  BY DEF Cards, CardOK, QrFindsOnlyItsStudent, Present
<1> QED BY <1>1, InitTyped, StepTyped, InitCards, StepCards, PTL DEF Spec

-----------------------------------------------------------------------------
(* Capacity.                                                               *)

\* The seats of a batch and the requests about to take one.
Taken(b) == Cardinality(Seated(b)) + Cardinality(Enrolling(b))

LEMMA Countable ==
    ASSUME NEW b
    PROVE  /\ IsFiniteSet(Seated(b)) /\ IsFiniteSet(Enrolling(b))
           /\ Cardinality(Seated(b)) \in Nat /\ Cardinality(Enrolling(b)) \in Nat
           /\ Cardinality(Requests) \in Nat
           /\ Cardinality(Enrolling(b)) <= Cardinality(Requests)
<1>1. IsFiniteSet(Rows)
  BY FS_Interval, RosterAssumption DEF Rows
<1>2. Seated(b) \subseteq Rows /\ Enrolling(b) \subseteq Requests
  BY DEF Seated, Enrolling
<1>3. /\ IsFiniteSet(Seated(b)) /\ IsFiniteSet(Enrolling(b))
      /\ Cardinality(Enrolling(b)) <= Cardinality(Requests)
  BY <1>1, <1>2, FS_Subset, RosterAssumption
<1> QED BY <1>3, FS_CardinalityType, RosterAssumption

\* Two finite sets that only lose elements, but for one element gained by the first, count
\* at most one more than before, and not more when the second lost an element meanwhile.
LEMMA Counts ==
    ASSUME NEW S, NEW E, IsFiniteSet(S), IsFiniteSet(E), NEW T, NEW F, NEW x,
           T \subseteq S \cup {x}, F \subseteq E
    PROVE  /\ Cardinality(S) \in Nat /\ Cardinality(E) \in Nat
           /\ Cardinality(T) \in Nat /\ Cardinality(F) \in Nat
           /\ Cardinality(T) <= Cardinality(S) + 1
           /\ Cardinality(F) <= Cardinality(E)
           /\ T \subseteq S => Cardinality(T) <= Cardinality(S)
           /\ \A y \in E \ F : Cardinality(F) <= Cardinality(E) - 1
<1>1. IsFiniteSet(S \cup {x}) /\ Cardinality(S \cup {x}) <= Cardinality(S) + 1
  <2>1. Cardinality(S) \in Nat
    BY FS_CardinalityType
  <2>2. /\ IsFiniteSet(S \cup {x})
        /\ Cardinality(S \cup {x}) = IF x \in S THEN Cardinality(S) ELSE Cardinality(S) + 1
    BY FS_AddElement
  <2> QED BY <2>1, <2>2
<1>2. /\ IsFiniteSet(T) /\ Cardinality(T) <= Cardinality(S \cup {x})
      /\ IsFiniteSet(F) /\ Cardinality(F) <= Cardinality(E)
      /\ T \subseteq S => Cardinality(T) <= Cardinality(S)
  BY <1>1, FS_Subset
<1>3. /\ Cardinality(S) \in Nat /\ Cardinality(E) \in Nat
      /\ Cardinality(T) \in Nat /\ Cardinality(F) \in Nat
      /\ Cardinality(S \cup {x}) \in Nat
  BY <1>1, <1>2, FS_CardinalityType
<1>4. ASSUME NEW y \in E \ F PROVE Cardinality(F) <= Cardinality(E) - 1
  <2>1. IsFiniteSet(E \ {y}) /\ Cardinality(E \ {y}) = Cardinality(E) - 1
    BY FS_RemoveElement
  <2>2. F \subseteq E \ {y}
    OBVIOUS
  <2> QED BY <2>1, <2>2, FS_Subset
<1> QED BY <1>1, <1>2, <1>3, <1>4

\* A step that frees seats and ends requests keeps the bound, whatever else it counts.
LEMMA RoomKept ==
    ASSUME TypeOK, TypeOK', CapacityOverrunBounded, NEW b \in Batches,
           Seated(b)' \subseteq Seated(b), Enrolling(b)' \subseteq Enrolling(b),
           bypassed'[b] >= bypassed[b]
    PROVE  Taken(b)' <= Capacity + bypassed'[b] + Cardinality(Requests) - 1
<1> DEFINE S == Seated(b)
           E == Enrolling(b)
<1>1. /\ Cardinality(S) \in Nat /\ Cardinality(E) \in Nat
      /\ Cardinality(S') \in Nat /\ Cardinality(E') \in Nat
      /\ Cardinality(S') <= Cardinality(S) /\ Cardinality(E') <= Cardinality(E)
  BY Countable, Counts
<1>2. Cardinality(S) + Cardinality(E) <= Capacity + bypassed[b] + Cardinality(Requests) - 1
  BY DEF CapacityOverrunBounded
<1>3. Taken(b)' = Cardinality(S') + Cardinality(E')
  BY DEF Taken
<1>4. bypassed[b] \in Nat /\ bypassed'[b] \in Nat /\ Cardinality(Requests) \in Nat
  BY Countable DEF TypeOK
<1> HIDE DEF S, E
<1> QED BY <1>1, <1>2, <1>3, <1>4, RosterAssumption

\* So does one that takes a seat without looking, or for a request that ends with it.
LEMMA SeatPaidFor ==
    ASSUME TypeOK, TypeOK', CapacityOverrunBounded, NEW b \in Batches, NEW s,
           Seated(b)' \subseteq Seated(b) \cup {s}, Enrolling(b)' \subseteq Enrolling(b),
           \/ bypassed'[b] = bypassed[b] + 1
           \/ bypassed'[b] = bypassed[b] /\ \E r : r \in Enrolling(b) \ Enrolling(b)'
    PROVE  Taken(b)' <= Capacity + bypassed'[b] + Cardinality(Requests) - 1
<1> DEFINE S == Seated(b)
           E == Enrolling(b)
<1>1. IsFiniteSet(S) /\ IsFiniteSet(E) /\ S' \subseteq S \cup {s} /\ E' \subseteq E
  BY Countable
<1> HIDE DEF S, E
<1>2. /\ Cardinality(S) \in Nat /\ Cardinality(E) \in Nat
      /\ Cardinality(S') \in Nat /\ Cardinality(E') \in Nat
      /\ Cardinality(S') <= Cardinality(S) + 1 /\ Cardinality(E') <= Cardinality(E)
      /\ \A y \in E \ E' : Cardinality(E') <= Cardinality(E) - 1
  BY <1>1, Counts
<1>3. Cardinality(S) + Cardinality(E) <= Capacity + bypassed[b] + Cardinality(Requests) - 1
  BY DEF CapacityOverrunBounded, S, E
<1>4. Taken(b)' = Cardinality(S') + Cardinality(E')
  BY DEF Taken, S, E
<1>5. bypassed[b] \in Nat /\ bypassed'[b] \in Nat /\ Cardinality(Requests) \in Nat
  BY Countable DEF TypeOK
<1>6. CASE bypassed'[b] = bypassed[b] + 1
  BY <1>2, <1>3, <1>4, <1>5, <1>6, RosterAssumption
<1>7. CASE bypassed'[b] = bypassed[b] /\ \E r : r \in E \ E'
  BY <1>2, <1>3, <1>4, <1>5, <1>7, RosterAssumption
<1> QED BY <1>6, <1>7 DEF E

\* And so does a request that looked and found room, since at most all requests do so at once.
LEMMA RoomFound ==
    ASSUME TypeOK, TypeOK', NEW b \in Batches, HasRoom(b), UNCHANGED <<seats, bypassed>>
    PROVE  Taken(b)' <= Capacity + bypassed'[b] + Cardinality(Requests) - 1
<1>1. Seated(b)' = Seated(b) /\ Enrolling(b)' \subseteq Requests
  BY DEF Seated, Enrolling
<1>2. Cardinality(Enrolling(b)') <= Cardinality(Requests) /\ IsFiniteSet(Enrolling(b)')
  BY <1>1, FS_Subset, RosterAssumption
<1>3. Cardinality(Enrolling(b)') \in Nat
  BY <1>2, FS_CardinalityType
<1>4. Cardinality(Seated(b)) \in Nat /\ Cardinality(Requests) \in Nat
  BY Countable
<1>5. Cardinality(Seated(b)) <= Capacity - 1
  BY <1>4, RosterAssumption DEF HasRoom
<1>6. Taken(b)' = Cardinality(Seated(b)) + Cardinality(Enrolling(b)')
  BY <1>1 DEF Taken
<1>7. bypassed'[b] \in Nat
  BY DEF TypeOK
<1> QED BY <1>2, <1>3, <1>4, <1>5, <1>6, <1>7, RosterAssumption

\* A request that ends, or starts something other than an enrolment here, takes no place.
LEMMA NoneEnrols ==
    ASSUME TypeOK, NEW b, NEW r \in Requests, NEW fields,
           fields.stage # "enrol" \/ fields.session # b,
           UNCHANGED req \/ req' = [req EXCEPT ![r] = fields]
    PROVE  Enrolling(b)' \subseteq Enrolling(b)
BY DEF TypeOK, Enrolling

Bounded(b) == Taken(b) <= Capacity + bypassed[b] + Cardinality(Requests) - 1

LEMMA InitOverrun == Init => CapacityOverrunBounded
<1> SUFFICES ASSUME Init, NEW b \in Batches PROVE Bounded(b)
  BY DEF CapacityOverrunBounded, Bounded, Taken
<1>1. Seated(b) = {} /\ Enrolling(b) = {}
  BY DEF Init, Seated, Enrolling, Idle
<1>2. Taken(b) = 0 /\ bypassed[b] = 0
  BY <1>1, FS_EmptySet DEF Taken, Init
<1>3. Cardinality(Requests) \in Nat /\ Cardinality(Requests) # 0
  BY FS_EmptySet, FS_CardinalityType, RosterAssumption
<1> QED BY <1>2, <1>3, RosterAssumption DEF Bounded

LEMMA ServeOverrun ==
    ASSUME TypeOK, TypeOK', CapacityOverrunBounded, NEW r \in Requests, Serve(r),
           NEW b \in Batches
    PROVE  Bounded(b)'
<1> USE DEF Bounded
<1>1. ASSUME UNCHANGED <<seats, bypassed>>, Enrolling(b)' \subseteq Enrolling(b)
      PROVE  Bounded(b)'
  <2>1. Seated(b)' \subseteq Seated(b) /\ bypassed'[b] >= bypassed[b]
    BY <1>1 DEF Seated, TypeOK
  <2> QED BY <1>1, <2>1, RoomKept
<1>2. ASSUME NEW batches \in SUBSET open, NEW active \in BOOLEAN,
             NumberStudent(r, batches, active)
      PROVE  Bounded(b)'
  <2>1. PICK n \in 1 .. Len(students) + 1 :
               Begin(r, [Idle EXCEPT !.stage = "admit", !.code = n, !.active = active,
                                     !.batches = batches])
    BY <1>2 DEF NumberStudent
  <2>2. [Idle EXCEPT !.stage = "admit", !.code = n, !.active = active,
                     !.batches = batches].stage # "enrol"
    BY DEF Idle
  <2> QED BY <1>1, <1>2, <2>1, <2>2, NoneEnrols DEF NumberStudent, Begin, Tables
<1>3. CASE AdmitStudent(r)
  <2>1. Enrolling(b)' \subseteq Enrolling(b)
    BY <1>3, NoneEnrols DEF AdmitStudent, Finish, Idle
  <2>2. CASE b \in req[r].batches
    <3>1. Seated(b)' \subseteq Seated(b) \cup {Len(students) + 1}
      BY <1>3, <2>2 DEF AdmitStudent, Seated, TypeOK
    <3>2. bypassed'[b] = bypassed[b] + 1
      BY <1>3, <2>2 DEF AdmitStudent
    <3> QED BY <2>1, <3>1, <3>2, SeatPaidFor
  <2>3. CASE b \notin req[r].batches
    <3>1. seats'[b] = seats[b] /\ bypassed'[b] >= bypassed[b]
      BY <1>3, <2>3 DEF AdmitStudent, TypeOK
    <3>2. Seated(b)' \subseteq Seated(b)
      BY <3>1 DEF Seated
    <3> QED BY <2>1, <3>1, <3>2, RoomKept
  <2> QED BY <2>2, <2>3
<1>4. ASSUME NEW c \in Batches, NEW s \in DOMAIN students, EnrollStudent(r, c, s)
      PROVE  Bounded(b)'
  <2>1. CASE c = b
    BY <1>4, <2>1, RoomFound DEF EnrollStudent, Tables
  <2>2. CASE c # b
    <3>1. Enrolling(b)' \subseteq Enrolling(b)
      BY <1>4, <2>2, NoneEnrols DEF EnrollStudent, Begin, Idle
    <3> QED BY <1>1, <1>4, <3>1 DEF EnrollStudent, Tables
  <2> QED BY <2>1, <2>2
<1>5. CASE CommitEnrolment(r)
  <2> DEFINE c == req[r].session
             s == req[r].student
  <2>1. /\ c \in Batches /\ seats' = [seats EXCEPT ![c][s] = "seated"]
        /\ UNCHANGED bypassed /\ req[r].stage = "enrol" /\ req'[r].stage # "enrol"
    BY <1>5 DEF CommitEnrolment, Finish, Idle, TypeOK
  <2>2. Enrolling(b)' \subseteq Enrolling(b)
    BY <1>5, NoneEnrols DEF CommitEnrolment, Finish, Idle
  <2>3. CASE b = c
    <3>1. Seated(b)' \subseteq Seated(b) \cup {s}
      BY <2>1, <2>3 DEF Seated, TypeOK
    <3>2. r \in Enrolling(b) \ Enrolling(b)'
      BY <2>1, <2>3 DEF Enrolling
    <3> QED BY <2>1, <2>2, <3>1, <3>2, SeatPaidFor
  <2>4. CASE b # c
    <3>1. Seated(b)' \subseteq Seated(b)
      BY <2>1, <2>4 DEF Seated, TypeOK
    <3>2. bypassed'[b] >= bypassed[b]
      BY <2>1 DEF TypeOK
    <3> QED BY <2>2, <3>1, <3>2, RoomKept
  <2> QED BY <2>3, <2>4
<1>6. ASSUME NEW card \in DOMAIN students, NEW s \in DOMAIN students, NEW c \in Sessions,
             Scan(r, card, s, c)
      PROVE  Bounded(b)'
  BY <1>1, <1>6, NoneEnrols DEF Scan, Begin, Idle, Tables
<1>7. ASSUME NEW entries \in SUBSET DOMAIN students, ReadBranchMarks(r, entries)
      PROVE  Bounded(b)'
  BY <1>1, <1>7, NoneEnrols DEF ReadBranchMarks, Begin, Idle, Tables
<1>8. CASE CommitScan(r) \/ CommitBranchMarks(r) \/ Abandon(r)
  <2>1. UNCHANGED <<seats, bypassed>> /\ req' = [req EXCEPT ![r] = Idle]
    BY <1>8 DEF CommitScan, CommitBranchMarks, Abandon, Finish, Tables
  <2> QED BY <1>1, <2>1, NoneEnrols DEF Idle
<1> QED BY <1>2, <1>3, <1>4, <1>5, <1>6, <1>7, <1>8 DEF Serve

LEMMA OfficeOverrun ==
    ASSUME TypeOK, TypeOK', CapacityOverrunBounded, Office, NEW b \in Batches
    PROVE  Bounded(b)'
<1> USE DEF Bounded
<1>1. UNCHANGED req
  BY DEF Office, SetStatus, RemoveStudent, AddToBatch, LeaveBatch, Mark, RemoveMark,
         BulkMark, RemoveBatch
<1>2. Enrolling(b)' \subseteq Enrolling(b)
  BY <1>1 DEF Enrolling
<1>3. ASSUME UNCHANGED bypassed, Seated(b)' \subseteq Seated(b) PROVE Bounded(b)'
  <2>1. bypassed'[b] >= bypassed[b]
    BY <1>3 DEF TypeOK
  <2> QED BY <1>2, <1>3, <2>1, RoomKept
<1>4. ASSUME NEW s \in DOMAIN students, NEW c \in Batches, AddToBatch(c, s)
      PROVE  Bounded(b)'
  <2>1. CASE c = b
    <3>1. Seated(b)' \subseteq Seated(b) \cup {s} /\ bypassed'[b] = bypassed[b] + 1
      BY <1>4, <2>1 DEF AddToBatch, Seated, TypeOK
    <3> QED BY <1>2, <3>1, SeatPaidFor
  <2>2. CASE c # b
    <3>1. Seated(b)' \subseteq Seated(b) /\ bypassed'[b] >= bypassed[b]
      BY <1>4, <2>2 DEF AddToBatch, Seated, TypeOK
    <3> QED BY <1>2, <3>1, RoomKept
  <2> QED BY <2>1, <2>2
<1>5. ASSUME NEW s \in DOMAIN students, NEW c \in Batches, LeaveBatch(c, s)
      PROVE  Bounded(b)'
  BY <1>3, <1>5 DEF LeaveBatch, Seated, TypeOK
<1>6. ASSUME NEW c \in Batches, RemoveBatch(c) PROVE Bounded(b)'
  BY <1>3, <1>6 DEF RemoveBatch, Seated, TypeOK
<1>7. ASSUME UNCHANGED <<seats, bypassed>> PROVE Bounded(b)'
  BY <1>3, <1>7 DEF Seated
<1> QED BY <1>4, <1>5, <1>6, <1>7
        DEF Office, SetStatus, RemoveStudent, Mark, RemoveMark, BulkMark

LEMMA StepOverrun ==
    TypeOK /\ TypeOK' /\ CapacityOverrunBounded /\ [Next]_vars => CapacityOverrunBounded'
<1>1. ASSUME TypeOK, TypeOK', CapacityOverrunBounded, Next, NEW b \in Batches
      PROVE  Bounded(b)'
  BY <1>1, NextSteps, ServeOverrun, OfficeOverrun
<1>2. (\A b \in Batches : Bounded(b)') => CapacityOverrunBounded'
  BY DEF CapacityOverrunBounded, Bounded, Taken
<1>3. ASSUME CapacityOverrunBounded, UNCHANGED vars PROVE CapacityOverrunBounded'
  BY <1>3 DEF CapacityOverrunBounded, Seated, Enrolling, vars
<1> QED BY <1>1, <1>2, <1>3

\* However many enrolments look at the same free place, a batch exceeds its capacity by no
\* more than the seats nobody checked and one less than the requests served at once
\* (enrollStudent, addToBatch, create).
THEOREM OverrunBounded == Spec => []CapacityOverrunBounded
<1> QED BY InitTyped, StepTyped, InitOverrun, StepOverrun, PTL DEF Spec
-----------------------------------------------------------------------------
(* Attendance.                                                             *)

\* One count that moves to a value of at most one, or to a smaller one, is all it takes.
LEMMA MarkBounded ==
    ASSUME TypeOK, OneMarkPerBatch, NEW s, NEW b, NEW v,
           \A c \in Batches : s \in Rows /\ b = c => v <= 1,
           marks' = [marks EXCEPT ![s][b] = v]
    PROVE  OneMarkPerBatch'
<1>1. ASSUME NEW t \in Rows, NEW c \in Batches PROVE marks'[t][c] <= 1
  <2>1. marks \in [Rows -> [Sessions -> Nat]] /\ c \in Sessions /\ marks[t] \in [Sessions -> Nat]
    BY DEF TypeOK, Sessions
  <2>2. CASE t = s /\ c = b
    BY <2>1, <2>2
  <2>3. CASE ~(t = s /\ c = b)
    <3>1. marks'[t][c] = marks[t][c]
      BY <2>1, <2>3
    <3> QED BY <3>1 DEF OneMarkPerBatch
  <2> QED BY <2>2, <2>3
<1> QED BY <1>1 DEF OneMarkPerBatch

\* Rows without a batch are written beside the batches' rows, never among them.
LEMMA UnassignedApart ==
    ASSUME TypeOK, OneMarkPerBatch, NEW entries,
           marks' = [s \in Rows |->
                       IF s \in entries THEN [marks[s] EXCEPT ![None] = @ + 1] ELSE marks[s]]
    PROVE  OneMarkPerBatch'
<1>1. ASSUME NEW t \in Rows, NEW c \in Batches PROVE marks'[t][c] <= 1
  <2>1. marks[t] \in [Sessions -> Nat] /\ c \in Sessions /\ c # None
    BY RosterAssumption DEF TypeOK, Sessions
  <2>2. [marks[t] EXCEPT ![None] = @ + 1][c] = marks[t][c]
    BY <2>1
  <2>3. marks'[t][c] = marks[t][c]
    BY <2>2
  <2> QED BY <2>3 DEF OneMarkPerBatch
<1> QED BY <1>1 DEF OneMarkPerBatch

LEMMA ServeKeepsMarks ==
    ASSUME TypeOK, OneMarkPerBatch, NEW r \in Requests, Serve(r) PROVE OneMarkPerBatch'
<1>1. CASE UNCHANGED marks
  BY <1>1 DEF OneMarkPerBatch
<1>2. CASE CommitScan(r)
  <2> DEFINE s == req[r].student
             b == req[r].session
  <2>1. marks' = [marks EXCEPT ![s][b] = marks[s][b] + 1]
    BY <1>2 DEF CommitScan
  <2>2. \A c \in Batches : s \in Rows /\ b = c => marks[s][b] + 1 <= 1
    BY <1>2, RosterAssumption DEF CommitScan, Markable
  <2> HIDE DEF s, b
  <2> QED BY <2>1, <2>2, MarkBounded
<1>3. CASE CommitBranchMarks(r)
  BY <1>3, UnassignedApart DEF CommitBranchMarks
<1>4. \A batches, active : NumberStudent(r, batches, active) => UNCHANGED marks
  BY DEF NumberStudent, Tables
<1>5. \A entries : ReadBranchMarks(r, entries) => UNCHANGED marks
  BY DEF ReadBranchMarks, Tables
<1>6. \A b, s : EnrollStudent(r, b, s) => UNCHANGED marks
  BY DEF EnrollStudent, Tables
<1>7. \A card, s, b : Scan(r, card, s, b) => UNCHANGED marks
  BY DEF Scan, Tables
<1>8. AdmitStudent(r) \/ CommitEnrolment(r) \/ Abandon(r) => UNCHANGED marks
  BY DEF AdmitStudent, CommitEnrolment, Abandon, Tables
<1> QED BY <1>1, <1>2, <1>3, <1>4, <1>5, <1>6, <1>7, <1>8 DEF Serve

LEMMA OfficeKeepsMarks == ASSUME TypeOK, OneMarkPerBatch, Office PROVE OneMarkPerBatch'
<1>1. CASE UNCHANGED marks
  BY <1>1 DEF OneMarkPerBatch
<1>2. ASSUME NEW s \in DOMAIN students, NEW b \in Sessions, Mark(s, b)
      PROVE  OneMarkPerBatch'
  <2>1. marks' = [marks EXCEPT ![s][b] = marks[s][b] + 1]
    BY <1>2 DEF Mark
  <2>2. \A c \in Batches : s \in Rows /\ b = c => marks[s][b] + 1 <= 1
    BY <1>2, RosterAssumption DEF Mark, Markable
  <2> QED BY <2>1, <2>2, MarkBounded
<1>3. ASSUME NEW s \in DOMAIN students, NEW b \in Sessions, RemoveMark(s, b)
      PROVE  OneMarkPerBatch'
  <2>1. marks' = [marks EXCEPT ![s][b] = marks[s][b] - 1]
    BY <1>3 DEF RemoveMark
  <2>2. ASSUME NEW c \in Batches, s \in Rows, b = c PROVE marks[s][b] - 1 <= 1
    <3>1. marks[s][c] \in Nat /\ marks[s][c] <= 1
      BY <2>2 DEF TypeOK, Sessions, OneMarkPerBatch
    <3> QED BY <2>2, <3>1
  <2> QED BY <2>1, <2>2, MarkBounded
<1>4. ASSUME NEW b \in Batches, NEW entries \in SUBSET DOMAIN students, BulkMark(b, entries)
      PROVE  OneMarkPerBatch'
  <2>1. ASSUME NEW t \in Rows, NEW c \in Batches PROVE marks'[t][c] <= 1
    <3>1. marks[t] \in [Sessions -> Nat] /\ c \in Sessions /\ marks[t][c] <= 1
      BY DEF TypeOK, Sessions, OneMarkPerBatch
    <3>2. [marks[t] EXCEPT ![b] = 1][c] <= 1
      BY <3>1
    <3>3. marks'[t] = IF t \in entries THEN [marks[t] EXCEPT ![b] = 1] ELSE marks[t]
      BY <1>4 DEF BulkMark
    <3> QED BY <3>1, <3>2, <3>3
  <2> QED BY <2>1 DEF OneMarkPerBatch
<1>5. ASSUME NEW b \in Batches, RemoveBatch(b) PROVE OneMarkPerBatch'
  <2>1. ASSUME NEW t \in Rows, NEW c \in Batches PROVE marks'[t][c] <= 1
    <3>1. /\ marks[t] \in [Sessions -> Nat] /\ marks[t][c] <= 1
          /\ b \in Sessions /\ c \in Sessions /\ c # None
      BY RosterAssumption DEF TypeOK, Sessions, OneMarkPerBatch
    <3>2. [marks[t] EXCEPT ![b] = 0, ![None] = @ + marks[t][b]][c] <= 1
      BY <3>1
    <3>3. marks'[t] = [marks[t] EXCEPT ![b] = 0, ![None] = @ + marks[t][b]]
      BY <1>5 DEF RemoveBatch
    <3> QED BY <3>2, <3>3
  <2> QED BY <2>1 DEF OneMarkPerBatch
<1> QED BY <1>1, <1>2, <1>3, <1>4, <1>5 DEF Office, SetStatus, RemoveStudent, AddToBatch, LeaveBatch

\* Whether attendance is scanned, marked one by one or for the whole batch, and whatever
\* overlaps or is removed meanwhile, a student has at most one row a day in a batch
\* (AttendanceService.scan, mark, bulkMark; BatchesService.remove).
THEOREM MarkedOnce == Spec => []OneMarkPerBatch
<1>1. Init => OneMarkPerBatch
  BY DEF Init, OneMarkPerBatch, Sessions
<1>2. TypeOK /\ OneMarkPerBatch /\ [Next]_vars => OneMarkPerBatch'
  <2>1. CASE UNCHANGED vars
    BY <2>1 DEF OneMarkPerBatch, vars
  <2> QED BY <2>1, NextSteps, ServeKeepsMarks, OfficeKeepsMarks
<1> QED BY TypesCorrect, <1>1, <1>2, PTL DEF Spec
=============================================================================

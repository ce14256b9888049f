------------------------------- MODULE Grading -------------------------------
(***************************************************************************)
(* Belt exams, the belts of students and the certificates issued for both  *)
(* (BeltsService, CertificatesService, the belt in StudentsService.update).*)
(*                                                                         *)
(* A belt is its index in BELT_ORDER.  Grading is a transaction, and then, *)
(* outside it, the issue of a certificate and the link to it: errors there *)
(* are logged and leave the exam graded.  A certificate's number is the    *)
(* count plus one under a unique index, and rows are never deleted, so a   *)
(* certificate is its place in the table.                                  *)
(***************************************************************************)
EXTENDS Integers, Sequences, FiniteSets

CONSTANTS
    Requests,           \* the HTTP requests the server works on at one time
    Students,           \* rows of students
    TopBelt,            \* the last index of BELT_ORDER
    ResultInputs,       \* the results an examiner enters
    MaxExams,           \* bound: rows of belt_exams
    MaxCertificates,    \* bound: rows of certificates
    MaxReopened         \* bound: how often a final result is overwritten by another

Belts == 0 .. TopBelt
ExamResult == {"PENDING", "PASS", "FAIL", "ABSENT"}
Final == {"PASS", "FAIL"}

ASSUME GradingAssumption ==
    /\ IsFiniteSet(Requests)
    /\ ResultInputs \subseteq ExamResult
    /\ TopBelt \in Nat /\ MaxExams \in Nat /\ MaxCertificates \in Nat /\ MaxReopened \in Nat

VARIABLES
    student,        \* the students rows
    history,        \* student_history: the belt of the last entry that tells one, if any does
    exams,          \* the belt_exams rows
    certificates,   \* the certificates rows
    req,            \* the requests in progress
    disturbed       \* history: students whose history fell behind, see After and Abandon

vars == <<student, history, exams, certificates, req, disturbed>>

\* admitted is history: the belt the student came with.
Student == [row : {"none", "live", "deleted"}, belt : Belts, admitted : Belts]

\* reopened is history: how often a result that was final gave way to one that is not.
Exam ==
    [of : Students, to : Belts, result : ExamResult, deleted : BOOLEAN,
     certificate : Nat, reopened : Nat]
\* exam 0: issued by hand.
Certificate == [of : Students, exam : Nat, revoked : BOOLEAN]

AtMostOne(S) == {{}} \cup {{x} : x \in S}

Stages == {"idle", "grade", "passed", "certify", "number", "link", "remove", "belt", "record"}
RequestState ==
    [stage : Stages, of : SUBSET Students, exam : Nat, result : ExamResult, issue : BOOLEAN,
     seen : Nat, belt : Belts]

Idle == [stage |-> "idle", of |-> {}, exam |-> 0, result |-> "PENDING", issue |-> FALSE,
         seen |-> 0, belt |-> 0]

Init ==
    /\ student = [s \in Students |-> [row |-> "none", belt |-> 0, admitted |-> 0]]
    /\ history = [s \in Students |-> {}]
    /\ exams = <<>>
    /\ certificates = <<>>
    /\ req = [r \in Requests |-> Idle]
    /\ disturbed = {}

Rows == <<student, history, exams, certificates, disturbed>>
IsIdle(r) == req[r].stage = "idle"
Begin(r, fields) == IsIdle(r) /\ req' = [req EXCEPT ![r] = fields]
Finish(r) == req' = [req EXCEPT ![r] = Idle]
GoTo(r, stage) == req' = [req EXCEPT ![r].stage = stage]
IsLive(s) == student[s].row = "live"

-----------------------------------------------------------------------------
(* Students and their belts.                                               *)

\* The entry for the admission tells no belt.
Admit(r, s, belt) ==
    /\ IsIdle(r)
    /\ student[s].row = "none"
    /\ student' = [student EXCEPT ![s] = [row |-> "live", belt |-> belt, admitted |-> belt]]
    /\ history' = [history EXCEPT ![s] = {}]
    /\ UNCHANGED <<exams, certificates, req, disturbed>>

RemoveStudent(r, s) ==
    /\ IsIdle(r)
    /\ IsLive(s)
    /\ student' = [student EXCEPT ![s].row = "deleted"]
    /\ UNCHANGED <<history, exams, certificates, req, disturbed>>

\* update reads the student, writes it, and records a belt that differs from what it read.
ReadForUpdate(r, s, belt) ==
    /\ IsLive(s)
    /\ Begin(r, [Idle EXCEPT !.stage = "belt", !.of = {s}, !.belt = belt,
                             !.seen = student[s].belt])
    /\ UNCHANGED Rows

\* The updates that wrote a belt of s and have yet to write its entry.
Due(s) == {r \in Requests : req[r].stage = "record" /\ s \in req[r].of}

\* A change of belt without an entry, or before the entry of another change is written, leaves
\* the history behind; a change that writes an entry alone brings it up to date.
After(s, belt, enters) ==
    IF student[s].belt # belt /\ (Due(s) # {} \/ ~enters) THEN disturbed \cup {s}
    ELSE IF Due(s) = {} /\ enters THEN disturbed \ {s}
    ELSE disturbed

NeverDiffers(q) == FALSE
Differs(q) == q.belt # q.seen

WriteBelt(r, s) ==
    /\ req[r].stage = "belt" /\ s \in req[r].of
    /\ student' = [student EXCEPT ![s].belt = req[r].belt]
    /\ IF Differs(req[r]) THEN GoTo(r, "record") ELSE Finish(r)
    /\ disturbed' = After(s, req[r].belt, req[r].belt # req[r].seen)
    /\ UNCHANGED <<history, exams, certificates>>

RecordBelt(r, s) ==
    /\ req[r].stage = "record" /\ s \in req[r].of
    /\ history' = [history EXCEPT ![s] = {req[r].belt}]
    /\ Finish(r)
    /\ UNCHANGED <<student, exams, certificates, disturbed>>

-----------------------------------------------------------------------------
(* Exams.                                                                  *)

\* The belt the exam starts from is the client's word: only below the target.
Schedule(r, s, to) ==
    /\ IsIdle(r)
    /\ IsLive(s)
    /\ \E from \in Belts : from < to
    /\ Len(exams) < MaxExams
    /\ exams' = Append(exams, [of |-> s, to |-> to, result |-> "PENDING", deleted |-> FALSE,
                               certificate |-> 0, reopened |-> 0])
    /\ UNCHANGED <<student, history, certificates, req, disturbed>>

Exists(e) == e \in DOMAIN exams /\ ~exams[e].deleted
StillThere(e) == Exists(e)
Ungraded(e) == Exists(e) /\ exams[e].result \notin Final

ReadForGrade(r, e, result, issue) ==
    /\ Ungraded(e)
    /\ Begin(r, [Idle EXCEPT !.stage = "grade", !.exam = e, !.result = result, !.issue = issue])
    /\ UNCHANGED Rows

\* The result is written over whatever is there now.  A pass makes the target the student's
\* belt, be it above or below the present one.
CommitGrade(r, e) ==
    LET q == req[r]
        reopens == exams[e].result \in Final /\ q.result \notin Final
        s == exams[e].of
        passed == q.result = "PASS"
    IN
    /\ q.stage = "grade" /\ q.exam = e
    /\ Exists(e)
    /\ reopens => exams[e].reopened < MaxReopened
    /\ exams' = [exams EXCEPT ![e].result = q.result,
                              ![e].reopened = @ + (IF reopens THEN 1 ELSE 0)]
    /\ student' = IF passed THEN [student EXCEPT ![s].belt = exams[e].to] ELSE student
    /\ history' = IF passed THEN [history EXCEPT ![s] = {exams[e].to}] ELSE history
    /\ disturbed' = IF passed THEN After(s, exams[e].to, TRUE) ELSE disturbed
    /\ IF passed /\ q.issue THEN GoTo(r, "passed") ELSE Finish(r)
    /\ UNCHANGED certificates

ReadForRemove(r, e) ==
    /\ Exists(e) /\ exams[e].result = "PENDING"
    /\ Begin(r, [Idle EXCEPT !.stage = "remove", !.exam = e])
    /\ UNCHANGED Rows

RemoveExam(r, e) ==
    /\ req[r].stage = "remove" /\ req[r].exam = e
    /\ Exists(e)
    /\ exams' = [exams EXCEPT ![e].deleted = TRUE]
    /\ Finish(r)
    /\ UNCHANGED <<student, history, certificates, disturbed>>

-----------------------------------------------------------------------------
(* Certificates.                                                           *)

\* issueForBeltExam reads the exam again.
CheckPassed(r, e) ==
    /\ req[r].stage = "passed" /\ req[r].exam = e
    /\ Exists(e) /\ exams[e].result = "PASS"
    /\ IsLive(exams[e].of)
    /\ req' = [req EXCEPT ![r].stage = "certify", ![r].of = {exams[e].of}]
    /\ UNCHANGED Rows

CheckByHand(r, s) ==
    /\ IsLive(s)
    /\ Begin(r, [Idle EXCEPT !.stage = "certify", !.of = {s}])
    /\ UNCHANGED Rows

CountCertificates(r) ==
    /\ req[r].stage = "certify"
    /\ req' = [req EXCEPT ![r].stage = "number", ![r].seen = Len(certificates)]
    /\ UNCHANGED Rows

NewCertificate == Len(certificates) + 1

\* The unique index refuses a number that was taken since the count.
InsertCertificate(r, s) ==
    LET q == req[r] IN
    /\ q.stage = "number" /\ s \in q.of
    /\ q.seen = Len(certificates)
    /\ Len(certificates) < MaxCertificates
    /\ certificates' = Append(certificates, [of |-> s, exam |-> q.exam, revoked |-> FALSE])
    /\ IF q.exam = 0 THEN Finish(r)
       ELSE req' = [req EXCEPT ![r].stage = "link", ![r].seen = NewCertificate]
    /\ UNCHANGED <<student, history, exams, disturbed>>

LinkCertificate(r, e) ==
    /\ req[r].stage = "link" /\ req[r].exam = e
    /\ Exists(e)
    /\ exams' = [exams EXCEPT ![e].certificate = req[r].seen]
    /\ Finish(r)
    /\ UNCHANGED <<student, history, certificates, disturbed>>

Revoke(r, c) ==
    /\ IsIdle(r)
    /\ ~certificates[c].revoked
    /\ certificates' = [certificates EXCEPT ![c].revoked = TRUE]
    /\ UNCHANGED <<student, history, exams, req, disturbed>>

\* An error, a lost row or the death of the process ends a request where it is.
Abandon(r) ==
    /\ ~IsIdle(r)
    /\ disturbed' = disturbed \cup (IF req[r].stage = "record" THEN req[r].of ELSE {})
    /\ Finish(r)
    /\ UNCHANGED <<student, history, exams, certificates>>

Serve(r) ==
    \/ \E s \in Students :
          \/ \E belt \in Belts : Admit(r, s, belt) \/ ReadForUpdate(r, s, belt)
                                   \/ Schedule(r, s, belt)
          \/ RemoveStudent(r, s) \/ WriteBelt(r, s) \/ RecordBelt(r, s)
          \/ CheckByHand(r, s) \/ InsertCertificate(r, s)
    \/ \E e \in DOMAIN exams :
          \/ \E result \in ResultInputs, issue \in BOOLEAN : ReadForGrade(r, e, result, issue)
          \/ CommitGrade(r, e) \/ ReadForRemove(r, e) \/ RemoveExam(r, e)
          \/ CheckPassed(r, e) \/ LinkCertificate(r, e)
    \/ \E c \in DOMAIN certificates : Revoke(r, c)
    \/ CountCertificates(r) \/ Abandon(r)

Next == \E r \in Requests : Serve(r)

Spec == Init /\ [][Next]_vars

-----------------------------------------------------------------------------
TypeOK ==
    /\ student \in [Students -> Student]
    /\ history \in [Students -> AtMostOne(Belts)]
    /\ exams \in Seq(Exam)
    /\ \A e \in DOMAIN exams : exams[e].certificate # 0 =>
          /\ exams[e].certificate \in DOMAIN certificates
          /\ certificates[exams[e].certificate].exam = e
    /\ certificates \in Seq(Certificate)
    /\ req \in [Requests -> RequestState]
    /\ disturbed \subseteq Students

\* A result that is final stands: requests that read the exam before it was final can still
\* change it or delete the exam, and when they are through nothing ever does.
Grading(e) == {r \in Requests : req[r].exam = e /\ req[r].stage \in {"grade", "remove"}}

ResultStands ==
    [][\A e \in DOMAIN exams :
          Exists(e) /\ exams[e].result \in Final /\ Grading(e) = {} =>
             /\ Grading(e)' = {}
             /\ exams'[e].result = exams[e].result /\ ~exams'[e].deleted]_vars

\* Every request that found the exam ungraded may pass it, with a certificate each: as many
\* certificates as requests, and as many again each time a result was reopened.
Issuing(e) ==
    {r \in Requests : req[r].exam = e /\
        (req[r].stage \in {"passed", "certify", "number"}
           \/ (req[r].stage = "grade" /\ req[r].result = "PASS"))}
Issued(e) == {c \in DOMAIN certificates : certificates[c].exam = e}

CertificatesPerReopening ==
    \A e \in DOMAIN exams :
        Cardinality(Issued(e)) + Cardinality(Issuing(e))
            <= Cardinality(Requests) * (1 + exams[e].reopened)

\* The last entry of student_history, or the belt of admission while there is none, names the
\* belt of the student, or an update that wrote the belt is about to enter it.  What can spoil
\* it: an update that dies between its two writes, or gives back the belt it read over a
\* promotion committed since; or a belt written between another update's two writes.
\* The next change that meets no other sets it right.
Recording(s) == {req[r].belt : r \in Due(s)}
LastTold(s) == IF history[s] = {} THEN {student[s].admitted} ELSE history[s]

BeltIsRecorded ==
    \A s \in Students : student[s].row # "none" /\ s \notin disturbed =>
        {student[s].belt} = IF Due(s) = {} THEN LastTold(s) ELSE Recording(s)
=============================================================================

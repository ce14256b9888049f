---------------------------- MODULE GradingProofs ----------------------------
(***************************************************************************)
(* What Grading guarantees for any number of requests, students and        *)
(* exams: its types, when a final result stands, when the history of a     *)
(* student tells its belt, and how many certificates an exam can have.     *)
(***************************************************************************)
EXTENDS Grading, TLAPS, FiniteSetTheorems

-----------------------------------------------------------------------------
(* Types, and the certificate a request is about to link.                  *)

Sound(q) ==
    /\ q \in RequestState
    /\ q.stage = "link" => q.seen \in DOMAIN certificates /\ certificates[q.seen].exam = q.exam

Typed == TypeOK /\ \A r \in Requests : Sound(req[r])

LEMMA IdleTyped == Idle \in RequestState /\ Idle.stage = "idle" /\ Idle.of = {}
BY GradingAssumption DEF Idle, RequestState, Stages, ExamResult, Belts

LEMMA One == {} \in AtMostOne(Belts) /\ \A b \in Belts : {b} \in AtMostOne(Belts)
BY DEF AtMostOne

\* What became of the histories concerns students of the model only.
LEMMA AfterTyped ==
    ASSUME disturbed \subseteq Students, NEW s \in Students, NEW b, NEW enters \in BOOLEAN
    PROVE  After(s, b, enters) \subseteq Students
BY DEF After

LEMMA IdleSound == Sound(Idle) /\ Sound(Idle)'
BY IdleTyped DEF Sound

LEMMA InitTyped == Init => Typed
<1> SUFFICES ASSUME Init PROVE Typed
  OBVIOUS
<1>1. 0 \in Belts
  BY GradingAssumption DEF Belts
<1>2. student \in [Students -> Student] /\ history \in [Students -> AtMostOne(Belts)]
  BY <1>1, One DEF Init, Student
<1>3. exams \in Seq(Exam) /\ certificates \in Seq(Certificate) /\ DOMAIN exams = {}
  BY DEF Init
<1>4. req \in [Requests -> RequestState] /\ \A r \in Requests : Sound(req[r])
  BY IdleTyped, IdleSound DEF Init
<1>5. disturbed \subseteq Students
  BY DEF Init
<1> QED BY <1>2, <1>3, <1>4, <1>5 DEF Typed, TypeOK

LEMMA RequestOnFile ==
    ASSUME Typed, NEW r \in Requests
    PROVE  /\ req[r] \in RequestState /\ req[r].stage \in Stages /\ req[r].of \subseteq Students
           /\ req[r].exam \in Nat /\ req[r].result \in ExamResult /\ req[r].issue \in BOOLEAN
           /\ req[r].seen \in Nat /\ req[r].belt \in Belts
<1>1. req[r] \in RequestState
  BY DEF Typed, TypeOK
<1> QED BY <1>1 DEF RequestState

LEMMA ExamOnFile ==
    ASSUME Typed, NEW e \in DOMAIN exams
    PROVE  /\ e \in Nat /\ e # 0 /\ exams[e] \in Exam /\ exams[e].of \in Students
           /\ exams[e].to \in Belts
           /\ exams[e].result \in ExamResult /\ exams[e].deleted \in BOOLEAN
           /\ exams[e].certificate \in Nat /\ exams[e].reopened \in Nat
           /\ exams[e].certificate # 0 =>
                /\ exams[e].certificate \in DOMAIN certificates
                /\ certificates[exams[e].certificate].exam = e
<1>1. exams[e] \in Exam /\ e \in Nat /\ e # 0
  BY DEF Typed, TypeOK
<1> QED BY <1>1 DEF Exam, Typed, TypeOK

\* A step that moves one request and leaves exams and certificates keeps the types.
LEMMA MoveTyped ==
    ASSUME Typed, NEW r \in Requests, NEW q, Sound(q), req' = [req EXCEPT ![r] = q],
           UNCHANGED exams, UNCHANGED certificates,
           student' \in [Students -> Student], history' \in [Students -> AtMostOne(Belts)],
           disturbed' \subseteq Students
    PROVE  Typed'
<1>1. \A p \in Requests : req'[p] = IF p = r THEN q ELSE req[p]
  BY DEF Typed, TypeOK
<1>2. \A p \in Requests : Sound(req[p])'
  BY <1>1 DEF Typed, Sound
<1>3. req' \in [Requests -> RequestState]
  BY DEF Typed, TypeOK, Sound
<1> QED BY <1>2, <1>3 DEF Typed, TypeOK

\* A step that changes one exam does too, if the exam's certificate is of that exam.
LEMMA ExamTyped ==
    ASSUME Typed, NEW r \in Requests, NEW q, Sound(q), req' = [req EXCEPT ![r] = q],
           NEW e \in DOMAIN exams, NEW row \in Exam, exams' = [exams EXCEPT ![e] = row],
           row.certificate # 0 => /\ row.certificate \in DOMAIN certificates
                                  /\ certificates[row.certificate].exam = e,
           UNCHANGED certificates, disturbed' \subseteq Students,
           student' \in [Students -> Student], history' \in [Students -> AtMostOne(Belts)]
    PROVE  Typed'
<1>1. \A p \in Requests : req'[p] = IF p = r THEN q ELSE req[p]
  BY DEF Typed, TypeOK
<1>2. \A p \in Requests : Sound(req[p])'
  BY <1>1 DEF Typed, Sound
<1>3. req' \in [Requests -> RequestState]
  BY DEF Typed, TypeOK, Sound
<1>4. /\ exams' \in Seq(Exam) /\ DOMAIN exams' = DOMAIN exams
      /\ \A d \in DOMAIN exams : exams'[d] = IF d = e THEN row ELSE exams[d]
  BY DEF Typed, TypeOK
<1>5. \A d \in DOMAIN exams' : exams'[d].certificate # 0 =>
          /\ exams'[d].certificate \in DOMAIN certificates'
          /\ certificates'[exams'[d].certificate].exam = d
  BY <1>4, ExamOnFile
<1>6. certificates' \in Seq(Certificate) /\ disturbed' \subseteq Students
  BY DEF Typed, TypeOK
<1> QED BY <1>2, <1>3, <1>4, <1>5, <1>6 DEF Typed, TypeOK

\* Certificates that are added or revoked stay what they are of.
LEMMA CertificatesTyped ==
    ASSUME Typed, certificates' \in Seq(Certificate), DOMAIN certificates \subseteq DOMAIN certificates',
           \A c \in DOMAIN certificates : certificates'[c].exam = certificates[c].exam,
           UNCHANGED <<student, history, exams, disturbed>>,
           NEW r \in Requests, NEW q, Sound(q)', req' = [req EXCEPT ![r] = q]
    PROVE  Typed'
<1>1. \A p \in Requests : req'[p] = IF p = r THEN q ELSE req[p]
  BY DEF Typed, TypeOK
<1>2. \A p \in Requests : Sound(req[p])'
  BY <1>1 DEF Typed, Sound
<1>3. req' \in [Requests -> RequestState]
  BY DEF Typed, TypeOK, Sound
<1>4. \A e \in DOMAIN exams : exams[e].certificate # 0 =>
          /\ exams[e].certificate \in DOMAIN certificates'
          /\ certificates'[exams[e].certificate].exam = e
  BY ExamOnFile
<1> QED BY <1>2, <1>3, <1>4 DEF Typed, TypeOK

LEMMA StudentsTyped ==
    ASSUME Typed, NEW r \in Requests, NEW s \in Students,
           \/ \E belt \in Belts : Admit(r, s, belt)
           \/ RemoveStudent(r, s) \/ WriteBelt(r, s) \/ RecordBelt(r, s)
    PROVE  Typed'
<1>1. /\ student \in [Students -> Student] /\ history \in [Students -> AtMostOne(Belts)]
      /\ disturbed \subseteq Students /\ req \in [Requests -> RequestState]
      /\ Sound(req[r]) /\ req[r].belt \in Belts /\ req[r] \in RequestState
  BY RequestOnFile DEF Typed, TypeOK
<1>2. req' = [req EXCEPT ![r] = req[r]] <=> UNCHANGED req
  BY <1>1
<1>3. ASSUME NEW belt \in Belts, Admit(r, s, belt) PROVE Typed'
  <2>1. [row |-> "live", belt |-> belt, admitted |-> belt] \in Student
    BY DEF Student
  <2>2. student' \in [Students -> Student] /\ history' \in [Students -> AtMostOne(Belts)]
    BY <1>1, <1>3, <2>1, One DEF Admit
  <2> QED BY <1>1, <1>3, <2>2, MoveTyped DEF Admit
<1>4. CASE RemoveStudent(r, s)
  <2>1. student' \in [Students -> Student]
    BY <1>1, <1>4 DEF RemoveStudent, Student
  <2> QED BY <1>1, <1>4, <2>1, MoveTyped DEF RemoveStudent
<1>5. CASE WriteBelt(r, s)
  <2>1. student' \in [Students -> Student]
    BY <1>1, <1>5 DEF WriteBelt, Student
  <2> DEFINE q == [req[r] EXCEPT !.stage = "record"]
  <2>2. q \in RequestState /\ q.stage = "record"
    BY <1>1 DEF RequestState, Stages
  <2>3. req' = [req EXCEPT ![r] = q] \/ req' = [req EXCEPT ![r] = Idle]
    BY <1>1, <1>5 DEF WriteBelt, GoTo, Finish
  <2> HIDE DEF q
  <2>4. Sound(q)
    BY <2>2 DEF Sound
  <2>5. disturbed' \subseteq Students
    BY <1>1, <1>5, AfterTyped DEF WriteBelt
  <2> QED BY <1>1, <1>5, <2>1, <2>3, <2>4, <2>5, IdleSound, MoveTyped DEF WriteBelt
<1>6. CASE RecordBelt(r, s)
  <2>1. history' \in [Students -> AtMostOne(Belts)]
    BY <1>1, <1>6, One DEF RecordBelt
  <2> QED BY <1>1, <1>6, <2>1, IdleSound, MoveTyped DEF RecordBelt, Finish
<1> QED BY <1>3, <1>4, <1>5, <1>6

LEMMA ExamsTyped ==
    ASSUME Typed, NEW r \in Requests, NEW e \in DOMAIN exams,
           CommitGrade(r, e) \/ RemoveExam(r, e) \/ LinkCertificate(r, e)
    PROVE  Typed'
<1>1. /\ disturbed \subseteq Students /\ student \in [Students -> Student] /\ history \in [Students -> AtMostOne(Belts)]
      /\ req \in [Requests -> RequestState] /\ req[r] \in RequestState /\ exams \in Seq(Exam)
  BY RequestOnFile DEF Typed, TypeOK
<1>2. CASE CommitGrade(r, e)
  <2> DEFINE more == IF exams[e].result \in Final /\ req[r].result \notin Final THEN 1 ELSE 0
             count == exams[e].reopened + more
             row == [exams[e] EXCEPT !.result = req[r].result, !.reopened = count]
             q == [req[r] EXCEPT !.stage = "passed"]
  <2>1. count \in Nat
    BY ExamOnFile
  <2>2. exams' = [exams EXCEPT ![e].result = req[r].result, ![e].reopened = count]
    BY <1>2 DEF CommitGrade
  <2> HIDE DEF more, count
  <2>3. exams' = [exams EXCEPT ![e] = row]
    BY <1>1, <2>2
  <2>4. row \in Exam /\ row.certificate = exams[e].certificate
    BY <2>1, ExamOnFile, RequestOnFile DEF Exam
  <2>5. q \in RequestState /\ q.stage = "passed"
    BY <1>1 DEF RequestState, Stages
  <2>6. req' = [req EXCEPT ![r] = q] \/ req' = [req EXCEPT ![r] = Idle]
    BY <1>1, <1>2 DEF CommitGrade, GoTo, Finish
  <2>7. student' \in [Students -> Student] /\ history' \in [Students -> AtMostOne(Belts)]
    <3>1. /\ exams[e].of \in Students /\ exams[e].to \in Belts
          /\ \A t \in Students : [student[t] EXCEPT !.belt = exams[e].to] \in Student
      BY <1>1, ExamOnFile DEF Student
    <3>2. student' = student \/ student' = [student EXCEPT ![exams[e].of].belt = exams[e].to]
      BY <1>2 DEF CommitGrade
    <3>3. history' = history
            \/ history' = [history EXCEPT ![exams[e].of] = {exams[e].to}]
      BY <1>2 DEF CommitGrade
    <3> QED BY <1>1, <3>1, <3>2, <3>3, One
  <2> HIDE DEF q, row
  <2>8. Sound(q)
    BY <2>5 DEF Sound
  <2>9. /\ row.certificate # 0 => /\ row.certificate \in DOMAIN certificates
                                  /\ certificates[row.certificate].exam = e
        /\ UNCHANGED certificates
    BY <1>2, <2>4, ExamOnFile DEF CommitGrade
  <2>10. disturbed' \subseteq Students
    BY <1>2, ExamOnFile, AfterTyped DEF CommitGrade, Typed, TypeOK
  <2> QED BY <2>3, <2>4, <2>6, <2>7, <2>8, <2>9, <2>10, IdleSound, ExamTyped
<1>3. CASE RemoveExam(r, e)
  <2> DEFINE row == [exams[e] EXCEPT !.deleted = TRUE]
  <2>1. row \in Exam /\ row.certificate = exams[e].certificate
    BY ExamOnFile DEF Exam
  <2>2. exams' = [exams EXCEPT ![e] = row]
    BY <1>3 DEF RemoveExam
  <2> HIDE DEF row
  <2>3. /\ row.certificate # 0 => /\ row.certificate \in DOMAIN certificates
                                  /\ certificates[row.certificate].exam = e
        /\ UNCHANGED <<student, history, certificates, disturbed>>
        /\ req' = [req EXCEPT ![r] = Idle]
    BY <1>3, <2>1, ExamOnFile DEF RemoveExam, Finish
  <2> QED BY <1>1, <2>1, <2>2, <2>3, IdleSound, ExamTyped
<1>4. CASE LinkCertificate(r, e)
  <2> DEFINE row == [exams[e] EXCEPT !.certificate = req[r].seen]
  <2>1. row \in Exam /\ row.certificate = req[r].seen
    BY ExamOnFile, RequestOnFile DEF Exam
  <2>2. exams' = [exams EXCEPT ![e] = row]
    BY <1>4 DEF LinkCertificate
  <2>3. req[r].seen \in DOMAIN certificates /\ certificates[req[r].seen].exam = e
    BY <1>4 DEF LinkCertificate, Typed, Sound
  <2> HIDE DEF row
  <2> QED BY <1>1, <1>4, <2>1, <2>2, <2>3, IdleSound, ExamTyped DEF LinkCertificate, Finish
<1> QED BY <1>2, <1>3, <1>4

LEMMA ScheduleTyped ==
    ASSUME Typed, NEW r \in Requests, NEW s \in Students, NEW to \in Belts, Schedule(r, s, to)
    PROVE  Typed'
<1> DEFINE row == [of |-> s, to |-> to, result |-> "PENDING", deleted |-> FALSE,
                   certificate |-> 0, reopened |-> 0]
<1>1. row \in Exam /\ row.certificate = 0
  BY DEF Exam, ExamResult
<1>2. exams' = Append(exams, row) /\ UNCHANGED <<student, history, certificates, req, disturbed>>
  BY DEF Schedule
<1> HIDE DEF row
<1>3. /\ exams' \in Seq(Exam)
      /\ \A e \in DOMAIN exams' : (e \in DOMAIN exams /\ exams'[e] = exams[e]) \/ exams'[e] = row
  BY <1>1, <1>2 DEF Typed, TypeOK
<1>4. \A e \in DOMAIN exams' : exams'[e].certificate # 0 =>
          /\ exams'[e].certificate \in DOMAIN certificates
          /\ certificates[exams'[e].certificate].exam = e
  BY <1>1, <1>3, ExamOnFile
<1> QED BY <1>2, <1>3, <1>4 DEF Typed, TypeOK, Sound

LEMMA IssuesTyped ==
    ASSUME Typed, NEW r \in Requests,
           \/ \E s \in Students : InsertCertificate(r, s)
           \/ \E c \in DOMAIN certificates : Revoke(r, c)
    PROVE  Typed'
<1>1. /\ req \in [Requests -> RequestState] /\ req[r] \in RequestState /\ Sound(req[r])
      /\ certificates \in Seq(Certificate)
  BY RequestOnFile DEF Typed, TypeOK
<1>2. ASSUME NEW s \in Students, InsertCertificate(r, s) PROVE Typed'
  <2> DEFINE row == [of |-> s, exam |-> req[r].exam, revoked |-> FALSE]
  <2>1. row \in Certificate /\ row.exam = req[r].exam
    BY RequestOnFile DEF Certificate
  <2>q. PICK q : q = [req[r] EXCEPT !.stage = "link", !.seen = NewCertificate]
    OBVIOUS
  <2>2. /\ certificates' = Append(certificates, row)
        /\ req' = [req EXCEPT ![r] = q] \/ req' = [req EXCEPT ![r] = Idle]
        /\ UNCHANGED <<student, history, exams, disturbed>>
    BY <1>1, <1>2, <2>q DEF InsertCertificate, Finish
  <2>3. NewCertificate \in Nat
    BY <1>1 DEF NewCertificate
  <2>4. q \in RequestState /\ q.seen = NewCertificate /\ q.exam = req[r].exam
    BY <1>1, <2>3, <2>q DEF RequestState, Stages
  <2> HIDE DEF row
  <2>5. /\ certificates' \in Seq(Certificate) /\ DOMAIN certificates \subseteq DOMAIN certificates'
        /\ \A c \in DOMAIN certificates : certificates'[c] = certificates[c]
        /\ NewCertificate \in DOMAIN certificates' /\ certificates'[NewCertificate] = row
    BY <1>1, <2>1, <2>2 DEF NewCertificate
  <2>6. Sound(q)'
    BY <2>1, <2>4, <2>5 DEF Sound
  <2> QED BY <2>2, <2>5, <2>6, IdleSound, CertificatesTyped
<1>3. ASSUME NEW c \in DOMAIN certificates, Revoke(r, c) PROVE Typed'
  <2> DEFINE row == [certificates[c] EXCEPT !.revoked = TRUE]
  <2>1. certificates[c] \in Certificate
    BY <1>1
  <2>2. row \in Certificate /\ row.exam = certificates[c].exam
    BY <2>1 DEF Certificate
  <2>3. /\ certificates' = [certificates EXCEPT ![c] = row] /\ req' = [req EXCEPT ![r] = req[r]]
        /\ UNCHANGED <<student, history, exams, disturbed>>
    BY <1>1, <1>3 DEF Revoke
  <2> HIDE DEF row
  <2>4. /\ certificates' \in Seq(Certificate) /\ DOMAIN certificates' = DOMAIN certificates
        /\ \A d \in DOMAIN certificates : certificates'[d].exam = certificates[d].exam
    BY <1>1, <2>2, <2>3
  <2>6. \A p \in Requests : Sound(req[p])'
    BY <2>3, <2>4 DEF Typed, Sound
  <2>7. \A e \in DOMAIN exams : exams[e].certificate # 0 =>
          /\ exams[e].certificate \in DOMAIN certificates'
          /\ certificates'[exams[e].certificate].exam = e
    BY <2>4, ExamOnFile
  <2> QED BY <1>3, <2>3, <2>4, <2>6, <2>7 DEF Typed, TypeOK, Revoke
<1> QED BY <1>2, <1>3

LEMMA ReadsTyped ==
    ASSUME Typed, NEW r \in Requests,
           \/ \E s \in Students, belt \in Belts : ReadForUpdate(r, s, belt)
           \/ \E s \in Students : CheckByHand(r, s)
           \/ \E e \in DOMAIN exams :
                 \/ \E result \in ResultInputs, issue \in BOOLEAN : ReadForGrade(r, e, result, issue)
                 \/ ReadForRemove(r, e) \/ CheckPassed(r, e)
           \/ CountCertificates(r) \/ Abandon(r)
    PROVE  Typed'
<1>a. /\ student \in [Students -> Student] /\ history \in [Students -> AtMostOne(Belts)]
      /\ disturbed \subseteq Students /\ req \in [Requests -> RequestState]
      /\ req[r] \in RequestState /\ certificates \in Seq(Certificate)
      /\ Belts \subseteq Nat
  BY RequestOnFile, GradingAssumption DEF Typed, TypeOK, Belts
<1>1. ASSUME NEW s \in Students, NEW belt \in Belts, ReadForUpdate(r, s, belt) PROVE Typed'
  <2> DEFINE q == [Idle EXCEPT !.stage = "belt", !.of = {s}, !.belt = belt, !.seen = student[s].belt]
  <2>a. student[s] \in Student
    BY <1>a
  <2>b. student[s].belt \in Nat
    BY <1>a, <2>a DEF Student
  <2>1. q \in RequestState /\ q.stage = "belt"
    BY <2>b, IdleTyped DEF Idle, RequestState, Stages
  <2>2. req' = [req EXCEPT ![r] = q] /\ UNCHANGED Rows
    BY <1>1 DEF ReadForUpdate, Begin
  <2> HIDE DEF q
  <2> QED BY <1>a, <2>1, <2>2, MoveTyped DEF Sound, Rows
<1>2. ASSUME NEW s \in Students, CheckByHand(r, s) PROVE Typed'
  <2> DEFINE q == [Idle EXCEPT !.stage = "certify", !.of = {s}]
  <2>1. q \in RequestState /\ q.stage = "certify"
    BY IdleTyped DEF Idle, RequestState, Stages
  <2>2. req' = [req EXCEPT ![r] = q] /\ UNCHANGED Rows
    BY <1>2 DEF CheckByHand, Begin
  <2> HIDE DEF q
  <2> QED BY <1>a, <2>1, <2>2, MoveTyped DEF Sound, Rows
<1>3. ASSUME NEW e \in DOMAIN exams, NEW result \in ResultInputs, NEW issue \in BOOLEAN,
             ReadForGrade(r, e, result, issue)
      PROVE  Typed'
  <2> DEFINE q == [Idle EXCEPT !.stage = "grade", !.exam = e, !.result = result, !.issue = issue]
  <2>1. q \in RequestState /\ q.stage = "grade"
    BY ExamOnFile, GradingAssumption, IdleTyped DEF Idle, RequestState, Stages
  <2>2. req' = [req EXCEPT ![r] = q] /\ UNCHANGED Rows
    BY <1>3 DEF ReadForGrade, Begin
  <2> HIDE DEF q
  <2> QED BY <1>a, <2>1, <2>2, MoveTyped DEF Sound, Rows
<1>4. ASSUME NEW e \in DOMAIN exams, ReadForRemove(r, e) PROVE Typed'
  <2> DEFINE q == [Idle EXCEPT !.stage = "remove", !.exam = e]
  <2>1. q \in RequestState /\ q.stage = "remove"
    BY ExamOnFile, IdleTyped DEF Idle, RequestState, Stages
  <2>2. req' = [req EXCEPT ![r] = q] /\ UNCHANGED Rows
    BY <1>4 DEF ReadForRemove, Begin
  <2> HIDE DEF q
  <2> QED BY <1>a, <2>1, <2>2, MoveTyped DEF Sound, Rows
<1>5. ASSUME NEW e \in DOMAIN exams, CheckPassed(r, e) PROVE Typed'
  <2> DEFINE q == [req[r] EXCEPT !.stage = "certify", !.of = {exams[e].of}]
  <2>1. q \in RequestState /\ q.stage = "certify"
    BY <1>a, ExamOnFile DEF RequestState, Stages
  <2>2. req' = [req EXCEPT ![r] = q] /\ UNCHANGED Rows
    BY <1>a, <1>5 DEF CheckPassed
  <2> HIDE DEF q
  <2> QED BY <1>a, <2>1, <2>2, MoveTyped DEF Sound, Rows
<1>6. CASE CountCertificates(r)
  <2> DEFINE q == [req[r] EXCEPT !.stage = "number", !.seen = Len(certificates)]
  <2>a. Len(certificates) \in Nat
    BY <1>a
  <2>1. q \in RequestState /\ q.stage = "number"
    BY <1>a, <2>a DEF RequestState, Stages
  <2>2. req' = [req EXCEPT ![r] = q] /\ UNCHANGED Rows
    BY <1>a, <1>6 DEF CountCertificates
  <2> HIDE DEF q
  <2> QED BY <1>a, <2>1, <2>2, MoveTyped DEF Sound, Rows
<1>7. CASE Abandon(r)
  <2>1. disturbed' \subseteq Students
    BY <1>a, <1>7, RequestOnFile DEF Abandon
  <2> QED BY <1>a, <1>7, <2>1, IdleSound, MoveTyped DEF Abandon, Finish
<1> QED BY <1>1, <1>2, <1>3, <1>4, <1>5, <1>6, <1>7

LEMMA StepTyped == Typed /\ [Next]_vars => Typed'
<1>1. ASSUME Typed, UNCHANGED vars PROVE Typed'
  BY <1>1 DEF Typed, TypeOK, Sound, vars
<1> QED BY <1>1, StudentsTyped, ExamsTyped, ScheduleTyped, IssuesTyped, ReadsTyped DEF Next, Serve

\* Students, exams, certificates and requests keep their types, and the certificate that an
\* exam links to is one issued for that exam (BeltsService, CertificatesService).
THEOREM TypesCorrect == Spec => []TypeOK
<1> QED BY InitTyped, StepTyped, PTL DEF Spec, Typed

-----------------------------------------------------------------------------
(* Final results.                                                          *)

Standing(e) == Exists(e) /\ exams[e].result \in Final /\ Grading(e) = {}
StillStanding(e) ==
    Grading(e)' = {} /\ exams'[e].result = exams[e].result /\ ~exams'[e].deleted

LEMMA NobodyGrades ==
    ASSUME Typed, NEW e, Grading(e) = {}, NEW r \in Requests, NEW q,
           q.exam # e \/ q.stage \notin {"grade", "remove"}, req' = [req EXCEPT ![r] = q]
    PROVE  Grading(e)' = {}
<1>1. \A p \in Requests : req'[p] = IF p = r THEN q ELSE req[p]
  BY DEF Typed, TypeOK
<1> QED BY <1>1 DEF Grading

\* A request that leaves the exams alone and goes neither to grade nor to remove this one.
LEMMA LeftStanding ==
    ASSUME Typed, NEW e, Standing(e), NEW r \in Requests, NEW q,
           q.exam # e \/ q.stage \notin {"grade", "remove"}, req' = [req EXCEPT ![r] = q],
           UNCHANGED exams
    PROVE  StillStanding(e)
BY NobodyGrades DEF Standing, StillStanding, Exists

LEMMA ReadsLeaveStanding ==
    ASSUME Typed, NEW e \in DOMAIN exams, Standing(e), NEW r \in Requests,
           \/ \E s \in Students, belt \in Belts : ReadForUpdate(r, s, belt)
           \/ \E s \in Students : CheckByHand(r, s) \/ WriteBelt(r, s) \/ RecordBelt(r, s)
                                     \/ InsertCertificate(r, s)
           \/ \E d \in DOMAIN exams :
                 \/ \E result \in ResultInputs, issue \in BOOLEAN : ReadForGrade(r, d, result, issue)
                 \/ ReadForRemove(r, d) \/ CheckPassed(r, d)
           \/ CountCertificates(r) \/ Abandon(r)
    PROVE  StillStanding(e)
<1>a. req \in [Requests -> RequestState] /\ req[r] \in RequestState /\ Idle.stage = "idle"
  BY IdleTyped, RequestOnFile DEF Typed, TypeOK
<1>1. ASSUME NEW s \in Students, NEW belt \in Belts, ReadForUpdate(r, s, belt)
      PROVE  StillStanding(e)
  <2>1. PICK q : q = [Idle EXCEPT !.stage = "belt", !.of = {s}, !.belt = belt,
                                  !.seen = student[s].belt]
    OBVIOUS
  <2>2. q.stage = "belt"
    BY <2>1 DEF Idle
  <2>3. req' = [req EXCEPT ![r] = q] /\ UNCHANGED exams
    BY <1>1, <2>1 DEF ReadForUpdate, Begin, Rows
  <2> QED BY <2>2, <2>3, LeftStanding
<1>2. ASSUME NEW s \in Students, CheckByHand(r, s) PROVE StillStanding(e)
  <2>1. PICK q : q = [Idle EXCEPT !.stage = "certify", !.of = {s}]
    OBVIOUS
  <2>2. q.stage = "certify"
    BY <2>1 DEF Idle
  <2>3. req' = [req EXCEPT ![r] = q] /\ UNCHANGED exams
    BY <1>2, <2>1 DEF CheckByHand, Begin, Rows
  <2> QED BY <2>2, <2>3, LeftStanding
<1>3. ASSUME NEW s \in Students, WriteBelt(r, s) PROVE StillStanding(e)
  <2>1. PICK q : q = [req[r] EXCEPT !.stage = "record"]
    OBVIOUS
  <2>2. q.stage = "record"
    BY <1>a, <2>1 DEF RequestState
  <2>3. req' = [req EXCEPT ![r] = q] \/ req' = [req EXCEPT ![r] = Idle]
    BY <1>a, <1>3, <2>1 DEF WriteBelt, GoTo, Finish
  <2> QED BY <1>a, <1>3, <2>2, <2>3, LeftStanding DEF WriteBelt
<1>4. ASSUME NEW s \in Students, RecordBelt(r, s) PROVE StillStanding(e)
  BY <1>a, <1>4, LeftStanding DEF RecordBelt, Finish
<1>5. ASSUME NEW s \in Students, InsertCertificate(r, s) PROVE StillStanding(e)
  <2>1. PICK q : q = [req[r] EXCEPT !.stage = "link", !.seen = NewCertificate]
    OBVIOUS
  <2>2. q.stage = "link"
    BY <1>a, <2>1 DEF RequestState
  <2>3. req' = [req EXCEPT ![r] = q] \/ req' = [req EXCEPT ![r] = Idle]
    BY <1>a, <1>5, <2>1 DEF InsertCertificate, Finish
  <2> QED BY <1>a, <1>5, <2>2, <2>3, LeftStanding DEF InsertCertificate
<1>6. ASSUME NEW d \in DOMAIN exams, NEW result \in ResultInputs, NEW issue \in BOOLEAN,
             ReadForGrade(r, d, result, issue)
      PROVE  StillStanding(e)
  <2>1. PICK q : q = [Idle EXCEPT !.stage = "grade", !.exam = d, !.result = result, !.issue = issue]
    OBVIOUS
  <2>2. q.exam = d /\ d # e
    BY <1>6, <2>1 DEF Idle, ReadForGrade, Ungraded, Standing
  <2>3. req' = [req EXCEPT ![r] = q] /\ UNCHANGED exams
    BY <1>6, <2>1 DEF ReadForGrade, Begin, Rows
  <2> QED BY <2>2, <2>3, LeftStanding
<1>7. ASSUME NEW d \in DOMAIN exams, ReadForRemove(r, d) PROVE StillStanding(e)
  <2>1. PICK q : q = [Idle EXCEPT !.stage = "remove", !.exam = d]
    OBVIOUS
  <2>2. q.exam = d /\ d # e
    BY <1>7, <2>1 DEF Idle, ReadForRemove, Standing, Final
  <2>3. req' = [req EXCEPT ![r] = q] /\ UNCHANGED exams
    BY <1>7, <2>1 DEF ReadForRemove, Begin, Rows
  <2> QED BY <2>2, <2>3, LeftStanding
<1>8. ASSUME NEW d \in DOMAIN exams, CheckPassed(r, d) PROVE StillStanding(e)
  <2>1. PICK q : q = [req[r] EXCEPT !.stage = "certify", !.of = {exams[d].of}]
    OBVIOUS
  <2>2. q.stage = "certify"
    BY <1>a, <2>1 DEF RequestState
  <2>3. req' = [req EXCEPT ![r] = q] /\ UNCHANGED exams
    BY <1>a, <1>8, <2>1 DEF CheckPassed, Rows
  <2> QED BY <2>2, <2>3, LeftStanding
<1>9. CASE CountCertificates(r)
  <2>1. PICK q : q = [req[r] EXCEPT !.stage = "number", !.seen = Len(certificates)]
    OBVIOUS
  <2>2. q.stage = "number"
    BY <1>a, <2>1 DEF RequestState
  <2>3. req' = [req EXCEPT ![r] = q] /\ UNCHANGED exams
    BY <1>a, <1>9, <2>1 DEF CountCertificates, Rows
  <2> QED BY <2>2, <2>3, LeftStanding
<1>10. CASE Abandon(r)
  BY <1>a, <1>10, LeftStanding DEF Abandon, Finish
<1> QED BY <1>1, <1>2, <1>3, <1>4, <1>5, <1>6, <1>7, <1>8, <1>9, <1>10

\* The steps that write exams write others, or not the result.
LEMMA WritesLeaveStanding ==
    ASSUME Typed, NEW e \in DOMAIN exams, Standing(e), NEW r \in Requests, NEW d \in DOMAIN exams,
           CommitGrade(r, d) \/ RemoveExam(r, d) \/ LinkCertificate(r, d)
    PROVE  StillStanding(e)
<1>a. /\ req \in [Requests -> RequestState] /\ req[r] \in RequestState /\ Idle.stage = "idle"
      /\ exams \in Seq(Exam) /\ exams[e] \in Exam /\ exams[d] \in Exam
      /\ Grading(e) = {} /\ ~exams[e].deleted
  BY IdleTyped, RequestOnFile, ExamOnFile DEF Typed, TypeOK, Standing, Exists
<1>1. CASE CommitGrade(r, d) \/ RemoveExam(r, d)
  <2>1. d # e
    BY <1>a, <1>1 DEF Grading, CommitGrade, RemoveExam
  <2>2. exams'[e] = exams[e]
    BY <1>a, <1>1, <2>1 DEF CommitGrade, RemoveExam
  <2>3. PICK q : q = [req[r] EXCEPT !.stage = "passed"]
    OBVIOUS
  <2>4. q.stage = "passed"
    BY <1>a, <2>3 DEF RequestState
  <2>5. req' = [req EXCEPT ![r] = q] \/ req' = [req EXCEPT ![r] = Idle]
    BY <1>a, <1>1, <2>3 DEF CommitGrade, RemoveExam, GoTo, Finish
  <2>6. Grading(e)' = {}
    BY <1>a, <2>4, <2>5, NobodyGrades
  <2> QED BY <1>a, <2>2, <2>6 DEF StillStanding
<1>2. CASE LinkCertificate(r, d)
  <2>1. exams'[e].result = exams[e].result /\ exams'[e].deleted = exams[e].deleted
    BY <1>a, <1>2 DEF LinkCertificate, Exam
  <2>2. Grading(e)' = {}
    BY <1>a, <1>2, NobodyGrades DEF LinkCertificate, Finish
  <2> QED BY <1>a, <2>1, <2>2 DEF StillStanding
<1> QED BY <1>1, <1>2

LEMMA StepLeavesStanding ==
    ASSUME Typed, NEW e \in DOMAIN exams, Standing(e), [Next]_vars
    PROVE  StillStanding(e)
<1>1. ASSUME UNCHANGED req, exams'[e] = exams[e] PROVE StillStanding(e)
  BY <1>1 DEF Standing, StillStanding, Grading, Exists
<1>2. ASSUME NEW r \in Requests, NEW s \in Students, NEW to \in Belts, Schedule(r, s, to)
      PROVE  StillStanding(e)
  <2>1. PICK row : exams' = Append(exams, row) /\ UNCHANGED req
    BY <1>2 DEF Schedule
  <2>2. exams'[e] = exams[e]
    BY <2>1 DEF Typed, TypeOK
  <2> QED BY <1>1, <2>1, <2>2
<1>3. ASSUME NEW r \in Requests, NEW s \in Students,
             RemoveStudent(r, s) \/ \E belt \in Belts : Admit(r, s, belt)
      PROVE  StillStanding(e)
  BY <1>1, <1>3 DEF RemoveStudent, Admit
<1>4. ASSUME NEW r \in Requests, NEW c \in DOMAIN certificates, Revoke(r, c) PROVE StillStanding(e)
  BY <1>1, <1>4 DEF Revoke
<1>5. CASE UNCHANGED vars
  BY <1>1, <1>5 DEF vars
<1> QED BY <1>2, <1>3, <1>4, <1>5, ReadsLeaveStanding, WritesLeaveStanding DEF Next, Serve

\* grade and remove read the exam and write it later (BeltsService): when every request that
\* found it ungraded is through, a final result and its exam stay for good.
THEOREM ResultsFinal == Spec => ResultStands
<1>1. Typed /\ [Next]_vars =>
         [\A e \in DOMAIN exams :
             Exists(e) /\ exams[e].result \in Final /\ Grading(e) = {} =>
                /\ Grading(e)' = {}
                /\ exams'[e].result = exams[e].result /\ ~exams'[e].deleted]_vars
  BY StepLeavesStanding DEF Standing, StillStanding
<1> QED BY <1>1, InitTyped, StepTyped, PTL DEF Spec, ResultStands

-----------------------------------------------------------------------------
(* Belts and what the history says of them.                                *)

\* The belt of s is told: by the history, or by every update that is about to enter it.
Told(s) == {student[s].belt} = IF Due(s) = {} THEN LastTold(s) ELSE Recording(s)

Recorded ==
    /\ \A s \in Students : student[s].row # "none" /\ s \notin disturbed => Told(s)
    /\ \A r \in Requests : req[r].stage \in {"belt", "record"} =>
          \E s \in Students : req[r].of = {s} /\ student[s].row # "none"

\* A step of r that neither starts an update nor is about to record one.
Elsewhere(r) ==
    /\ \A p \in Requests : p # r => req'[p] = req[p]
    /\ req'[r].stage \notin {"belt", "record"}
    /\ req[r].stage # "record"

LEMMA ReadsElsewhere ==
    ASSUME Typed, NEW r \in Requests,
           \/ \E s \in Students : CheckByHand(r, s)
           \/ \E e \in DOMAIN exams :
                 \/ \E result \in ResultInputs, issue \in BOOLEAN : ReadForGrade(r, e, result, issue)
                 \/ ReadForRemove(r, e) \/ CheckPassed(r, e)
           \/ CountCertificates(r)
    PROVE  Elsewhere(r)
<1>a. req \in [Requests -> RequestState] /\ req[r] \in RequestState /\ Idle.stage = "idle"
  BY IdleTyped, RequestOnFile DEF Typed, TypeOK
<1>b. ASSUME NEW q, q.stage \notin {"belt", "record"}, req' = [req EXCEPT ![r] = q],
             req[r].stage # "record"
      PROVE  Elsewhere(r)
  BY <1>a, <1>b DEF Elsewhere
<1>1. ASSUME NEW s \in Students, CheckByHand(r, s) PROVE Elsewhere(r)
  <2>1. PICK q : q = [Idle EXCEPT !.stage = "certify", !.of = {s}]
    OBVIOUS
  <2>2. q.stage = "certify"
    BY <1>a, <2>1 DEF Idle, RequestState
  <2>3. /\ req' = [req EXCEPT ![r] = q]
        /\ req[r].stage # "record"
    BY <1>a, <1>1, <2>1 DEF CheckByHand, Begin, IsIdle, GoTo, Finish
  <2> QED BY <1>a, <1>b, <2>2, <2>3
<1>2. ASSUME NEW e \in DOMAIN exams, NEW result \in ResultInputs, NEW issue \in BOOLEAN,
             ReadForGrade(r, e, result, issue)
      PROVE  Elsewhere(r)
  <2>1. PICK q : q = [Idle EXCEPT !.stage = "grade", !.exam = e, !.result = result, !.issue = issue]
    OBVIOUS
  <2>2. q.stage = "grade"
    BY <1>a, <2>1 DEF Idle, RequestState
  <2>3. /\ req' = [req EXCEPT ![r] = q]
        /\ req[r].stage # "record"
    BY <1>a, <1>2, <2>1 DEF ReadForGrade, Begin, IsIdle, GoTo, Finish
  <2> QED BY <1>a, <1>b, <2>2, <2>3
<1>3. ASSUME NEW e \in DOMAIN exams, ReadForRemove(r, e) PROVE Elsewhere(r)
  <2>1. PICK q : q = [Idle EXCEPT !.stage = "remove", !.exam = e]
    OBVIOUS
  <2>2. q.stage = "remove"
    BY <1>a, <2>1 DEF Idle, RequestState
  <2>3. /\ req' = [req EXCEPT ![r] = q]
        /\ req[r].stage # "record"
    BY <1>a, <1>3, <2>1 DEF ReadForRemove, Begin, IsIdle, GoTo, Finish
  <2> QED BY <1>a, <1>b, <2>2, <2>3
<1>4. ASSUME NEW e \in DOMAIN exams, CheckPassed(r, e) PROVE Elsewhere(r)
  <2>1. PICK q : q = [req[r] EXCEPT !.stage = "certify", !.of = {exams[e].of}]
    OBVIOUS
  <2>2. q.stage = "certify"
    BY <1>a, <2>1 DEF Idle, RequestState
  <2>3. /\ req' = [req EXCEPT ![r] = q]
        /\ req[r].stage # "record"
    BY <1>a, <1>4, <2>1 DEF CheckPassed, Begin, IsIdle, GoTo, Finish
  <2> QED BY <1>a, <1>b, <2>2, <2>3
<1>5. CASE CountCertificates(r)
  <2>1. PICK q : q = [req[r] EXCEPT !.stage = "number", !.seen = Len(certificates)]
    OBVIOUS
  <2>2. q.stage = "number"
    BY <1>a, <2>1 DEF Idle, RequestState
  <2>3. /\ req' = [req EXCEPT ![r] = q]
        /\ req[r].stage # "record"
    BY <1>a, <1>5, <2>1 DEF CountCertificates, Begin, IsIdle, GoTo, Finish
  <2> QED BY <1>a, <1>b, <2>2, <2>3
<1> QED BY <1>1, <1>2, <1>3, <1>4, <1>5

LEMMA WritesElsewhere ==
    ASSUME Typed, NEW r \in Requests,
           \/ \E s \in Students :
                 \/ \E belt \in Belts : Admit(r, s, belt) \/ Schedule(r, s, belt)
                 \/ RemoveStudent(r, s) \/ InsertCertificate(r, s)
           \/ \E e \in DOMAIN exams : CommitGrade(r, e) \/ RemoveExam(r, e) \/ LinkCertificate(r, e)
           \/ \E c \in DOMAIN certificates : Revoke(r, c)
    PROVE  Elsewhere(r)
<1>a. req \in [Requests -> RequestState] /\ req[r] \in RequestState /\ Idle.stage = "idle"
  BY IdleTyped, RequestOnFile DEF Typed, TypeOK
<1>b. ASSUME NEW q, q.stage \notin {"belt", "record"}, req' = [req EXCEPT ![r] = q],
             req[r].stage # "record"
      PROVE  Elsewhere(r)
  BY <1>a, <1>b DEF Elsewhere
<1>c. ASSUME UNCHANGED req, IsIdle(r) PROVE Elsewhere(r)
  BY <1>c DEF Elsewhere, IsIdle
<1>1. ASSUME NEW s \in Students, NEW belt \in Belts, Admit(r, s, belt) \/ Schedule(r, s, belt)
      PROVE  Elsewhere(r)
  BY <1>c, <1>1 DEF Admit, Schedule
<1>2. ASSUME NEW s \in Students, RemoveStudent(r, s) PROVE Elsewhere(r)
  BY <1>c, <1>2 DEF RemoveStudent
<1>3. ASSUME NEW s \in Students, InsertCertificate(r, s) PROVE Elsewhere(r)
  <2>1. PICK q : q = [req[r] EXCEPT !.stage = "link", !.seen = NewCertificate]
    OBVIOUS
  <2>2. q.stage = "link"
    BY <1>a, <2>1 DEF RequestState
  <2>3. /\ req' = [req EXCEPT ![r] = q] \/ req' = [req EXCEPT ![r] = Idle]
        /\ req[r].stage # "record"
    BY <1>a, <1>3, <2>1 DEF InsertCertificate, Finish
  <2> QED BY <1>a, <1>b, <2>2, <2>3
<1>4. ASSUME NEW e \in DOMAIN exams, CommitGrade(r, e) PROVE Elsewhere(r)
  <2>1. PICK q : q = [req[r] EXCEPT !.stage = "passed"]
    OBVIOUS
  <2>2. q.stage = "passed"
    BY <1>a, <2>1 DEF RequestState
  <2>3. /\ req' = [req EXCEPT ![r] = q] \/ req' = [req EXCEPT ![r] = Idle]
        /\ req[r].stage # "record"
    BY <1>a, <1>4, <2>1 DEF CommitGrade, GoTo, Finish
  <2> QED BY <1>a, <1>b, <2>2, <2>3
<1>5. ASSUME NEW e \in DOMAIN exams, RemoveExam(r, e) \/ LinkCertificate(r, e) PROVE Elsewhere(r)
  <2>1. req' = [req EXCEPT ![r] = Idle] /\ req[r].stage # "record"
    BY <1>5 DEF RemoveExam, LinkCertificate, Finish
  <2> QED BY <1>a, <1>b, <2>1
<1>6. ASSUME NEW c \in DOMAIN certificates, Revoke(r, c) PROVE Elsewhere(r)
  BY <1>c, <1>6 DEF Revoke
<1> QED BY <1>1, <1>2, <1>3, <1>4, <1>5, <1>6

\* Rows are never forgotten.
LEMMA RowsStay ==
    ASSUME Typed, NEW r \in Requests, Serve(r), NEW s \in Students, student[s].row # "none"
    PROVE  student'[s].row # "none"
<1>a. student \in [Students -> Student] /\ student[s] \in Student
  BY DEF Typed, TypeOK
<1>1. ASSUME NEW t \in Students, NEW belt \in Belts, Admit(r, t, belt)
      PROVE  student'[s] = student[s]
  BY <1>a, <1>1 DEF Admit
<1>2. ASSUME NEW t \in Students, RemoveStudent(r, t) \/ WriteBelt(r, t)
      PROVE  student'[s].row # "none"
  BY <1>a, <1>2 DEF RemoveStudent, WriteBelt, Student
<1>3. ASSUME NEW e \in DOMAIN exams, CommitGrade(r, e)
      PROVE  student'[s].row # "none"
  <2>1. student' = student \/ student' = [student EXCEPT ![exams[e].of].belt = exams[e].to]
    BY <1>3 DEF CommitGrade
  <2> QED BY <1>a, <2>1 DEF Student
<1> QED BY <1>1, <1>2, <1>3
        DEF Serve, ReadForUpdate, RecordBelt, Schedule, CheckByHand, InsertCertificate,
            ReadForGrade, ReadForRemove, RemoveExam, CheckPassed, LinkCertificate, Revoke,
            CountCertificates, Abandon, Rows

LEMMA Shapes ==
    ASSUME Typed, NEW r \in Requests, Serve(r)
    PROVE  \/ Elsewhere(r)
           \/ \E s \in Students, belt \in Belts : ReadForUpdate(r, s, belt)
           \/ \E s \in Students : WriteBelt(r, s) \/ RecordBelt(r, s)
           \/ Abandon(r)
BY ReadsElsewhere, WritesElsewhere DEF Serve

\* Only the request itself moves.
LEMMA OthersStay ==
    ASSUME Typed, NEW r \in Requests, Serve(r), NEW p \in Requests, p # r
    PROVE  req'[p] = req[p]
<1>a. req \in [Requests -> RequestState]
  BY DEF Typed, TypeOK
<1>1. CASE Elsewhere(r)
  BY <1>1 DEF Elsewhere
<1>2. ASSUME NEW s \in Students, NEW belt \in Belts, ReadForUpdate(r, s, belt)
      PROVE  req'[p] = req[p]
  BY <1>a, <1>2 DEF ReadForUpdate, Begin
<1>3. ASSUME NEW s \in Students, WriteBelt(r, s) PROVE req'[p] = req[p]
  BY <1>a, <1>3 DEF WriteBelt, GoTo, Finish
<1>4. ASSUME NEW s \in Students, RecordBelt(r, s) PROVE req'[p] = req[p]
  BY <1>a, <1>4 DEF RecordBelt, Finish
<1>5. CASE Abandon(r)
  BY <1>a, <1>5 DEF Abandon, Finish
<1> QED BY <1>1, <1>2, <1>3, <1>4, <1>5, Shapes

\* A step that starts or ends no writing of a belt leaves the entries that are due.
LEMMA DueKept ==
    ASSUME NEW r \in Requests, \A p \in Requests : p # r => req'[p] = req[p],
           req[r].stage # "record", req'[r].stage # "record", NEW s \in Students
    PROVE  Due(s)' = Due(s) /\ Recording(s)' = Recording(s)
<1>1. \A p \in Requests : p \in Due(s)' <=> p \in Due(s)
  BY DEF Due
<1>2. Due(s)' = Due(s)
  BY <1>1 DEF Due
<1>3. \A p \in Due(s) : req'[p].belt = req[p].belt
  BY DEF Due
<1> QED BY <1>2, <1>3 DEF Recording

\* What was told is told still, if neither the belt nor what tells it moved.
LEMMA ToldKept ==
    ASSUME NEW s \in Students, Told(s), Due(s)' = Due(s), Recording(s)' = Recording(s),
           student'[s].belt = student[s].belt, student'[s].admitted = student[s].admitted,
           history'[s] = history[s]
    PROVE  Told(s)'
BY DEF Told, LastTold

\* An entry is due of a student that was admitted.
LEMMA DueOnFile ==
    ASSUME Recorded, NEW s \in Students, Due(s) # {}
    PROVE  student[s].row # "none"
BY DEF Recorded, Due

LEMMA AdmitTold ==
    ASSUME Typed, Recorded, NEW r \in Requests, NEW t \in Students, NEW belt \in Belts,
           Admit(r, t, belt), NEW s \in Students, student'[s].row # "none", s \notin disturbed'
    PROVE  Told(s)'
<1>a. /\ student \in [Students -> Student] /\ history \in [Students -> AtMostOne(Belts)]
  BY DEF Typed, TypeOK
<1>1. Due(s)' = Due(s) /\ Recording(s)' = Recording(s) /\ UNCHANGED disturbed
  BY DEF Admit, Due, Recording
<1>2. CASE t = s
  <2>1. Due(s) = {}
    BY <1>2, DueOnFile DEF Admit
  <2>2. student'[s].belt = belt /\ student'[s].admitted = belt /\ history'[s] = {}
    BY <1>a, <1>2 DEF Admit
  <2> QED BY <1>1, <2>1, <2>2 DEF Told, LastTold
<1>3. CASE t # s
  <2>1. student'[s] = student[s] /\ history'[s] = history[s]
    BY <1>a, <1>3 DEF Admit
  <2>2. Told(s)
    BY <1>1, <2>1 DEF Recorded
  <2> QED BY <1>1, <2>1, <2>2, ToldKept
<1> QED BY <1>2, <1>3

\* An update adds its entry to those that are due, or writes the belt it had read.
LEMMA WriteTold ==
    ASSUME Typed, Recorded, NEW r \in Requests, NEW t \in Students, WriteBelt(r, t),
           NEW s \in Students, student'[s].row # "none", s \notin disturbed'
    PROVE  Told(s)'
<1> DEFINE b == req[r].belt
<1>a. /\ student \in [Students -> Student] /\ student[s] \in Student
      /\ req \in [Requests -> RequestState] /\ req[r] \in RequestState
      /\ Idle.stage = "idle"
  BY IdleTyped, RequestOnFile DEF Typed, TypeOK
<1>b. /\ req[r].stage = "belt" /\ req[r].of = {t} /\ student[t].row # "none"
      /\ UNCHANGED history
  BY DEF WriteBelt, Recorded
<1>c. r \notin Due(s)
  BY <1>b DEF Due
<1>1. CASE t # s
  <2>1. student'[s] = student[s]
    BY <1>a, <1>1 DEF WriteBelt
  <2>2. s \notin disturbed
    BY <1>1 DEF WriteBelt, After
  <2>3. s \notin req[r].of
    BY <1>1, <1>b
  <2>4. /\ \A p \in Requests : p # r => req'[p] = req[p]
        /\ s \notin req'[r].of
    <3>1. CASE Differs(req[r])
      BY <1>a, <2>3, <3>1 DEF WriteBelt, GoTo, RequestState
    <3>2. CASE ~Differs(req[r])
      BY <1>a, <3>2, IdleTyped DEF WriteBelt, Finish
    <3> QED BY <3>1, <3>2
  <2>5. Due(s)' = Due(s) /\ Recording(s)' = Recording(s)
    <3>1. \A p \in Requests : p \in Due(s)' <=> p \in Due(s)
      BY <2>3, <2>4 DEF Due
    <3>2. Due(s)' = Due(s)
      BY <3>1 DEF Due
    <3>3. \A p \in Due(s) : req'[p].belt = req[p].belt
      BY <1>c, <2>4 DEF Due
    <3> QED BY <3>2, <3>3 DEF Recording
  <2>6. Told(s)
    BY <2>1, <2>2 DEF Recorded
  <2> QED BY <1>b, <2>1, <2>5, <2>6, ToldKept
<1>2. CASE t = s
  <2>1. student'[s].belt = b /\ student'[s].admitted = student[s].admitted
    BY <1>a, <1>2 DEF WriteBelt, Student
  <2>2. CASE Differs(req[r])
    <3>1. /\ \A p \in Requests : p # r => req'[p] = req[p]
          /\ req'[r].stage = "record" /\ s \in req'[r].of /\ req'[r].belt = b
      BY <1>a, <1>2, <1>b, <2>2 DEF WriteBelt, GoTo, RequestState
    <3>2. \A p \in Requests : p \in Due(s)' <=> p = r \/ p \in Due(s)
      BY <3>1 DEF Due
    <3>3. \A p \in Due(s)' : req'[p].belt = IF p = r THEN b ELSE req[p].belt
      BY <3>1 DEF Due
    <3>4. Due(s) = {} \/ (student[s].belt = b /\ s \notin disturbed)
      BY <1>2, <2>2 DEF WriteBelt, After, Differs
    <3>5. ASSUME Due(s) # {} PROVE \A p \in Due(s) : req[p].belt = b
      BY <1>b, <1>2, <3>4, <3>5 DEF Recorded, Told, Recording
    <3>6. Recording(s)' = {b}
      BY <3>2, <3>3, <3>5 DEF Recording, Due
    <3> QED BY <2>1, <3>2, <3>6 DEF Told, Due
  <2>3. CASE ~Differs(req[r])
    <3>1. /\ \A p \in Requests : p # r => req'[p] = req[p]
          /\ req'[r].stage = "idle"
      BY <1>a, <2>3 DEF WriteBelt, Finish
    <3>2. Due(s)' = Due(s) /\ Recording(s)' = Recording(s)
      BY <1>b, <3>1, DueKept
    <3>3. student[s].belt = b /\ s \notin disturbed
      BY <1>2, <2>3 DEF WriteBelt, After, Differs
    <3>4. Told(s)
      BY <1>2, <1>b, <3>3 DEF Recorded
    <3> QED BY <1>b, <2>1, <3>2, <3>3, <3>4, ToldKept
  <2> QED BY <2>2, <2>3
<1> QED BY <1>1, <1>2

\* An update that enters its belt enters the belt of the student.
LEMMA RecordTold ==
    ASSUME Typed, Recorded, NEW r \in Requests, NEW t \in Students, RecordBelt(r, t),
           NEW s \in Students, student'[s].row # "none", s \notin disturbed'
    PROVE  Told(s)'
<1> DEFINE b == req[r].belt
<1>a. /\ history \in [Students -> AtMostOne(Belts)] /\ req \in [Requests -> RequestState]
      /\ Idle.stage = "idle"
  BY IdleTyped DEF Typed, TypeOK
<1>b. /\ req[r].stage = "record" /\ req[r].of = {t}
      /\ UNCHANGED <<student, disturbed>>
      /\ \A p \in Requests : p # r => req'[p] = req[p]
      /\ req'[r].stage = "idle"
  BY <1>a DEF RecordBelt, Recorded, Finish
<1>c. Told(s)
  BY <1>b DEF Recorded
<1>1. \A p \in Requests : p \in Due(s)' <=> p # r /\ p \in Due(s)
  BY <1>b DEF Due
<1>2. CASE t # s
  <2>1. history'[s] = history[s]
    BY <1>a, <1>2 DEF RecordBelt
  <2>2. r \notin Due(s)
    BY <1>b, <1>2 DEF Due
  <2>3. Due(s)' = Due(s)
    BY <1>1, <2>2 DEF Due
  <2>4. Recording(s)' = Recording(s)
    <3>1. \A p \in Due(s) : req'[p].belt = req[p].belt
      BY <1>b, <2>2 DEF Due
    <3> QED BY <2>3, <3>1 DEF Recording
  <2> QED BY <1>b, <1>c, <2>1, <2>3, <2>4, ToldKept
<1>3. CASE t = s
  <2>1. history'[s] = {b}
    BY <1>a, <1>3 DEF RecordBelt
  <2>2. r \in Due(s)
    BY <1>b, <1>3 DEF Due
  <2>3. {student[s].belt} = Recording(s)
    BY <1>c, <2>2 DEF Told
  <2>4. \A p \in Due(s) : req[p].belt = student[s].belt
    BY <2>3 DEF Recording
  <2>5. CASE Due(s)' = {}
    BY <1>b, <2>1, <2>2, <2>4, <2>5 DEF Told, LastTold
  <2>6. CASE Due(s)' # {}
    <3>1. \A p \in Due(s)' : req'[p].belt = student[s].belt
      BY <1>1, <1>b, <2>4 DEF Due
    <3>2. Recording(s)' = {student[s].belt}
      BY <2>6, <3>1 DEF Recording
    <3> QED BY <1>b, <2>6, <3>2 DEF Told
  <2> QED BY <2>5, <2>6
<1> QED BY <1>2, <1>3

\* A promotion is entered with the belt.
LEMMA GradeTold ==
    ASSUME Typed, Recorded, NEW r \in Requests, NEW e \in DOMAIN exams, CommitGrade(r, e),
           Elsewhere(r), NEW s \in Students, student'[s].row # "none", s \notin disturbed'
    PROVE  Told(s)'
<1>a. /\ student \in [Students -> Student] /\ history \in [Students -> AtMostOne(Belts)]
      /\ student[s] \in Student /\ exams[e].of \in Students
  BY ExamOnFile DEF Typed, TypeOK
<1>b. Due(s)' = Due(s) /\ Recording(s)' = Recording(s)
  BY DueKept DEF Elsewhere
<1>1. CASE req[r].result = "PASS" /\ exams[e].of = s
  <2>1. /\ student' = [student EXCEPT ![s].belt = exams[e].to]
        /\ history' = [history EXCEPT ![s] = {exams[e].to}]
        /\ disturbed' = After(s, exams[e].to, TRUE)
    BY <1>1 DEF CommitGrade
  <2>2. /\ student'[s].belt = exams[e].to /\ student'[s].row = student[s].row
        /\ history'[s] = {exams[e].to}
    BY <1>a, <2>1 DEF Student
  <2>3. CASE Due(s) = {}
    BY <1>b, <2>2, <2>3 DEF Told, LastTold
  <2>4. CASE Due(s) # {}
    <3>1. student[s].belt = exams[e].to /\ s \notin disturbed
      BY <2>1, <2>4 DEF After
    <3>2. Told(s)
      BY <2>2, <3>1 DEF Recorded
    <3> QED BY <1>b, <2>2, <2>4, <3>1, <3>2 DEF Told
  <2> QED BY <2>3, <2>4
<1>2. CASE ~(req[r].result = "PASS" /\ exams[e].of = s)
  <2>1. CASE req[r].result # "PASS"
    <3>1. UNCHANGED <<student, history, disturbed>>
      BY <2>1 DEF CommitGrade
    <3>2. Told(s)
      BY <3>1 DEF Recorded
    <3> QED BY <1>b, <3>1, <3>2, ToldKept
  <2>2. CASE req[r].result = "PASS" /\ exams[e].of # s
    <3>1. /\ student' = [student EXCEPT ![exams[e].of].belt = exams[e].to]
          /\ history' = [history EXCEPT ![exams[e].of] = {exams[e].to}]
          /\ disturbed' = After(exams[e].of, exams[e].to, TRUE)
      BY <2>2 DEF CommitGrade
    <3>2. student'[s] = student[s] /\ history'[s] = history[s]
      BY <1>a, <2>2, <3>1
    <3>3. s \notin disturbed
      BY <2>2, <3>1 DEF After
    <3>4. Told(s)
      BY <3>2, <3>3 DEF Recorded
    <3> QED BY <1>b, <3>2, <3>4, ToldKept
  <2> QED BY <1>2, <2>1, <2>2
<1> QED BY <1>1, <1>2

LEMMA AbandonTold ==
    ASSUME Typed, Recorded, NEW r \in Requests, Abandon(r),
           NEW s \in Students, student'[s].row # "none", s \notin disturbed'
    PROVE  Told(s)'
<1>a. req \in [Requests -> RequestState] /\ Idle.stage = "idle"
  BY IdleTyped DEF Typed, TypeOK
<1>1. /\ UNCHANGED <<student, history>> /\ s \notin disturbed
      /\ \A p \in Requests : p # r => req'[p] = req[p]
      /\ req'[r].stage = "idle"
  BY <1>a DEF Abandon, Finish
<1>2. r \notin Due(s)
  BY DEF Abandon, Due
<1>3. \A p \in Requests : p \in Due(s)' <=> p \in Due(s)
  BY <1>1, <1>2 DEF Due
<1>4. Due(s)' = Due(s)
  BY <1>3 DEF Due
<1>5. Recording(s)' = Recording(s)
  <2>1. \A p \in Due(s) : req'[p].belt = req[p].belt
    BY <1>1, <1>2 DEF Due
  <2> QED BY <1>4, <2>1 DEF Recording
<1>6. Told(s)
  BY <1>1 DEF Recorded
<1> QED BY <1>1, <1>4, <1>5, <1>6, ToldKept

\* After any step the belt of a student whose history is in order is told.
LEMMA StepTold ==
    ASSUME Typed, Recorded, NEW r \in Requests, Serve(r),
           NEW s \in Students, student'[s].row # "none", s \notin disturbed'
    PROVE  Told(s)'
<1>a. student \in [Students -> Student]
  BY DEF Typed, TypeOK
<1>b. ASSUME Elsewhere(r), student'[s].belt = student[s].belt, student[s].row # "none",
             student'[s].admitted = student[s].admitted, UNCHANGED <<history, disturbed>>
      PROVE  Told(s)'
  <2>1. Told(s)
    BY <1>b DEF Recorded
  <2>2. Due(s)' = Due(s) /\ Recording(s)' = Recording(s)
    BY <1>b, DueKept DEF Elsewhere
  <2> QED BY <1>b, <2>1, <2>2, ToldKept
<1>1. ASSUME NEW t \in Students, NEW belt \in Belts, Admit(r, t, belt) PROVE Told(s)'
  BY <1>1, AdmitTold
<1>2. ASSUME NEW t \in Students, NEW belt \in Belts, ReadForUpdate(r, t, belt) PROVE Told(s)'
  <2>1. /\ \A p \in Requests : p # r => req'[p] = req[p]
        /\ req[r].stage # "record" /\ req'[r].stage # "record"
        /\ UNCHANGED <<student, history, disturbed>>
    <3>1. PICK q : q = [Idle EXCEPT !.stage = "belt", !.of = {t}, !.belt = belt,
                                    !.seen = student[t].belt]
      OBVIOUS
    <3>2. q.stage = "belt"
      BY <3>1 DEF Idle
    <3> QED BY <1>2, <3>1, <3>2 DEF ReadForUpdate, Begin, IsIdle, Rows, Typed, TypeOK
  <2>2. Due(s)' = Due(s) /\ Recording(s)' = Recording(s)
    BY <2>1, DueKept
  <2>3. Told(s)
    BY <2>1 DEF Recorded
  <2> QED BY <2>1, <2>2, <2>3, ToldKept
<1>3. ASSUME NEW t \in Students, WriteBelt(r, t) PROVE Told(s)'
  BY <1>3, WriteTold
<1>4. ASSUME NEW t \in Students, RecordBelt(r, t) PROVE Told(s)'
  BY <1>4, RecordTold
<1>5. ASSUME NEW e \in DOMAIN exams, CommitGrade(r, e) PROVE Told(s)'
  BY <1>5, WritesElsewhere, GradeTold
<1>6. CASE Abandon(r)
  BY <1>6, AbandonTold
<1>7. ASSUME NEW t \in Students, RemoveStudent(r, t) PROVE Told(s)'
  <2>1. /\ student'[s].belt = student[s].belt /\ student'[s].admitted = student[s].admitted
        /\ student[s].row # "none" /\ UNCHANGED <<history, disturbed>>
    BY <1>a, <1>7 DEF RemoveStudent, IsLive, Student
  <2> QED BY <1>7, <1>b, <2>1, WritesElsewhere
<1>8. ASSUME Elsewhere(r), UNCHANGED <<student, history, disturbed>> PROVE Told(s)'
  BY <1>8, <1>b
<1>9. \/ \E t \in Students : \/ \E belt \in Belts : Schedule(r, t, belt)
                             \/ CheckByHand(r, t) \/ InsertCertificate(r, t)
      \/ \E e \in DOMAIN exams :
            \/ \E result \in ResultInputs, issue \in BOOLEAN : ReadForGrade(r, e, result, issue)
            \/ ReadForRemove(r, e) \/ RemoveExam(r, e) \/ CheckPassed(r, e) \/ LinkCertificate(r, e)
      \/ \E c \in DOMAIN certificates : Revoke(r, c)
      \/ CountCertificates(r)
      => Elsewhere(r) /\ UNCHANGED <<student, history, disturbed>>
  <2>1. \/ \E t \in Students : CheckByHand(r, t)
        \/ \E e \in DOMAIN exams :
              \/ \E result \in ResultInputs, issue \in BOOLEAN : ReadForGrade(r, e, result, issue)
              \/ ReadForRemove(r, e) \/ CheckPassed(r, e)
        \/ CountCertificates(r)
        => Elsewhere(r) /\ UNCHANGED Rows
    BY ReadsElsewhere DEF CheckByHand, ReadForGrade, ReadForRemove, CheckPassed, CountCertificates
  <2>2. \/ \E t \in Students : (\E belt \in Belts : Schedule(r, t, belt)) \/ InsertCertificate(r, t)
        \/ \E e \in DOMAIN exams : RemoveExam(r, e) \/ LinkCertificate(r, e)
        \/ \E c \in DOMAIN certificates : Revoke(r, c)
        => Elsewhere(r) /\ UNCHANGED <<student, history, disturbed>>
    BY WritesElsewhere DEF Schedule, InsertCertificate, RemoveExam, LinkCertificate, Revoke
  <2> QED BY <2>1, <2>2 DEF Rows
<1> QED BY <1>1, <1>2, <1>3, <1>4, <1>5, <1>6, <1>7, <1>8, <1>9 DEF Serve

\* An update under way keeps its student.
LEMMA UpdatesKept ==
    ASSUME Typed, Recorded, NEW r \in Requests, Serve(r), NEW p \in Requests,
           req'[p].stage \in {"belt", "record"}
    PROVE  \E s \in Students : req'[p].of = {s} /\ student'[s].row # "none"
<1>a. req \in [Requests -> RequestState] /\ req[r] \in RequestState /\ Idle.stage = "idle"
  BY IdleTyped, RequestOnFile DEF Typed, TypeOK
<1>b. ASSUME req[p].stage \in {"belt", "record"}, req'[p].of = req[p].of
      PROVE  \E s \in Students : req'[p].of = {s} /\ student'[s].row # "none"
  <2>1. PICK s \in Students : req[p].of = {s} /\ student[s].row # "none"
    BY <1>b DEF Recorded
  <2> QED BY <1>b, <2>1, RowsStay
<1>1. CASE p # r
  BY <1>1, <1>b, OthersStay
<1>2. CASE p = r
  <2>1. ASSUME NEW s \in Students, NEW belt \in Belts, ReadForUpdate(r, s, belt)
        PROVE  req'[r].of = {s} /\ student'[s].row # "none"
    <3>1. PICK q : q = [Idle EXCEPT !.stage = "belt", !.of = {s}, !.belt = belt,
                                    !.seen = student[s].belt]
      OBVIOUS
    <3>2. q.of = {s}
      BY <3>1 DEF Idle
    <3> QED BY <1>a, <2>1, <3>1, <3>2 DEF ReadForUpdate, Begin, IsLive, Rows
  <2>2. ASSUME NEW t \in Students, WriteBelt(r, t)
        PROVE  req[p].stage = "belt" /\ req'[p].of = req[p].of
    <3>1. Differs(req[r])
      BY <1>a, <1>2, <2>2 DEF WriteBelt, Finish
    <3> QED BY <1>a, <1>2, <2>2, <3>1 DEF WriteBelt, GoTo, RequestState
  <2>3. ~Elsewhere(r)
    BY <1>2 DEF Elsewhere
  <2>4. ~Abandon(r) /\ ~(\E t \in Students : RecordBelt(r, t))
    BY <1>2, <1>a DEF Abandon, RecordBelt, Finish
  <2> QED BY <1>2, <1>b, <2>1, <2>2, <2>3, <2>4, Shapes
<1> QED BY <1>1, <1>2

LEMMA InitRecorded == Init => Recorded
<1> SUFFICES ASSUME Init PROVE Recorded
  OBVIOUS
<1>1. \A s \in Students : student[s].row = "none"
  BY DEF Init
<1>2. \A r \in Requests : req[r].stage = "idle"
  BY IdleTyped DEF Init
<1> QED BY <1>1, <1>2 DEF Recorded

LEMMA StepRecorded == Typed /\ Recorded /\ [Next]_vars => Recorded'
<1>1. ASSUME Typed, Recorded, NEW r \in Requests, Serve(r) PROVE Recorded'
  BY <1>1, StepTold, UpdatesKept DEF Recorded
<1>2. ASSUME Recorded, UNCHANGED vars PROVE Recorded'
  BY <1>2 DEF Recorded, Told, Due, LastTold, Recording, vars
<1> QED BY <1>1, <1>2 DEF Next

\* However gradings and updates overlap, the last entry of a student's history, or the belt of
\* admission while there is none, names its belt, unless an update is between its two writes
\* or one of the overlaps that After and Abandon name has come since the last change that met
\* no other (StudentsService.update, BeltsService.grade).
THEOREM BeltsTold == Spec => []BeltIsRecorded
<1>1. Recorded => BeltIsRecorded
  BY DEF Recorded, BeltIsRecorded, Told
<1> QED BY <1>1, InitTyped, StepTyped, InitRecorded, StepRecorded, PTL DEF Spec

-----------------------------------------------------------------------------
(* Certificates.                                                           *)

\* q can still issue a certificate of e, and has already passed the exam to do so.
Issues(q, e) ==
    /\ q.exam = e
    /\ q.stage \in {"passed", "certify", "number"} \/ (q.stage = "grade" /\ q.result = "PASS")
Passes(q, e) == q.exam = e /\ q.stage \in {"passed", "certify", "number"}

Passing(e) == {r \in Requests : Passes(req[r], e)}

\* An ungraded exam has certificates, issued or on their way, of the times it was reopened
\* only; this is what leaves room for everybody who finds it ungraded now.
Balanced(e) ==
    /\ Cardinality(Issued(e)) + Cardinality(Issuing(e))
         <= Cardinality(Requests) * (1 + exams[e].reopened)
    /\ exams[e].result \notin Final
         => Cardinality(Issued(e)) + Cardinality(Passing(e))
              <= Cardinality(Requests) * exams[e].reopened

\* Nothing refers to an exam that was not scheduled.
Filed ==
    /\ \A c \in DOMAIN certificates : certificates[c].exam \in {0} \cup DOMAIN exams
    /\ \A r \in Requests : req[r].exam \in {0} \cup DOMAIN exams

AllBalanced == Filed /\ \A e \in DOMAIN exams : Balanced(e)

LEMMA Countable ==
    ASSUME NEW S \in SUBSET Requests
    PROVE  /\ IsFiniteSet(S) /\ Cardinality(S) \in Nat
           /\ Cardinality(Requests) \in Nat /\ Cardinality(S) <= Cardinality(Requests)
BY FS_Subset, FS_CardinalityType, GradingAssumption

LEMMA Shares ==
    \A k \in Nat : /\ Cardinality(Requests) * k \in Nat
                   /\ Cardinality(Requests) * (1 + k)
                        = Cardinality(Requests) * k + Cardinality(Requests)
<1> DEFINE all == Cardinality(Requests)
<1>1. all \in Nat
  BY FS_CardinalityType, GradingAssumption
<1> HIDE DEF all
<1>2. \A k \in Nat : all * k \in Nat /\ all * (1 + k) = all * k + all
  BY <1>1
<1> QED BY <1>2 DEF all

LEMMA IssuedCounts ==
    ASSUME Typed, NEW e
    PROVE  IsFiniteSet(Issued(e)) /\ Cardinality(Issued(e)) \in Nat
<1>1. Len(certificates) \in Nat /\ DOMAIN certificates = 1 .. Len(certificates)
  BY DEF Typed, TypeOK
<1>2. IsFiniteSet(DOMAIN certificates)
  BY <1>1, FS_Interval
<1>3. Issued(e) \subseteq DOMAIN certificates
  BY DEF Issued
<1> QED BY <1>2, <1>3, FS_Subset, FS_CardinalityType

\* Whatever a request does, it alone can come to issue a certificate or cease to.
LEMMA Moved ==
    ASSUME Typed, NEW r \in Requests, NEW q, req' = [req EXCEPT ![r] = q], NEW e
    PROVE  /\ Issuing(e)' \subseteq Issuing(e) \cup {r}
           /\ ~Issues(q, e) => r \notin Issuing(e)'
           /\ (Issues(q, e) => Issues(req[r], e)) => Issuing(e)' \subseteq Issuing(e)
           /\ (Passes(q, e) => Passes(req[r], e)) => Passing(e)' \subseteq Passing(e)
           /\ ~Passes(q, e) => r \notin Passing(e)'
<1>1. \A p \in Requests : req'[p] = IF p = r THEN q ELSE req[p]
  BY DEF Typed, TypeOK
<1> QED BY <1>1 DEF Issuing, Passing, Issues, Passes

LEMMA IssuingCounts ==
    ASSUME NEW e
    PROVE  /\ Issuing(e) \in SUBSET Requests /\ Passing(e) \in SUBSET Requests
           /\ Issuing(e)' \in SUBSET Requests /\ Passing(e)' \in SUBSET Requests
           /\ Passing(e) \subseteq Issuing(e) /\ Passing(e)' \subseteq Issuing(e)'
BY DEF Issuing, Passing, Passes

\* An exam that stays as it is, or becomes final, with no more requests to issue.
LEMMA BalanceKept ==
    ASSUME Typed, NEW e \in DOMAIN exams, Balanced(e),
           exams'[e].reopened = exams[e].reopened,
           Issued(e)' = Issued(e), Issuing(e)' \subseteq Issuing(e),
           \/ exams'[e].result \in Final
           \/ exams[e].result \notin Final /\ Passing(e)' \subseteq Passing(e)
    PROVE  Balanced(e)'
<1> DEFINE issued == Cardinality(Issued(e))
           n == Cardinality(Issuing(e))
           n1 == Cardinality(Issuing(e)')
           m == Cardinality(Passing(e))
           m1 == Cardinality(Passing(e)')
           all == Cardinality(Requests)
           again == exams[e].reopened
<1>1. issued \in Nat /\ n \in Nat /\ n1 \in Nat /\ m \in Nat /\ m1 \in Nat
  BY IssuedCounts, IssuingCounts, Countable
<1>2. n1 <= n /\ (exams'[e].result \notin Final => m1 <= m)
  BY IssuingCounts, Countable, FS_Subset
<1>3. again \in Nat /\ all * again \in Nat /\ all * (1 + again) = all * again + all /\ all \in Nat
  BY ExamOnFile, Shares, Countable, FS_CardinalityType, GradingAssumption
<1>4. /\ issued + n <= all * (1 + again)
      /\ exams[e].result \notin Final => issued + m <= all * again
  BY DEF Balanced
<1>5. issued + n1 <= all * (1 + again)
  <2> HIDE DEF issued, n, n1, all, again
  <2> QED BY <1>1, <1>2, <1>3, <1>4
<1>6. exams'[e].result \notin Final => issued + m1 <= all * again
  <2> HIDE DEF issued, m, m1, all, again
  <2> QED BY <1>1, <1>2, <1>3, <1>4
<1> QED BY <1>5, <1>6 DEF Balanced

LEMMA QuietMove ==
    ASSUME Typed, NEW e \in DOMAIN exams, Balanced(e), NEW r \in Requests, NEW q,
           req' = [req EXCEPT ![r] = q],
           Issues(q, e) => Issues(req[r], e), Passes(q, e) => Passes(req[r], e),
           exams'[e].reopened = exams[e].reopened, exams'[e].result = exams[e].result,
           Issued(e)' = Issued(e)
    PROVE  Balanced(e)'
BY Moved, BalanceKept

\* An exam that is found ungraded may be passed by every request at once.
LEMMA FoundUngraded ==
    ASSUME Typed, NEW e \in DOMAIN exams, Balanced(e), NEW r \in Requests, NEW q,
           req' = [req EXCEPT ![r] = q], ~Passes(q, e), exams[e].result \notin Final,
           UNCHANGED <<exams, certificates>>
    PROVE  Balanced(e)'
<1> DEFINE graders == {p \in Requests : Issues(req'[p], e) /\ ~Passes(req'[p], e)}
           issued == Cardinality(Issued(e))
           n1 == Cardinality(Issuing(e)')
           m == Cardinality(Passing(e))
           m1 == Cardinality(Passing(e)')
           g == Cardinality(graders)
           all == Cardinality(Requests)
           again == exams[e].reopened
<1>1. /\ IsFiniteSet(graders) /\ IsFiniteSet(Passing(e)') /\ IsFiniteSet(Passing(e))
      /\ g \in Nat /\ m \in Nat /\ m1 \in Nat /\ n1 \in Nat /\ g <= all /\ issued \in Nat
  BY IssuedCounts, IssuingCounts, Countable
<1>2. m1 <= m
  BY <1>1, Moved, FS_Subset
<1>3. n1 <= m1 + g
  <2>1. Issuing(e)' = Passing(e)' \cup graders /\ Passing(e)' \cap graders = {}
    BY DEF Issuing, Passing, Issues, Passes
  <2>2. Cardinality(Passing(e)' \cup graders) = m1 + g - 0
    BY <1>1, <2>1, FS_Union, FS_EmptySet
  <2> QED BY <1>1, <2>1, <2>2
<1>4. again \in Nat /\ all * again \in Nat /\ all * (1 + again) = all * again + all /\ all \in Nat
  BY ExamOnFile, Shares, FS_CardinalityType, GradingAssumption
<1>5. issued + m <= all * again
  BY DEF Balanced
<1>6. issued + n1 <= all * (1 + again) /\ issued + m1 <= all * again
  <2> HIDE DEF issued, n1, m, m1, g, graders, all, again
  <2> QED BY <1>1, <1>2, <1>3, <1>4, <1>5
<1>7. Issued(e)' = Issued(e)
  BY DEF Issued
<1> QED BY <1>6, <1>7 DEF Balanced

\* A grade decides for the request that enters it, and may open the exam again.
LEMMA Graded ==
    ASSUME Typed, NEW e \in DOMAIN exams, Balanced(e), NEW r \in Requests, CommitGrade(r, e)
    PROVE  Balanced(e)'
<1> DEFINE again == exams[e].reopened
           reopens == exams[e].result \in Final /\ req[r].result \notin Final
<1>1. PICK q : q = [req[r] EXCEPT !.stage = "passed"]
  OBVIOUS
<1>2. /\ req[r] \in RequestState /\ req[r].stage = "grade" /\ req[r].exam = e
      /\ exams \in Seq(Exam) /\ exams[e] \in Exam /\ e # 0 /\ Idle.exam = 0
  BY RequestOnFile, ExamOnFile DEF CommitGrade, Typed, TypeOK, Idle
<1>3. /\ exams'[e].result = req[r].result
      /\ exams'[e].reopened = again + (IF reopens THEN 1 ELSE 0)
  BY <1>2 DEF CommitGrade, Exam
<1>4. Issued(e)' = Issued(e)
  BY DEF CommitGrade, Issued
<1>5. \/ req' = [req EXCEPT ![r] = q] /\ req[r].result = "PASS"
      \/ req' = [req EXCEPT ![r] = Idle]
  BY <1>1, <1>2 DEF CommitGrade, GoTo, Finish
<1>6. /\ Issuing(e)' \subseteq Issuing(e)
      /\ req[r].result # "PASS" => Passing(e)' \subseteq Passing(e)
  <2>1. ~Issues(Idle, e) /\ ~Passes(Idle, e)
    BY <1>2 DEF Issues, Passes
  <2>2. req[r].result = "PASS" => Issues(req[r], e)
    BY <1>2 DEF Issues
  <2> QED BY <1>5, <2>1, <2>2, Moved
<1>7. CASE ~reopens
  <2>1. again \in Nat /\ exams'[e].reopened = again
    BY <1>3, <1>7, ExamOnFile
  <2> QED BY <1>3, <1>4, <1>6, <1>7, <2>1, BalanceKept DEF Final
<1>8. CASE reopens
  <2> DEFINE issued == Cardinality(Issued(e))
             n == Cardinality(Issuing(e))
             n1 == Cardinality(Issuing(e)')
             m1 == Cardinality(Passing(e)')
             all == Cardinality(Requests)
  <2>1. issued \in Nat /\ n \in Nat /\ n1 \in Nat /\ m1 \in Nat /\ n1 <= n /\ m1 <= n1
    BY <1>6, IssuedCounts, IssuingCounts, Countable, FS_Subset
  <2>2. again \in Nat /\ exams'[e].reopened = 1 + again
    BY <1>3, <1>8, ExamOnFile
  <2>3. /\ all \in Nat /\ all * (1 + again) \in Nat
        /\ all * (1 + (1 + again)) = all * (1 + again) + all
    <3>1. again \in Nat /\ 1 + again \in Nat
      BY <2>2
    <3> HIDE DEF again
    <3> QED BY <3>1, Shares, FS_CardinalityType, GradingAssumption
  <2>4. issued + n <= all * (1 + again)
    BY DEF Balanced
  <2>5. issued + n1 <= all * (1 + (1 + again)) /\ issued + m1 <= all * (1 + again)
    <3> HIDE DEF issued, n, n1, m1, all, again
    <3> QED BY <2>1, <2>3, <2>4
  <2> QED BY <1>4, <2>2, <2>5 DEF Balanced
<1> QED BY <1>7, <1>8

\* The request that issues a certificate is one fewer that can.
LEMMA CertificateAdded ==
    ASSUME Typed, NEW e \in DOMAIN exams, Balanced(e), NEW r \in Requests, NEW s \in Students,
           InsertCertificate(r, s), req[r].exam = e
    PROVE  Balanced(e)'
<1> DEFINE issued == Cardinality(Issued(e))
           n == Cardinality(Issuing(e))
           n1 == Cardinality(Issuing(e)')
           m == Cardinality(Passing(e))
           m1 == Cardinality(Passing(e)')
           all == Cardinality(Requests)
           again == exams[e].reopened
<1>1. PICK q : q = [req[r] EXCEPT !.stage = "link", !.seen = NewCertificate]
  OBVIOUS
<1>2. req[r] \in RequestState /\ req[r].stage = "number" /\ e # 0 /\ e \in Nat
  BY RequestOnFile, ExamOnFile DEF InsertCertificate
<1>3. req' = [req EXCEPT ![r] = q] /\ q.stage = "link"
  BY <1>1, <1>2 DEF InsertCertificate, RequestState
<1>4. r \in Issuing(e) /\ r \in Passing(e) /\ r \notin Issuing(e)' /\ r \notin Passing(e)'
  <2>1. Passes(req[r], e) /\ ~Issues(q, e) /\ ~Passes(q, e)
    BY <1>2, <1>3 DEF Issues, Passes
  <2>2. r \in Issuing(e) /\ r \in Passing(e)
    BY <2>1 DEF Issuing, Passing, Passes
  <2>3. r \notin Issuing(e)' /\ r \notin Passing(e)'
    BY <1>3, <2>1, Moved
  <2> QED BY <2>2, <2>3
<1>5. Issuing(e)' \subseteq Issuing(e) \ {r} /\ Passing(e)' \subseteq Passing(e) \ {r}
  <2>1. ~Issues(q, e) /\ ~Passes(q, e)
    BY <1>3 DEF Issues, Passes
  <2> QED BY <1>3, <1>4, <2>1, Moved
<1>6. n1 <= n - 1 /\ m1 <= m - 1 /\ n \in Nat /\ m \in Nat /\ n1 \in Nat /\ m1 \in Nat
  <2>1. /\ IsFiniteSet(Issuing(e)) /\ IsFiniteSet(Passing(e))
        /\ n \in Nat /\ m \in Nat /\ n1 \in Nat /\ m1 \in Nat
    BY IssuingCounts, Countable
  <2>2. /\ IsFiniteSet(Issuing(e) \ {r}) /\ Cardinality(Issuing(e) \ {r}) = n - 1
        /\ IsFiniteSet(Passing(e) \ {r}) /\ Cardinality(Passing(e) \ {r}) = m - 1
    BY <1>4, <2>1, FS_RemoveElement
  <2> QED BY <1>5, <2>1, <2>2, FS_Subset
<1>7. IsFiniteSet(Issued(e)') /\ Cardinality(Issued(e)') = issued + 1 /\ issued \in Nat
  <2> DEFINE row == [of |-> s, exam |-> req[r].exam, revoked |-> FALSE]
  <2>1. certificates' = Append(certificates, row) /\ certificates \in Seq(Certificate)
    BY DEF InsertCertificate, Typed, TypeOK
  <2>2. row.exam = e
    OBVIOUS
  <2> HIDE DEF row
  <2>3. Issued(e)' = Issued(e) \cup {NewCertificate} /\ NewCertificate \notin Issued(e)
    BY <2>1, <2>2 DEF Issued, NewCertificate
  <2> QED BY <2>3, IssuedCounts, FS_AddElement
<1>8. again \in Nat /\ all * again \in Nat /\ all * (1 + again) = all * again + all /\ all \in Nat
  BY ExamOnFile, Shares, FS_CardinalityType, GradingAssumption
<1>9. /\ issued + n <= all * (1 + again)
      /\ exams[e].result \notin Final => issued + m <= all * again
  BY DEF Balanced
<1>10. /\ (issued + 1) + n1 <= all * (1 + again)
       /\ exams[e].result \notin Final => (issued + 1) + m1 <= all * again
  <2> HIDE DEF issued, n, n1, m, m1, all, again
  <2> QED BY <1>6, <1>7, <1>8, <1>9
<1>11. exams' = exams
  BY DEF InsertCertificate
<1> QED BY <1>7, <1>10, <1>11 DEF Balanced

SameExams ==
    /\ DOMAIN exams' = DOMAIN exams
    /\ \A e \in DOMAIN exams : /\ exams'[e].result = exams[e].result
                               /\ exams'[e].reopened = exams[e].reopened
SameCertificates ==
    /\ DOMAIN certificates' = DOMAIN certificates
    /\ \A c \in DOMAIN certificates : certificates'[c].exam = certificates[c].exam

\* A step that neither grades nor issues, by a request that is not let in to either.
LEMMA QuietStep ==
    ASSUME Typed, AllBalanced, SameExams, SameCertificates,
           NEW r \in Requests, NEW q, req' = [req EXCEPT ![r] = q],
           q.exam \in {0} \cup DOMAIN exams,
           \A e \in DOMAIN exams : /\ Issues(q, e) => Issues(req[r], e)
                                   /\ Passes(q, e) => Passes(req[r], e)
    PROVE  AllBalanced'
<1>1. \A p \in Requests : req'[p] = IF p = r THEN q ELSE req[p]
  BY DEF Typed, TypeOK
<1>2. Filed'
  BY <1>1 DEF AllBalanced, Filed, SameExams, SameCertificates
<1>3. ASSUME NEW e \in DOMAIN exams PROVE Balanced(e)'
  <2>1. Issued(e)' = Issued(e)
    BY DEF SameCertificates, Issued
  <2> QED BY <2>1, QuietMove DEF AllBalanced, SameExams
<1>4. DOMAIN exams' = DOMAIN exams
  BY DEF SameExams
<1> QED BY <1>2, <1>3, <1>4 DEF AllBalanced

LEMMA OutOfTheWay ==
    ASSUME NEW q, NEW e, e # 0,
           q.exam = 0 \/ q.stage \notin {"grade", "passed", "certify", "number"}
    PROVE  ~Issues(q, e) /\ ~Passes(q, e)
BY DEF Issues, Passes

LEMMA QuietActions ==
    ASSUME Typed, AllBalanced, NEW r \in Requests,
           \/ \E s \in Students, belt \in Belts : Admit(r, s, belt) \/ ReadForUpdate(r, s, belt)
           \/ \E s \in Students :
                 RemoveStudent(r, s) \/ WriteBelt(r, s) \/ RecordBelt(r, s) \/ CheckByHand(r, s)
           \/ \E e \in DOMAIN exams :
                 \/ ReadForRemove(r, e) \/ RemoveExam(r, e)
                 \/ CheckPassed(r, e) \/ LinkCertificate(r, e)
           \/ \E c \in DOMAIN certificates : Revoke(r, c)
           \/ CountCertificates(r) \/ Abandon(r)
    PROVE  AllBalanced'
<1>a. /\ req \in [Requests -> RequestState] /\ req[r] \in RequestState
      /\ exams \in Seq(Exam) /\ certificates \in Seq(Certificate)
      /\ \A e \in DOMAIN exams : e # 0 /\ e \in Nat /\ exams[e] \in Exam
      /\ Idle.stage = "idle" /\ Idle.exam = 0 /\ req[r].exam \in {0} \cup DOMAIN exams
  BY IdleTyped, RequestOnFile, ExamOnFile DEF Typed, TypeOK, Idle, AllBalanced, Filed
<1>b. UNCHANGED exams => SameExams
  BY DEF SameExams
<1>c. UNCHANGED certificates => SameCertificates
  BY DEF SameCertificates
<1>d. ASSUME SameExams, SameCertificates, NEW q, req' = [req EXCEPT ![r] = q],
             q.exam \in {0} \cup DOMAIN exams,
             q.exam = 0 \/ q.stage \notin {"grade", "passed", "certify", "number"}
      PROVE  AllBalanced'
  BY <1>a, <1>d, OutOfTheWay, QuietStep
<1>e. ASSUME SameExams, SameCertificates, UNCHANGED req PROVE AllBalanced'
  <2>1. req' = [req EXCEPT ![r] = req[r]]
    BY <1>a, <1>e
  <2> QED BY <1>a, <1>e, <2>1, QuietStep
<1>1. ASSUME NEW s \in Students, NEW belt \in Belts, Admit(r, s, belt) PROVE AllBalanced'
  BY <1>b, <1>c, <1>e, <1>1 DEF Admit
<1>2. ASSUME NEW s \in Students, NEW belt \in Belts, ReadForUpdate(r, s, belt) PROVE AllBalanced'
  <2>1. PICK q : q = [Idle EXCEPT !.stage = "belt", !.of = {s}, !.belt = belt,
                                  !.seen = student[s].belt]
    OBVIOUS
  <2>2. q.exam = 0
    BY <2>1 DEF Idle
  <2> QED BY <1>b, <1>c, <1>d, <1>2, <2>1, <2>2 DEF ReadForUpdate, Begin, Rows
<1>3. ASSUME NEW s \in Students, RemoveStudent(r, s) PROVE AllBalanced'
  BY <1>b, <1>c, <1>e, <1>3 DEF RemoveStudent
<1>4. ASSUME NEW s \in Students, WriteBelt(r, s) PROVE AllBalanced'
  <2>1. PICK q : q = [req[r] EXCEPT !.stage = "record"]
    OBVIOUS
  <2>2. q.stage = "record" /\ q.exam = req[r].exam
    BY <1>a, <2>1 DEF RequestState
  <2>3. req' = [req EXCEPT ![r] = q] \/ req' = [req EXCEPT ![r] = Idle]
    BY <1>a, <1>4, <2>1 DEF WriteBelt, GoTo, Finish
  <2> QED BY <1>a, <1>b, <1>c, <1>d, <1>4, <2>2, <2>3 DEF WriteBelt
<1>5. ASSUME NEW s \in Students, RecordBelt(r, s) PROVE AllBalanced'
  BY <1>a, <1>b, <1>c, <1>d, <1>5 DEF RecordBelt, Finish
<1>6. ASSUME NEW s \in Students, CheckByHand(r, s) PROVE AllBalanced'
  <2>1. PICK q : q = [Idle EXCEPT !.stage = "certify", !.of = {s}]
    OBVIOUS
  <2>2. q.exam = 0
    BY <2>1 DEF Idle
  <2> QED BY <1>b, <1>c, <1>d, <1>6, <2>1, <2>2 DEF CheckByHand, Begin, Rows
<1>7. ASSUME NEW e \in DOMAIN exams, ReadForRemove(r, e) PROVE AllBalanced'
  <2>1. PICK q : q = [Idle EXCEPT !.stage = "remove", !.exam = e]
    OBVIOUS
  <2>2. q.stage = "remove" /\ q.exam = e
    BY <2>1 DEF Idle
  <2> QED BY <1>b, <1>c, <1>d, <1>7, <2>1, <2>2 DEF ReadForRemove, Begin, Rows
<1>8. ASSUME NEW e \in DOMAIN exams, RemoveExam(r, e) \/ LinkCertificate(r, e) PROVE AllBalanced'
  <2>1. SameExams
    <3>1. PICK row : /\ exams' = [exams EXCEPT ![e] = row]
                     /\ \/ row = [exams[e] EXCEPT !.deleted = TRUE]
                        \/ row = [exams[e] EXCEPT !.certificate = req[r].seen]
      BY <1>8 DEF RemoveExam, LinkCertificate
    <3>2. row.result = exams[e].result /\ row.reopened = exams[e].reopened
      BY <1>a, <3>1 DEF Exam
    <3> QED BY <1>a, <3>1, <3>2 DEF SameExams
  <2> QED BY <1>a, <1>c, <1>d, <1>8, <2>1 DEF RemoveExam, LinkCertificate, Finish
<1>9. ASSUME NEW e \in DOMAIN exams, CheckPassed(r, e) PROVE AllBalanced'
  <2>1. PICK q : q = [req[r] EXCEPT !.stage = "certify", !.of = {exams[e].of}]
    OBVIOUS
  <2>2. q.stage = "certify" /\ q.exam = req[r].exam
    BY <1>a, <2>1 DEF RequestState
  <2>3. req[r].stage = "passed" /\ req' = [req EXCEPT ![r] = q] /\ UNCHANGED <<exams, certificates>>
    BY <1>a, <1>9, <2>1 DEF CheckPassed, Rows
  <2>4. \A d \in DOMAIN exams : /\ Issues(q, d) => Issues(req[r], d)
                                /\ Passes(q, d) => Passes(req[r], d)
    BY <2>2, <2>3 DEF Issues, Passes
  <2> QED BY <1>a, <1>b, <1>c, <2>2, <2>3, <2>4, QuietStep
<1>10. ASSUME NEW c \in DOMAIN certificates, Revoke(r, c) PROVE AllBalanced'
  <2>1. SameCertificates
    BY <1>a, <1>10 DEF Revoke, SameCertificates, Certificate
  <2> QED BY <1>b, <1>e, <1>10, <2>1 DEF Revoke
<1>11. CASE CountCertificates(r)
  <2>1. PICK q : q = [req[r] EXCEPT !.stage = "number", !.seen = Len(certificates)]
    OBVIOUS
  <2>2. q.stage = "number" /\ q.exam = req[r].exam
    BY <1>a, <2>1 DEF RequestState
  <2>3. req[r].stage = "certify" /\ req' = [req EXCEPT ![r] = q] /\ UNCHANGED <<exams, certificates>>
    BY <1>a, <1>11, <2>1 DEF CountCertificates, Rows
  <2>4. \A d \in DOMAIN exams : /\ Issues(q, d) => Issues(req[r], d)
                                /\ Passes(q, d) => Passes(req[r], d)
    BY <2>2, <2>3 DEF Issues, Passes
  <2> QED BY <1>a, <1>b, <1>c, <2>2, <2>3, <2>4, QuietStep
<1>12. CASE Abandon(r)
  BY <1>a, <1>b, <1>c, <1>d, <1>12 DEF Abandon, Finish
<1> QED BY <1>1, <1>2, <1>3, <1>4, <1>5, <1>6, <1>7, <1>8, <1>9, <1>10, <1>11, <1>12

\* What a request that is at an exam leaves behind, whatever becomes of that exam.
LEMMA OneExamMoves ==
    ASSUME Typed, AllBalanced, NEW r \in Requests, NEW q, req' = [req EXCEPT ![r] = q],
           NEW e \in DOMAIN exams, q.exam \in {0, e}, Balanced(e)',
           DOMAIN exams' = DOMAIN exams,
           \A d \in DOMAIN exams \ {e} : exams'[d] = exams[d] /\ Issued(d)' = Issued(d),
           \A c \in DOMAIN certificates' : certificates'[c].exam \in {0} \cup DOMAIN exams
    PROVE  AllBalanced'
<1>1. \A p \in Requests : req'[p] = IF p = r THEN q ELSE req[p]
  BY DEF Typed, TypeOK
<1>2. Filed'
  BY <1>1 DEF AllBalanced, Filed
<1>3. ASSUME NEW d \in DOMAIN exams \ {e} PROVE Balanced(d)'
  <2>1. q.exam # d
    BY ExamOnFile
  <2>2. ~Issues(q, d) /\ ~Passes(q, d)
    BY <2>1 DEF Issues, Passes
  <2> QED BY <2>2, QuietMove DEF AllBalanced
<1> QED BY <1>2, <1>3 DEF AllBalanced

LEMMA ReadForGradeBalanced ==
    ASSUME Typed, AllBalanced, NEW r \in Requests, NEW e \in DOMAIN exams,
           NEW result \in ResultInputs, NEW issue \in BOOLEAN, ReadForGrade(r, e, result, issue)
    PROVE  AllBalanced'
<1>1. PICK q : q = [Idle EXCEPT !.stage = "grade", !.exam = e, !.result = result, !.issue = issue]
  OBVIOUS
<1>2. q.stage = "grade" /\ q.exam = e
  BY <1>1 DEF Idle
<1>3. req' = [req EXCEPT ![r] = q] /\ UNCHANGED <<exams, certificates>>
  BY <1>1 DEF ReadForGrade, Begin, Rows
<1>4. ~Passes(q, e) /\ exams[e].result \notin Final
  BY <1>2 DEF Passes, ReadForGrade, Ungraded
<1>5. Balanced(e)'
  BY <1>3, <1>4, FoundUngraded DEF AllBalanced
<1>6. \A d : Issued(d)' = Issued(d)
  BY <1>3 DEF Issued
<1> QED BY <1>2, <1>3, <1>5, <1>6, OneExamMoves DEF AllBalanced, Filed

LEMMA CommitGradeBalanced ==
    ASSUME Typed, AllBalanced, NEW r \in Requests, NEW e \in DOMAIN exams, CommitGrade(r, e)
    PROVE  AllBalanced'
<1>1. PICK q : q = [req[r] EXCEPT !.stage = "passed"]
  OBVIOUS
<1>2. req[r] \in RequestState /\ req[r].exam = e /\ exams \in Seq(Exam)
  BY RequestOnFile DEF CommitGrade, Typed, TypeOK
<1>3. q.exam = e /\ Idle.exam = 0
  BY <1>1, <1>2 DEF RequestState, Idle
<1>4. req' = [req EXCEPT ![r] = q] \/ req' = [req EXCEPT ![r] = Idle]
  BY <1>1, <1>2 DEF CommitGrade, GoTo, Finish
<1>5. /\ DOMAIN exams' = DOMAIN exams /\ UNCHANGED certificates
      /\ \A d \in DOMAIN exams \ {e} : exams'[d] = exams[d]
  BY <1>2 DEF CommitGrade
<1>6. Balanced(e)'
  BY Graded DEF AllBalanced
<1>7. \A d : Issued(d)' = Issued(d)
  BY <1>5 DEF Issued
<1> QED BY <1>3, <1>4, <1>5, <1>6, <1>7, OneExamMoves DEF AllBalanced, Filed

LEMMA InsertBalanced ==
    ASSUME Typed, AllBalanced, NEW r \in Requests, NEW s \in Students, InsertCertificate(r, s)
    PROVE  AllBalanced'
<1> DEFINE row == [of |-> s, exam |-> req[r].exam, revoked |-> FALSE]
<1>1. PICK q : q = [req[r] EXCEPT !.stage = "link", !.seen = NewCertificate]
  OBVIOUS
<1>2. /\ req[r] \in RequestState /\ req[r].exam \in {0} \cup DOMAIN exams
      /\ certificates \in Seq(Certificate) /\ 0 \notin DOMAIN exams
  BY RequestOnFile DEF AllBalanced, Filed, Typed, TypeOK
<1>3. q.exam = req[r].exam /\ q.stage = "link" /\ Idle.exam = 0
  BY <1>1, <1>2 DEF RequestState, Idle
<1>4. /\ req[r].exam = 0 => req' = [req EXCEPT ![r] = Idle]
      /\ req[r].exam # 0 => req' = [req EXCEPT ![r] = q]
      /\ certificates' = Append(certificates, row) /\ UNCHANGED exams
  BY <1>1 DEF InsertCertificate, Finish
<1>5. row.exam = req[r].exam
  OBVIOUS
<1> HIDE DEF row
<1>6. /\ \A c \in DOMAIN certificates' : certificates'[c].exam \in {0} \cup DOMAIN exams
      /\ \A d \in DOMAIN exams : d # req[r].exam => Issued(d)' = Issued(d)
  BY <1>2, <1>4, <1>5 DEF Issued, AllBalanced, Filed
<1>7. CASE req[r].exam # 0
  <2>1. PICK e \in DOMAIN exams : req[r].exam = e
    BY <1>2, <1>7
  <2>2. Balanced(e)'
    BY <2>1, CertificateAdded DEF AllBalanced
  <2> QED BY <1>3, <1>4, <1>6, <1>7, <2>1, <2>2, OneExamMoves
<1>8. CASE req[r].exam = 0
  <2>1. \A p \in Requests : req'[p] = IF p = r THEN Idle ELSE req[p]
    BY <1>4, <1>8 DEF Typed, TypeOK
  <2>2. Filed'
    BY <1>3, <1>4, <1>6, <2>1 DEF AllBalanced, Filed
  <2>3. ASSUME NEW e \in DOMAIN exams PROVE Balanced(e)'
    <3>1. ~Issues(Idle, e) /\ ~Passes(Idle, e) /\ Issued(e)' = Issued(e)
      BY <1>2, <1>3, <1>6, <1>8 DEF Issues, Passes
    <3> QED BY <1>4, <1>8, <3>1, QuietMove DEF AllBalanced
  <2> QED BY <1>4, <2>2, <2>3 DEF AllBalanced
<1> QED BY <1>7, <1>8

LEMMA ScheduleBalanced ==
    ASSUME Typed, AllBalanced, NEW r \in Requests, NEW s \in Students, NEW to \in Belts,
           Schedule(r, s, to)
    PROVE  AllBalanced'
<1> DEFINE row == [of |-> s, to |-> to, result |-> "PENDING", deleted |-> FALSE,
                   certificate |-> 0, reopened |-> 0]
<1>a. PICK new : new = Len(exams) + 1
  OBVIOUS
<1>1. exams' = Append(exams, row) /\ UNCHANGED <<certificates, req>> /\ exams \in Seq(Exam)
  BY DEF Schedule, Typed, TypeOK
<1>2. row.reopened = 0
  OBVIOUS
<1> HIDE DEF row
<1>3. /\ DOMAIN exams' = DOMAIN exams \cup {new} /\ new \notin DOMAIN exams /\ new # 0
      /\ exams'[new].reopened = 0 /\ \A e \in DOMAIN exams : exams'[e] = exams[e]
  BY <1>a, <1>1, <1>2
<1>4. Filed'
  BY <1>1, <1>3 DEF AllBalanced, Filed
<1>5. \A e : Issued(e)' = Issued(e) /\ Issuing(e)' = Issuing(e) /\ Passing(e)' = Passing(e)
  BY <1>1 DEF Issued, Issuing, Passing
<1>6. ASSUME NEW e \in DOMAIN exams PROVE Balanced(e)'
  BY <1>3, <1>5 DEF AllBalanced, Balanced
<1>7. Balanced(new)'
  <2>1. Issued(new) = {} /\ Issuing(new) = {} /\ Passing(new) = {}
    BY <1>3 DEF AllBalanced, Filed, Issued, Issuing, Passing, Passes
  <2>2. Cardinality(Issued(new)') = 0 /\ Cardinality(Issuing(new)') = 0 /\ Cardinality(Passing(new)') = 0
    BY <1>5, <2>1, FS_EmptySet
  <2>3. Cardinality(Requests) * 0 \in Nat /\ Cardinality(Requests) * (1 + 0) \in Nat
    BY Shares, FS_CardinalityType, GradingAssumption
  <2> QED BY <1>3, <2>2, <2>3 DEF Balanced
<1> QED BY <1>3, <1>4, <1>6, <1>7 DEF AllBalanced

LEMMA StepBalanced == Typed /\ AllBalanced /\ [Next]_vars => AllBalanced'
<1>1. ASSUME AllBalanced, UNCHANGED vars PROVE AllBalanced'
  BY <1>1 DEF AllBalanced, Filed, Balanced, Issued, Issuing, Passing, vars
<1> QED BY <1>1, QuietActions, ReadForGradeBalanced, CommitGradeBalanced, InsertBalanced,
           ScheduleBalanced DEF Next, Serve

\* However many requests grade an exam and issue its certificate, there is at most one
\* certificate for each request served at once, and as many again for each time a final
\* result gave way to another (BeltsService.grade, CertificatesService.issueForBeltExam).
THEOREM CertificatesBounded == Spec => []CertificatesPerReopening
<1>1. Init => AllBalanced
  <2>1. ASSUME Init PROVE Filed /\ DOMAIN exams = {}
    BY <2>1 DEF Init, Filed, Idle
  <2> QED BY <2>1 DEF AllBalanced
<1>2. AllBalanced => CertificatesPerReopening
  BY DEF AllBalanced, Balanced, CertificatesPerReopening
<1> QED BY InitTyped, StepTyped, <1>1, <1>2, StepBalanced, PTL DEF Spec
=============================================================================

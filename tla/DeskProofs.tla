------------------------------ MODULE DeskProofs ------------------------------
(***************************************************************************)
(* What Family and EventDesk guarantee for any number of requests,         *)
(* parents, students and events: their types, whose the primary parents    *)
(* are, that a removed parent gains no child, and how far an event can be  *)
(* overbooked.                                                             *)
(***************************************************************************)
EXTENDS EventDesk, FiniteSetTheorems, TLAPS

-----------------------------------------------------------------------------
(* Types of the family's tables.                                           *)

LEMMA IdleTyped == Idle \in RequestState /\ Idle.stage = "idle" /\ Idle.parent = {} /\ Idle.student = {}
BY DEF Idle, RequestState, AtMostOne

LEMMA FamilyInitTyped == FamilyInit => FamilyTypeOK
BY IdleTyped DEF FamilyInit, FamilyTypeOK, RowStates, LinkStates

LEMMA CreditTyped ==
    ASSUME FamilyTypeOK, NEW r \in Requests, Credit(r)
    PROVE  maker' \in [Pairs -> SUBSET Requests]
BY DEF FamilyTypeOK, Credit

\* One request moves to a typed state and the tables keep theirs.
LEMMA MoveTyped ==
    ASSUME FamilyTypeOK, NEW r \in Requests, NEW q \in RequestState, req' = [req EXCEPT ![r] = q],
           parent' \in [Parents -> RowStates], student' \in [Students -> RowStates],
           link' \in [Pairs -> LinkStates], maker' \in [Pairs -> SUBSET Requests]
    PROVE  FamilyTypeOK'
BY DEF FamilyTypeOK

LEMMA RowsTyped ==
    ASSUME FamilyTypeOK, NEW r \in Requests,
           \/ \E s \in Students : RemoveStudent(r, s) \/ CommitAdmit(r, s)
           \/ \E p \in Parents :
                 RemoveParent(r, p) \/ \E children \in SUBSET Students : CreateParent(r, p, children)
           \/ \E p \in Parents, s \in Students : CommitLink(r, p, s) \/ UnlinkChild(r, p, s)
    PROVE  FamilyTypeOK'
<1>a. /\ parent \in [Parents -> RowStates] /\ student \in [Students -> RowStates]
      /\ link \in [Pairs -> LinkStates] /\ maker \in [Pairs -> SUBSET Requests]
      /\ req \in [Requests -> RequestState]
  BY DEF FamilyTypeOK
<1>1. ASSUME NEW s \in Students, RemoveStudent(r, s) PROVE FamilyTypeOK'
  BY <1>a, <1>1 DEF RemoveStudent, FamilyTypeOK, RowStates
<1>2. ASSUME NEW s \in Students, CommitAdmit(r, s) PROVE FamilyTypeOK'
  <2>1. student' \in [Students -> RowStates] /\ link' \in [Pairs -> LinkStates]
    BY <1>a, <1>2 DEF CommitAdmit, RowStates, LinkStates
  <2>2. req' = [req EXCEPT ![r] = Idle] /\ UNCHANGED parent /\ Credit(r)
    BY <1>2 DEF CommitAdmit, Finish
  <2> QED BY <1>a, <2>1, <2>2, CreditTyped, IdleTyped, MoveTyped
<1>3. ASSUME NEW p \in Parents, RemoveParent(r, p) PROVE FamilyTypeOK'
  <2>1. parent' \in [Parents -> RowStates] /\ link' \in [Pairs -> LinkStates]
    BY <1>a, <1>3 DEF RemoveParent, Without, RowStates, LinkStates
  <2>2. req' = [req EXCEPT ![r] = Idle] /\ UNCHANGED student /\ Credit(r)
    BY <1>3 DEF RemoveParent, Finish
  <2> QED BY <1>a, <2>1, <2>2, CreditTyped, IdleTyped, MoveTyped
<1>4. ASSUME NEW p \in Parents, NEW children, CreateParent(r, p, children) PROVE FamilyTypeOK'
  <2>1. parent' \in [Parents -> RowStates] /\ link' \in [Pairs -> LinkStates]
    BY <1>a, <1>4 DEF CreateParent, RowStates, LinkStates
  <2> QED BY <1>a, <1>4, <2>1, CreditTyped DEF CreateParent, FamilyTypeOK
<1>5. ASSUME NEW p \in Parents, NEW s \in Students, CommitLink(r, p, s) PROVE FamilyTypeOK'
  <2>1. link' \in [Pairs -> LinkStates]
    BY <1>a, <1>5 DEF CommitLink, LinkStates
  <2>2. req' = [req EXCEPT ![r] = Idle] /\ UNCHANGED <<parent, student>> /\ Credit(r)
    BY <1>5 DEF CommitLink, Finish
  <2> QED BY <1>a, <2>1, <2>2, CreditTyped, IdleTyped, MoveTyped
<1>6. ASSUME NEW p \in Parents, NEW s \in Students, UnlinkChild(r, p, s) PROVE FamilyTypeOK'
  <2>1. link' \in [Pairs -> LinkStates]
    BY <1>a, <1>6 DEF UnlinkChild, LinkStates
  <2> QED BY <1>a, <1>6, <2>1, CreditTyped DEF UnlinkChild, FamilyTypeOK
<1> QED BY <1>1, <1>2, <1>3, <1>4, <1>5, <1>6

LEMMA ReadsTyped ==
    ASSUME FamilyTypeOK, NEW r \in Requests,
           \/ \E with \in AtMostOne(Parents) : CheckAdmit(r, with)
           \/ \E s \in Students : ClearPrimary(r, s)
           \/ \E p \in Parents : ReadForRemove(r, p)
           \/ \E p \in Parents, s \in Students, primary \in BOOLEAN : CheckLink(r, p, s, primary)
           \/ Abandon(r)
    PROVE  FamilyTypeOK'
<1>a. /\ parent \in [Parents -> RowStates] /\ student \in [Students -> RowStates]
      /\ link \in [Pairs -> LinkStates] /\ maker \in [Pairs -> SUBSET Requests]
      /\ req \in [Requests -> RequestState] /\ req[r] \in RequestState
  BY DEF FamilyTypeOK
<1>b. ASSUME NEW q \in RequestState, req' = [req EXCEPT ![r] = q], UNCHANGED Rows
      PROVE  FamilyTypeOK'
  BY <1>a, <1>b, MoveTyped DEF Rows
<1>1. ASSUME NEW s \in Students, ClearPrimary(r, s) PROVE FamilyTypeOK'
  <2>1. PICK cleared \in SUBSET Parents :
            cleared = IF req[r].primary THEN Demoted(s) ELSE {}
    BY DEF Demoted, Primaries
  <2>2. PICK q : q = [req[r] EXCEPT !.stage = "cleared", !.cleared = cleared]
    OBVIOUS
  <2>3. q \in RequestState
    BY <1>a, <2>2 DEF RequestState
  <2>4. req' = [req EXCEPT ![r] = q] /\ UNCHANGED Rows
    BY <1>a, <1>1, <2>1, <2>2 DEF ClearPrimary
  <2> QED BY <1>b, <2>3, <2>4
<1>2. ASSUME NEW p \in Parents, ReadForRemove(r, p) PROVE FamilyTypeOK'
  <2>1. PICK q : q = [Idle EXCEPT !.stage = "remove", !.parent = {p}]
    OBVIOUS
  <2>2. q \in RequestState
    BY <2>1 DEF Idle, RequestState, AtMostOne
  <2>3. req' = [req EXCEPT ![r] = q] /\ UNCHANGED Rows
    BY <1>2, <2>1 DEF ReadForRemove, Begin
  <2> QED BY <1>b, <2>2, <2>3
<1>3. ASSUME NEW p \in Parents, NEW s \in Students, NEW primary \in BOOLEAN,
             CheckLink(r, p, s, primary)
      PROVE  FamilyTypeOK'
  <2>1. PICK q : q = [Idle EXCEPT !.stage = "link", !.parent = {p}, !.student = {s},
                                  !.primary = primary]
    OBVIOUS
  <2>2. q \in RequestState
    BY <2>1 DEF Idle, RequestState, AtMostOne
  <2>3. req' = [req EXCEPT ![r] = q] /\ UNCHANGED Rows
    BY <1>3, <2>1 DEF CheckLink, Begin
  <2> QED BY <1>b, <2>2, <2>3
<1>4. ASSUME NEW with \in AtMostOne(Parents), CheckAdmit(r, with) PROVE FamilyTypeOK'
  <2>1. PICK q : q = [Idle EXCEPT !.stage = "admit", !.parent = with]
    OBVIOUS
  <2>2. q \in RequestState
    BY IdleTyped, <2>1 DEF RequestState
  <2>3. req' = [req EXCEPT ![r] = q] /\ UNCHANGED Rows
    BY <1>4, <2>1 DEF CheckAdmit, Begin
  <2> QED BY <1>b, <2>2, <2>3
<1>5. CASE Abandon(r)
  BY <1>b, <1>5, IdleTyped DEF Abandon, Finish
<1> QED BY <1>1, <1>2, <1>3, <1>4, <1>5

LEMMA FamilyStepTyped ==
    ASSUME FamilyTypeOK, \/ \E r \in Requests : ServeFamily(r)
                         \/ UNCHANGED familyVars
    PROVE  FamilyTypeOK'
<1>1. CASE UNCHANGED familyVars
  BY <1>1 DEF FamilyTypeOK, familyVars
<1> QED BY <1>1, RowsTyped, ReadsTyped DEF ServeFamily

-----------------------------------------------------------------------------
(* Types of the events.                                                    *)

EventTypeOK ==
    /\ event \in [Events -> Event]
    /\ registration \in [Entries -> {"none", "PENDING", "REGISTERED", "CANCELLED"}]
    /\ ceiling \in [Events -> Nat]
    /\ desk \in [Requests -> DeskState]
    /\ \A x \in Entries : registration[x] # "none" => Exists(x[1])

LEMMA QuietTyped == Quiet \in DeskState /\ Quiet.event = {}
BY DEF Quiet, DeskState, Actors

LEMMA EventInitTyped == Init => EventTypeOK
<1> SUFFICES ASSUME Init PROVE EventTypeOK
  OBVIOUS
<1>1. NoEvent \in Event
  BY DEF NoEvent, Event, RowStates, EventStatus
<1> QED BY <1>1, QuietTyped DEF Init, EventTypeOK

LEMMA EventsTyped ==
    ASSUME EventTypeOK, NEW e \in Events,
           \/ \E row \in EventRows : CreateEvent(e, row) \/ UpdateEvent(e, row)
           \/ Publish(e) \/ RemoveEvent(e)
    PROVE  EventTypeOK'
<1>a. /\ event \in [Events -> Event] /\ event[e] \in Event /\ event[e].capacity \in Nat
      /\ registration \in [Entries -> {"none", "PENDING", "REGISTERED", "CANCELLED"}]
      /\ ceiling \in [Events -> Nat] /\ ceiling[e] \in Nat /\ desk \in [Requests -> DeskState]
      /\ \A x \in Entries : registration[x] # "none" => Exists(x[1])
  BY DEF EventTypeOK, Event
<1>1. ASSUME NEW row \in Event, row.row = "live", CreateEvent(e, row) \/ UpdateEvent(e, row)
      PROVE  EventTypeOK'
  <2>1. row.capacity \in Nat
    BY DEF Event
  <2>2. Raised(ceiling[e], row.capacity) \in Nat
    BY <1>a, <2>1 DEF Raised
  <2>3. ceiling' \in [Events -> Nat]
    BY <1>a, <1>1, <2>1, <2>2 DEF CreateEvent, UpdateEvent
  <2>4. event' \in [Events -> Event] /\ \A d \in Events : Exists(d) => event'[d].row = "live"
    BY <1>a, <1>1 DEF CreateEvent, UpdateEvent, Exists
  <2>5. \A x \in Entries : x[1] \in Events
    BY DEF Entries
  <2>6. UNCHANGED <<registration, desk>>
    BY <1>1 DEF CreateEvent, UpdateEvent
  <2> QED BY <1>a, <2>3, <2>4, <2>5, <2>6 DEF EventTypeOK, Exists
<1>2. EventRows \subseteq Event /\ \A row \in EventRows : row.row = "live"
  BY EventAssumption
<1>3. CASE Publish(e)
  <2>1. PICK row : row = [event[e] EXCEPT !.status = "PUBLISHED"]
    OBVIOUS
  <2>2. row \in Event /\ row.row = event[e].row
    BY <1>a, <2>1 DEF Event, EventStatus
  <2> QED BY <1>1, <1>3, <2>1, <2>2 DEF Publish, UpdateEvent, Exists
<1>4. CASE RemoveEvent(e)
  <2>1. event' \in [Events -> Event]
    BY <1>a, <1>4 DEF RemoveEvent, Event, RowStates
  <2>2. /\ registration' \in [Entries -> {"none", "PENDING", "REGISTERED", "CANCELLED"}]
        /\ \A x \in Entries : registration'[x] # "none" => x[1] # e /\ registration[x] # "none"
    BY <1>a, <1>4 DEF RemoveEvent, WithoutEvent
  <2>3. \A d \in Events : d # e => event'[d] = event[d]
    BY <1>a, <1>4 DEF RemoveEvent
  <2>4. \A x \in Entries : x[1] \in Events
    BY DEF Entries
  <2> QED BY <1>a, <1>4, <2>1, <2>2, <2>3, <2>4 DEF RemoveEvent, EventTypeOK, Exists
<1> QED BY <1>1, <1>2, <1>3, <1>4

LEMMA RegisterTyped ==
    ASSUME EventTypeOK, NEW r \in Requests,
           \/ \E e \in Events, s \in Students :
                 \/ \E actor \in Actors : CountForRegister(r, e, s, actor)
                 \/ InsertRegistration(r, e, s) \/ CancelRegistration(e, s)
           \/ AssertStudentAccess(r) \/ Drop(r)
    PROVE  EventTypeOK'
<1>a. /\ event \in [Events -> Event]
      /\ registration \in [Entries -> {"none", "PENDING", "REGISTERED", "CANCELLED"}]
      /\ ceiling \in [Events -> Nat] /\ desk \in [Requests -> DeskState]
      /\ desk[r] \in DeskState
      /\ \A x \in Entries : registration[x] # "none" => Exists(x[1])
  BY DEF EventTypeOK
<1>1. ASSUME NEW e \in Events, NEW s \in Students, NEW actor \in Actors,
             CountForRegister(r, e, s, actor)
      PROVE  EventTypeOK'
  <2>1. PICK q : q = [stage |-> "counted", event |-> {e}, student |-> {s},
                      actor |-> actor, approval |-> event[e].approval]
    OBVIOUS
  <2>2. event[e].approval \in BOOLEAN
    BY <1>a DEF Event
  <2>3. q \in DeskState
    BY <2>1, <2>2 DEF DeskState
  <2>4. desk' = [desk EXCEPT ![r] = q] /\ UNCHANGED <<event, registration, ceiling>>
    BY <1>1, <2>1 DEF CountForRegister
  <2> QED BY <1>a, <2>3, <2>4 DEF EventTypeOK, Exists
<1>2. ASSUME NEW e \in Events, NEW s \in Students, InsertRegistration(r, e, s) PROVE EventTypeOK'
  <2>1. registration' \in [Entries -> {"none", "PENDING", "REGISTERED", "CANCELLED"}]
    BY <1>a, <1>2 DEF InsertRegistration
  <2>2. \A x \in Entries : registration'[x] # "none" => registration[x] # "none" \/ x = <<e, s>>
    BY <1>a, <1>2 DEF InsertRegistration
  <2>3. desk' \in [Requests -> DeskState] /\ Exists(e) /\ UNCHANGED <<event, ceiling>>
    BY <1>a, <1>2, QuietTyped DEF InsertRegistration
  <2> QED BY <1>a, <2>1, <2>2, <2>3 DEF EventTypeOK, Exists
<1>3. ASSUME NEW e \in Events, NEW s \in Students, CancelRegistration(e, s) PROVE EventTypeOK'
  <2>1. /\ registration' \in [Entries -> {"none", "PENDING", "REGISTERED", "CANCELLED"}]
        /\ \A x \in Entries : registration'[x] # "none" => registration[x] # "none"
    BY <1>a, <1>3 DEF CancelRegistration
  <2> QED BY <1>a, <1>3, <2>1 DEF CancelRegistration, EventTypeOK, Exists
<1>4. CASE AssertStudentAccess(r)
  <2>1. PICK q : q = [desk[r] EXCEPT !.stage = "admitted"]
    OBVIOUS
  <2>2. q \in DeskState
    BY <1>a, <2>1 DEF DeskState
  <2>3. desk' = [desk EXCEPT ![r] = q] /\ UNCHANGED <<event, registration, ceiling>>
    BY <1>a, <1>4, <2>1 DEF AssertStudentAccess
  <2> QED BY <1>a, <2>2, <2>3 DEF EventTypeOK, Exists
<1>5. CASE Drop(r)
  BY <1>a, <1>5, QuietTyped DEF Drop, EventTypeOK, Exists
<1> QED BY <1>1, <1>2, <1>3, <1>4, <1>5

LEMMA StepTyped == TypeOK /\ [Next]_vars => TypeOK'
<1>1. TypeOK <=> FamilyTypeOK /\ EventTypeOK
  BY DEF TypeOK, EventTypeOK
<1>2. TypeOK' <=> FamilyTypeOK' /\ EventTypeOK'
  BY DEF TypeOK, EventTypeOK
<1>3. ASSUME EventTypeOK, UNCHANGED eventVars PROVE EventTypeOK'
  BY <1>3 DEF EventTypeOK, eventVars, Exists
<1> QED BY <1>1, <1>2, <1>3, FamilyStepTyped, EventsTyped, RegisterTyped DEF Next, vars, ServeDesk

LEMMA InitTyped == Init => TypeOK
<1>1. Init => FamilyTypeOK /\ EventTypeOK
  BY FamilyInitTyped, EventInitTyped DEF Init
<1> QED BY <1>1 DEF TypeOK, EventTypeOK

\* The tables keep their types, and no registration outlives its event (ParentsService,
\* EventsService.remove).
THEOREM TypesCorrect == Spec => []TypeOK
<1> QED BY InitTyped, StepTyped, PTL DEF Spec

-----------------------------------------------------------------------------
(* Removed parents.                                                        *)

Gone(p) == parent[p] = "deleted" /\ Linking(p) = {}
NoGain(p) ==
    /\ Linking(p)' = {}
    /\ \A s \in Students : link'[<<p, s>>] # "none" => link[<<p, s>>] # "none"

LEMMA NobodyLinks ==
    ASSUME FamilyTypeOK, NEW p \in Parents, Gone(p), NEW r \in Requests, NEW q,
           p \notin q.parent \/ q.stage \notin {"admit", "link", "cleared"}, req' = [req EXCEPT ![r] = q]
    PROVE  Linking(p)' = {}
<1>1. \A o \in Requests : req'[o] = IF o = r THEN q ELSE req[o]
  BY DEF FamilyTypeOK
<1> QED BY <1>1 DEF Linking, Gone

LEMMA StepGone ==
    ASSUME FamilyTypeOK, NEW p \in Parents, Gone(p), [\E r \in Requests : ServeFamily(r)]_familyVars
    PROVE  NoGain(p)
<1>a. /\ parent \in [Parents -> RowStates] /\ link \in [Pairs -> LinkStates]
      /\ req \in [Requests -> RequestState] /\ Idle.stage = "idle"
      /\ \A s \in Students : <<p, s>> \in Pairs
  BY IdleTyped DEF FamilyTypeOK, Pairs
<1>b. ASSUME UNCHANGED req, \A s \in Students : link'[<<p, s>>] # "none" => link[<<p, s>>] # "none"
      PROVE  NoGain(p)
  BY <1>b DEF NoGain, Gone, Linking
<1>c. ASSUME NEW r \in Requests, req' = [req EXCEPT ![r] = Idle],
             \A s \in Students : link'[<<p, s>>] # "none" => link[<<p, s>>] # "none"
      PROVE  NoGain(p)
  BY <1>a, <1>c, NobodyLinks DEF NoGain
<1>d. ASSUME NEW r \in Requests, NEW q, p \notin q.parent \/ q.stage \notin {"admit", "link", "cleared"},
             req' = [req EXCEPT ![r] = q], UNCHANGED link
      PROVE  NoGain(p)
  BY <1>d, NobodyLinks DEF NoGain
<1>1. ASSUME NEW r \in Requests, NEW s \in Students, CommitAdmit(r, s) PROVE NoGain(p)
  <2>1. p \notin req[r].parent
    BY <1>1 DEF CommitAdmit, Gone, Linking
  <2>2. \A t \in Students : link'[<<p, t>>] = link[<<p, t>>]
    BY <1>a, <1>1, <2>1 DEF CommitAdmit
  <2> QED BY <1>c, <1>1, <2>2 DEF CommitAdmit, Finish
<1>2. ASSUME NEW r \in Requests, NEW s \in Students, RemoveStudent(r, s) PROVE NoGain(p)
  BY <1>b, <1>2 DEF RemoveStudent
<1>3. ASSUME NEW r \in Requests, NEW s \in Students, ClearPrimary(r, s) PROVE NoGain(p)
  <2>1. PICK cleared : cleared = IF req[r].primary THEN Demoted(s) ELSE {}
    OBVIOUS
  <2>2. PICK q : q = [req[r] EXCEPT !.stage = "cleared", !.cleared = cleared]
    OBVIOUS
  <2>3. q.parent = req[r].parent
    BY <1>a, <2>2 DEF RequestState
  <2>4. p \notin req[r].parent
    BY <1>3 DEF ClearPrimary, Gone, Linking
  <2>5. req' = [req EXCEPT ![r] = q] /\ UNCHANGED link
    BY <1>a, <1>3, <2>1, <2>2 DEF ClearPrimary, Rows
  <2> QED BY <1>d, <2>3, <2>4, <2>5
<1>4. ASSUME NEW r \in Requests, NEW o \in Parents, ReadForRemove(r, o) PROVE NoGain(p)
  <2>1. PICK q : q = [Idle EXCEPT !.stage = "remove", !.parent = {o}]
    OBVIOUS
  <2>2. q.stage = "remove"
    BY <2>1 DEF Idle
  <2>3. req' = [req EXCEPT ![r] = q] /\ UNCHANGED link
    BY <1>4, <2>1 DEF ReadForRemove, Begin, Rows
  <2> QED BY <1>d, <2>2, <2>3
<1>5. ASSUME NEW r \in Requests, NEW o \in Parents, RemoveParent(r, o) PROVE NoGain(p)
  <2>1. \A s \in Students : link'[<<p, s>>] # "none" => link[<<p, s>>] # "none"
    BY <1>a, <1>5 DEF RemoveParent, Without
  <2> QED BY <1>c, <1>5, <2>1 DEF RemoveParent, Finish
<1>6. ASSUME NEW r \in Requests, NEW o \in Parents, NEW children \in SUBSET Students,
             CreateParent(r, o, children)
      PROVE  NoGain(p)
  <2>1. o # p
    BY <1>6 DEF CreateParent, Gone
  <2>2. \A s \in Students : link'[<<p, s>>] = link[<<p, s>>]
    BY <1>a, <1>6, <2>1 DEF CreateParent
  <2> QED BY <1>b, <1>6, <2>2 DEF CreateParent
<1>7. ASSUME NEW r \in Requests, NEW o \in Parents, NEW s \in Students, CommitLink(r, o, s)
      PROVE  NoGain(p)
  <2>1. o # p
    BY <1>7 DEF CommitLink, Gone, Linking
  <2>2. \A t \in Students : link'[<<p, t>>] # "none" => link[<<p, t>>] # "none"
    BY <1>a, <1>7, <2>1 DEF CommitLink
  <2> QED BY <1>c, <1>7, <2>2 DEF CommitLink, Finish
<1>8. ASSUME NEW r \in Requests, NEW o \in Parents, NEW s \in Students, UnlinkChild(r, o, s)
      PROVE  NoGain(p)
  <2>1. \A t \in Students : link'[<<p, t>>] # "none" => link[<<p, t>>] # "none"
    BY <1>a, <1>8 DEF UnlinkChild
  <2> QED BY <1>b, <1>8, <2>1 DEF UnlinkChild
<1>9. ASSUME NEW r \in Requests, NEW o \in Parents, NEW s \in Students, NEW primary \in BOOLEAN,
             CheckLink(r, o, s, primary)
      PROVE  NoGain(p)
  <2>1. PICK q : q = [Idle EXCEPT !.stage = "link", !.parent = {o}, !.student = {s},
                                  !.primary = primary]
    OBVIOUS
  <2>2. q.parent = {o} /\ o # p
    BY <1>9, <2>1 DEF Idle, CheckLink, BelongsToAcademy, Gone
  <2>3. req' = [req EXCEPT ![r] = q] /\ UNCHANGED link
    BY <1>9, <2>1 DEF CheckLink, Begin, Rows
  <2> QED BY <1>d, <2>2, <2>3
<1>10. ASSUME NEW r \in Requests, Abandon(r) PROVE NoGain(p)
  BY <1>c, <1>10 DEF Abandon, Finish, Rows
<1>11. ASSUME NEW r \in Requests, NEW with \in AtMostOne(Parents), CheckAdmit(r, with)
       PROVE  NoGain(p)
  <2>1. PICK q : q = [Idle EXCEPT !.stage = "admit", !.parent = with]
    OBVIOUS
  <2>2. q.parent = with /\ p \notin with
    BY <1>11, <2>1 DEF Idle, CheckAdmit, Gone
  <2>3. req' = [req EXCEPT ![r] = q] /\ UNCHANGED link
    BY <1>11, <2>1 DEF CheckAdmit, Begin, Rows
  <2> QED BY <1>d, <2>2, <2>3
<1>12. CASE UNCHANGED familyVars
  BY <1>b, <1>12 DEF familyVars
<1> QED BY <1>1, <1>2, <1>3, <1>4, <1>5, <1>6, <1>7, <1>8, <1>9, <1>10, <1>11, <1>12
        DEF ServeFamily

\* linkChild (ParentsService) and the admission of a student (StudentsService.create) look the
\* parent up before the transaction that links it: when no request that did is under way any
\* more, a removed parent gains no child again.
THEOREM RemovedParentsStayApart == Spec => RemovedParentGainsNoChild
<1>1. TypeOK /\ [Next]_vars => FamilyTypeOK /\ [\E r \in Requests : ServeFamily(r)]_familyVars
  BY DEF TypeOK, Next, vars
<1>2. FamilyTypeOK /\ [\E r \in Requests : ServeFamily(r)]_familyVars =>
         [\A p \in Parents :
             parent[p] = "deleted" /\ Linking(p) = {} =>
                /\ Linking(p)' = {}
                /\ \A s \in Students : link'[<<p, s>>] # "none" => link[<<p, s>>] # "none"]_familyVars
  BY StepGone DEF Gone, NoGain
<1> QED BY <1>1, <1>2, InitTyped, StepTyped, PTL DEF Spec, RemovedParentGainsNoChild

-----------------------------------------------------------------------------
(* Primary parents.                                                        *)

\* Two primary parents are of two requests: for a request about to make a third has seen
\* those of its own making, as it makes none between its two steps.
Attributed ==
    /\ OnePrimaryPerRequest
    /\ \A x \in Pairs : link[x] # "none" => student[x[2]] # "none"
    /\ \A r \in Requests : \A s \in req[r].student :
          /\ student[s] # "none"
          /\ req[r].student = {s}
    /\ \A r \in Requests : \A s \in req[r].student : \A q \in Primaries(s) :
          req[r].stage = "cleared" /\ req[r].primary /\ r \in maker[<<q, s>>] => q \in req[r].cleared

LEMMA InitAttributed == FamilyInit => Attributed
<1> SUFFICES ASSUME FamilyInit PROVE Attributed
  OBVIOUS
<1>1. \A x \in Pairs : link[x] = "none"
  BY DEF FamilyInit
<1>2. \A p \in Parents, s \in Students : <<p, s>> \in Pairs
  BY DEF Pairs
<1>3. \A s \in Students : Primaries(s) = {}
  BY <1>1, <1>2 DEF Primaries
<1>4. \A r \in Requests : req[r].student = {}
  BY IdleTyped DEF FamilyInit
<1> QED BY <1>1, <1>3, <1>4 DEF Attributed, OnePrimaryPerRequest

\* A step that makes no link the primary one, and clears with the primary ones in sight.
LEMMA NoNewPrimary ==
    ASSUME FamilyTypeOK, FamilyTypeOK', Attributed,
           \A x \in Pairs : link'[x] = "primary" => link[x] = "primary" /\ maker'[x] = maker[x],
           \A x \in Pairs : link'[x] # "none" => student'[x[2]] # "none",
           \A r \in Requests : \A s \in req'[r].student : student'[s] # "none" /\ req'[r].student = {s},
           \A r \in Requests : req'[r].stage = "cleared" /\ req'[r].primary =>
               req'[r] = req[r] \/ \A s \in req'[r].student : Primaries(s) \subseteq req'[r].cleared
    PROVE  Attributed'
<1>1. \A p \in Parents, s \in Students : <<p, s>> \in Pairs
  BY DEF Pairs
<1>2. ASSUME NEW s \in Students, NEW p \in Primaries(s)'
      PROVE  p \in Primaries(s) /\ maker'[<<p, s>>] = maker[<<p, s>>]
  BY <1>1, <1>2 DEF Primaries
<1>3. OnePrimaryPerRequest'
  BY <1>2 DEF OnePrimaryPerRequest, Attributed
<1>4. ASSUME NEW r \in Requests, NEW s \in req'[r].student, NEW q \in Primaries(s)',
             req'[r].stage = "cleared", req'[r].primary, r \in maker'[<<q, s>>]
      PROVE  q \in req'[r].cleared
  <2>1. CASE req'[r] = req[r]
    <3>1. s \in Students
      BY <2>1 DEF FamilyTypeOK, RequestState, AtMostOne
    <3>2. q \in Primaries(s) /\ r \in maker[<<q, s>>]
      BY <1>2, <1>4, <3>1
    <3> QED BY <1>4, <2>1, <3>2 DEF Attributed
  <2>2. CASE \A t \in req'[r].student : Primaries(t) \subseteq req'[r].cleared
    <3>1. s \in Students
      BY DEF FamilyTypeOK, RequestState, AtMostOne
    <3> QED BY <1>2, <2>2, <3>1
  <2> QED BY <1>4, <2>1, <2>2
<1> QED BY <1>3, <1>4 DEF Attributed

\* Such a step of one request.
LEMMA OneMoves ==
    ASSUME FamilyTypeOK, FamilyTypeOK', Attributed,
           \A x \in Pairs : link'[x] = "primary" => link[x] = "primary" /\ maker'[x] = maker[x],
           \A x \in Pairs : link'[x] # "none" => student'[x[2]] # "none",
           \A s \in Students : student[s] # "none" => student'[s] # "none",
           NEW r \in Requests, NEW q, req' = [req EXCEPT ![r] = q],
           \A s \in q.student : student'[s] # "none" /\ q.student = {s},
           q.stage = "cleared" /\ q.primary => \A s \in q.student : Primaries(s) \subseteq q.cleared
    PROVE  Attributed'
<1>1. \A p \in Requests : req'[p] = IF p = r THEN q ELSE req[p]
  BY DEF FamilyTypeOK
<1>2. \A p \in Requests : req[p].student \subseteq Students
  BY DEF FamilyTypeOK, RequestState, AtMostOne
<1>3. \A p \in Requests : \A s \in req'[p].student : student'[s] # "none" /\ req'[p].student = {s}
  BY <1>1, <1>2 DEF Attributed
<1>4. \A p \in Requests : req'[p].stage = "cleared" /\ req'[p].primary =>
          req'[p] = req[p] \/ \A s \in req'[p].student : Primaries(s) \subseteq req'[p].cleared
  BY <1>1
<1> QED BY <1>3, <1>4, NoNewPrimary

LEMMA CreditFacts ==
    ASSUME FamilyTypeOK, NEW r \in Requests, Credit(r)
    PROVE  \A x \in Pairs : link'[x] = "primary" =>
               maker'[x] = IF link[x] = "primary" THEN maker[x] ELSE {r}
BY DEF Credit

LEMMA QuietAttributed ==
    ASSUME FamilyTypeOK, FamilyTypeOK', Attributed, NEW r \in Requests,
           \/ \E s \in Students : RemoveStudent(r, s) \/ ClearPrimary(r, s)
           \/ \E p \in Parents :
                 ReadForRemove(r, p) \/ RemoveParent(r, p)
                   \/ \E children \in SUBSET Students : CreateParent(r, p, children)
           \/ \E p \in Parents, s \in Students :
                 UnlinkChild(r, p, s) \/ \E primary \in BOOLEAN : CheckLink(r, p, s, primary)
           \/ \E with \in AtMostOne(Parents) : CheckAdmit(r, with)
           \/ Abandon(r)
    PROVE  Attributed'
<1>a. /\ student \in [Students -> RowStates] /\ link \in [Pairs -> LinkStates]
      /\ req \in [Requests -> RequestState] /\ req[r] \in RequestState
      /\ req' = [req EXCEPT ![r] = req[r]] <=> UNCHANGED req
  BY DEF FamilyTypeOK
<1>b. \A x \in Pairs : /\ link[x] # "none" => student[x[2]] # "none"
                        /\ x[1] \in Parents /\ x[2] \in Students
  BY DEF Attributed, Pairs
<1>c. Idle.student = {} /\ Idle.stage = "idle"
  BY IdleTyped
<1>d. ASSUME NEW q, req' = [req EXCEPT ![r] = q], UNCHANGED <<student, link, maker>>,
             \A s \in q.student : student[s] # "none" /\ q.student = {s},
             q.stage = "cleared" /\ q.primary => \A s \in q.student : Primaries(s) \subseteq q.cleared
      PROVE  Attributed'
  BY <1>b, <1>d, OneMoves
<1>e. ASSUME UNCHANGED req,
             \A x \in Pairs : link'[x] = "primary" => link[x] = "primary" /\ maker'[x] = maker[x],
             \A x \in Pairs : link'[x] # "none" => student'[x[2]] # "none",
             \A s \in Students : student[s] # "none" => student'[s] # "none"
      PROVE  Attributed'
  <2>1. \A p \in Requests : req[p].student \subseteq Students
    BY DEF FamilyTypeOK, RequestState, AtMostOne
  <2>2. \A p \in Requests : \A s \in req'[p].student : student'[s] # "none" /\ req'[p].student = {s}
    BY <1>e, <2>1 DEF Attributed
  <2> QED BY <1>e, <2>2, NoNewPrimary
<1>1. ASSUME NEW s \in Students, RemoveStudent(r, s) PROVE Attributed'
  <2>1. \A t \in Students : student[t] # "none" => student'[t] # "none"
    BY <1>a, <1>1 DEF RemoveStudent
  <2>2. UNCHANGED <<link, maker, req>>
    BY <1>1 DEF RemoveStudent
  <2> QED BY <1>b, <1>e, <2>1, <2>2
<1>2. ASSUME NEW s \in Students, ClearPrimary(r, s) PROVE Attributed'
  <2>1. PICK cleared : cleared = IF req[r].primary THEN Demoted(s) ELSE {}
    OBVIOUS
  <2>2. PICK q : q = [req[r] EXCEPT !.stage = "cleared", !.cleared = cleared]
    OBVIOUS
  <2>3. q.student = req[r].student /\ q.primary = req[r].primary /\ q.cleared = cleared
    BY <1>a, <2>2 DEF RequestState
  <2>4. req[r].student = {s} /\ student[s] # "none"
    BY <1>2 DEF ClearPrimary, Attributed
  <2>5. req' = [req EXCEPT ![r] = q] /\ UNCHANGED <<student, link, maker>>
    BY <1>a, <1>2, <2>1, <2>2 DEF ClearPrimary, Rows
  <2> QED BY <1>d, <2>1, <2>3, <2>4, <2>5 DEF Demoted
<1>3. ASSUME NEW p \in Parents, ReadForRemove(r, p) PROVE Attributed'
  <2>1. PICK q : q = [Idle EXCEPT !.stage = "remove", !.parent = {p}]
    OBVIOUS
  <2>2. q.stage = "remove" /\ q.student = {}
    BY <2>1 DEF Idle
  <2>3. req' = [req EXCEPT ![r] = q] /\ UNCHANGED <<student, link, maker>>
    BY <1>3, <2>1 DEF ReadForRemove, Begin, Rows
  <2> QED BY <1>d, <2>2, <2>3
<1>4. ASSUME NEW p \in Parents, RemoveParent(r, p) PROVE Attributed'
  <2>1. \A x \in Pairs : link'[x] # "none" => link'[x] = link[x]
    BY <1>a, <1>4 DEF RemoveParent, Without
  <2>2. \A x \in Pairs : link'[x] = "primary" => link[x] = "primary" /\ maker'[x] = maker[x]
    BY <1>4, <2>1, CreditFacts DEF RemoveParent
  <2>3. req' = [req EXCEPT ![r] = Idle] /\ UNCHANGED student
    BY <1>4 DEF RemoveParent, Finish
  <2> QED BY <1>b, <1>c, <2>1, <2>2, <2>3, OneMoves
<1>5. ASSUME NEW p \in Parents, NEW children \in SUBSET Students, CreateParent(r, p, children)
      PROVE  Attributed'
  <2>1. \A x \in Pairs : link'[x] = link[x] \/ (link'[x] = "plain" /\ student[x[2]] = "live")
    BY <1>a, <1>5 DEF CreateParent
  <2>2. \A x \in Pairs : link'[x] = "primary" => link[x] = "primary" /\ maker'[x] = maker[x]
    BY <1>5, <2>1, CreditFacts DEF CreateParent
  <2> QED BY <1>b, <1>e, <1>5, <2>1, <2>2 DEF CreateParent
<1>6. ASSUME NEW p \in Parents, NEW s \in Students, UnlinkChild(r, p, s) PROVE Attributed'
  <2>1. \A x \in Pairs : link'[x] # "none" => link'[x] = link[x]
    BY <1>a, <1>6 DEF UnlinkChild
  <2>2. \A x \in Pairs : link'[x] = "primary" => link[x] = "primary" /\ maker'[x] = maker[x]
    BY <1>6, <2>1, CreditFacts DEF UnlinkChild
  <2> QED BY <1>b, <1>e, <1>6, <2>1, <2>2 DEF UnlinkChild
<1>7. ASSUME NEW p \in Parents, NEW s \in Students, NEW primary \in BOOLEAN,
             CheckLink(r, p, s, primary)
      PROVE  Attributed'
  <2>1. PICK q : q = [Idle EXCEPT !.stage = "link", !.parent = {p}, !.student = {s},
                                  !.primary = primary]
    OBVIOUS
  <2>2. q.student = {s} /\ q.stage = "link" /\ student[s] # "none"
    BY <1>7, <2>1 DEF Idle, CheckLink
  <2>3. req' = [req EXCEPT ![r] = q] /\ UNCHANGED <<student, link, maker>>
    BY <1>7, <2>1 DEF CheckLink, Begin, Rows
  <2> QED BY <1>d, <2>2, <2>3
<1>8. ASSUME NEW with \in AtMostOne(Parents), CheckAdmit(r, with) PROVE Attributed'
  <2>1. PICK q : q = [Idle EXCEPT !.stage = "admit", !.parent = with]
    OBVIOUS
  <2>2. q.stage = "admit" /\ q.student = {}
    BY <2>1 DEF Idle
  <2>3. req' = [req EXCEPT ![r] = q] /\ UNCHANGED <<student, link, maker>>
    BY <1>8, <2>1 DEF CheckAdmit, Begin, Rows
  <2> QED BY <1>d, <2>2, <2>3
<1>9. CASE Abandon(r)
  BY <1>c, <1>d, <1>9 DEF Abandon, Finish, Rows
<1> QED BY <1>1, <1>2, <1>3, <1>4, <1>5, <1>6, <1>7, <1>8, <1>9

\* A student that is admitted has no link yet, and gets one primary parent at most.
LEMMA AdmitAttributed ==
    ASSUME FamilyTypeOK, FamilyTypeOK', Attributed, NEW r \in Requests, NEW s \in Students,
           CommitAdmit(r, s)
    PROVE  Attributed'
<1> DEFINE with == req[r].parent
<1>a. /\ student \in [Students -> RowStates] /\ link \in [Pairs -> LinkStates]
      /\ req \in [Requests -> RequestState] /\ with \subseteq Parents
      /\ \A p, q \in with : p = q
      /\ \A p \in Requests : req[p].student \subseteq Students
  BY DEF FamilyTypeOK, RequestState, AtMostOne
<1>1. /\ \A t \in Students : student'[t] = IF t = s THEN "live" ELSE student[t]
      /\ \A x \in Pairs : link'[x] = IF x[2] = s /\ x[1] \in with THEN "primary" ELSE link[x]
      /\ \A o \in Requests : req'[o] = IF o = r THEN Idle ELSE req[o]
      /\ student[s] = "none" /\ Credit(r)
  BY <1>a DEF CommitAdmit, Finish
<1> HIDE DEF with
<1>2. \A p \in Parents, t \in Students : <<p, t>> \in Pairs /\ <<p, t>>[1] = p /\ <<p, t>>[2] = t
  BY DEF Pairs
<1>3. \A p \in Parents : link[<<p, s>>] = "none"
  BY <1>1, <1>2 DEF Attributed
<1>4. \A p \in Primaries(s)' : p \in with
  BY <1>1, <1>2, <1>3 DEF Primaries
<1>5. ASSUME NEW t \in Students, t # s, NEW p \in Primaries(t)'
      PROVE  p \in Primaries(t) /\ maker'[<<p, t>>] = maker[<<p, t>>]
  <2>1. p \in Parents /\ link'[<<p, t>>] = "primary" /\ link[<<p, t>>] = "primary"
    BY <1>1, <1>2, <1>5 DEF Primaries
  <2> QED BY <1>1, <1>2, <2>1, CreditFacts DEF Primaries
<1>6. OnePrimaryPerRequest'
  <2>1. ASSUME NEW t \in Students, NEW p \in Primaries(t)', NEW q \in Primaries(t)', p # q
        PROVE  maker'[<<p, t>>] \cap maker'[<<q, t>>] = {}
    <3>1. t # s
      BY <1>a, <1>4, <2>1
    <3> QED BY <1>5, <2>1, <3>1 DEF Attributed, OnePrimaryPerRequest
  <2> QED BY <2>1 DEF OnePrimaryPerRequest
<1>7. \A x \in Pairs : link'[x] # "none" => student'[x[2]] # "none"
  <2>1. \A x \in Pairs : x[2] \in Students
    BY DEF Pairs
  <2> QED BY <1>1, <2>1 DEF Attributed
<1>8. \A p \in Requests : \A t \in req'[p].student :
          /\ p # r /\ t \in Students /\ t # s
          /\ student'[t] # "none" /\ req'[p].student = {t}
  BY <1>a, <1>1, IdleTyped DEF Attributed
<1>9. ASSUME NEW p \in Requests, NEW t \in req'[p].student, NEW q \in Primaries(t)',
             req'[p].stage = "cleared", req'[p].primary, p \in maker'[<<q, t>>]
      PROVE  q \in req'[p].cleared
  <2>1. p # r /\ t \in Students /\ t # s
    BY <1>8
  <2>2. q \in Primaries(t) /\ p \in maker[<<q, t>>]
    BY <1>5, <1>9, <2>1
  <2> QED BY <1>1, <1>9, <2>1, <2>2 DEF Attributed
<1> QED BY <1>6, <1>7, <1>8, <1>9 DEF Attributed

\* A request names students that the model has.
LEMMA RequestNames ==
    ASSUME FamilyTypeOK
    PROVE  \A o \in Requests : req[o].student \subseteq Students
<1>1. \A o \in Requests : req[o].student \in AtMostOne(Students)
  BY DEF FamilyTypeOK, RequestState
<1> QED BY <1>1 DEF AtMostOne

\* The request that makes a link the primary one demotes those it made before.
LEMMA CommitAttributed ==
    ASSUME FamilyTypeOK, FamilyTypeOK', Attributed, NEW r \in Requests,
           NEW p \in Parents, NEW s \in Students, CommitLink(r, p, s)
    PROVE  Attributed'
<1>a. /\ link \in [Pairs -> LinkStates] /\ req \in [Requests -> RequestState]
      /\ \A o \in Requests : req[o].student \subseteq Students
      /\ \A q \in Parents, t \in Students : <<q, t>> \in Pairs /\ <<q, t>>[1] = q /\ <<q, t>>[2] = t
      /\ \A x \in Pairs : x[2] \in Students
  <2>1. /\ \A q \in Parents, t \in Students : <<q, t>> \in Pairs /\ <<q, t>>[1] = q /\ <<q, t>>[2] = t
        /\ \A x \in Pairs : x[2] \in Students
    BY DEF Pairs
  <2>2. link \in [Pairs -> LinkStates] /\ req \in [Requests -> RequestState]
    BY DEF FamilyTypeOK
  <2> QED BY <2>1, <2>2, RequestNames
<1>1. /\ req[r].stage = "cleared" /\ p \in req[r].parent /\ s \in req[r].student
      /\ link[<<p, s>>] = "none" /\ UNCHANGED student
      /\ \A o \in Requests : req'[o] = IF o = r THEN Idle ELSE req[o]
      /\ \A x \in Pairs : link'[x] =
                 IF x = <<p, s>> THEN (IF req[r].primary THEN "primary" ELSE "plain")
                 ELSE IF x[2] = s /\ x[1] \in req[r].cleared /\ link[x] = "primary" THEN "plain"
                 ELSE link[x]
  BY <1>a DEF CommitLink, Finish
<1>2. \A x \in Pairs : link'[x] = "primary" =>
               maker'[x] = IF link[x] = "primary" THEN maker[x] ELSE {r}
  BY CreditFacts DEF CommitLink
<1>3. student[s] # "none"
  BY <1>1 DEF Attributed
<1>4. \A x \in Pairs : link'[x] # "none" => student'[x[2]] # "none"
  BY <1>a, <1>1, <1>3 DEF Attributed
<1>5. \A o \in Requests : \A t \in req'[o].student :
          o # r /\ req'[o] = req[o] /\ student'[t] # "none" /\ req'[o].student = {t}
  BY <1>1, IdleTyped DEF Attributed
\* A primary link of now is one of before, kept and credited as it was, or the new one.
<1>6. ASSUME NEW t \in Students, NEW q \in Primaries(t)'
      PROVE  \/ /\ q \in Primaries(t) /\ maker'[<<q, t>>] = maker[<<q, t>>]
                /\ t = s => q \notin req[r].cleared
             \/ q = p /\ t = s /\ maker'[<<q, t>>] = {r} /\ req[r].primary
  <2>1. q \in Parents /\ link'[<<q, t>>] = "primary"
    BY DEF Primaries
  <2>2. CASE <<q, t>> = <<p, s>>
    <3>1. q = p /\ t = s
      BY <2>2
    <3> QED BY <1>a, <1>1, <1>2, <2>1, <3>1
  <2>3. CASE <<q, t>> # <<p, s>>
    <3>1. link[<<q, t>>] = "primary" /\ (t = s => q \notin req[r].cleared)
      BY <1>a, <1>1, <2>1, <2>3
    <3> QED BY <1>a, <1>2, <2>1, <3>1 DEF Primaries
  <2> QED BY <2>2, <2>3
\* Of those before, none that is left is the request's own.
<1>7. ASSUME req[r].primary, NEW q \in Primaries(s), q \notin req[r].cleared
      PROVE  r \notin maker[<<q, s>>]
  BY <1>1, <1>7 DEF Attributed
<1>8. OnePrimaryPerRequest'
  <2>1. ASSUME NEW t \in Students, NEW q \in Primaries(t)', NEW o \in Primaries(t)', q # o
        PROVE  maker'[<<q, t>>] \cap maker'[<<o, t>>] = {}
    BY <1>6, <1>7, <2>1 DEF Attributed, OnePrimaryPerRequest
  <2> QED BY <2>1 DEF OnePrimaryPerRequest
<1>9. ASSUME NEW o \in Requests, NEW t \in req'[o].student, NEW q \in Primaries(t)',
             req'[o].stage = "cleared", req'[o].primary, o \in maker'[<<q, t>>]
      PROVE  q \in req'[o].cleared
  <2>1. o # r /\ req'[o] = req[o] /\ t \in Students
    BY <1>a, <1>5
  <2>2. q \in Primaries(t) /\ o \in maker[<<q, t>>]
    BY <1>6, <1>9, <2>1
  <2> QED BY <1>9, <2>1, <2>2 DEF Attributed
<1> QED BY <1>4, <1>5, <1>8, <1>9 DEF Attributed

LEMMA StepAttributed == TypeOK /\ TypeOK' /\ Attributed /\ [Next]_vars => Attributed'
<1> SUFFICES ASSUME TypeOK, TypeOK', Attributed, [Next]_vars PROVE Attributed'
  OBVIOUS
<1>1. FamilyTypeOK /\ FamilyTypeOK'
  BY DEF TypeOK
<1>2. ASSUME NEW r \in Requests, ServeFamily(r) PROVE Attributed'
  BY <1>1, <1>2, QuietAttributed, AdmitAttributed, CommitAttributed DEF ServeFamily
<1>3. CASE UNCHANGED familyVars
  BY <1>3 DEF familyVars, Attributed, OnePrimaryPerRequest, Primaries
<1> QED BY <1>2, <1>3 DEF Next, vars

\* linkChild (ParentsService) demotes the primary parents its transaction sees: a student that
\* has two has them of two requests that overlapped.
THEOREM PrimariesApart == Spec => []OnePrimaryPerRequest
<1>1. Init => Attributed
  BY InitAttributed DEF Init
<1> QED BY <1>1, InitTyped, StepTyped, StepAttributed, PTL DEF Spec, Attributed

-----------------------------------------------------------------------------
(* Overbooking.                                                            *)

\* The ceiling is no lower than the capacity, and registrations are so many that one more
\* for every request at the desk stays below the bound.
Booked ==
    /\ BookedWithinRequests
    /\ \A e \in Events : IsFiniteSet(Registered(e))
    /\ \A e \in Events : Exists(e) /\ ceiling[e] # 0 =>
          event[e].capacity # 0 /\ event[e].capacity <= ceiling[e]

\* What Booked asks of an event.
BookedFor(e) ==
    /\ IsFiniteSet(Registered(e))
    /\ Exists(e) /\ ceiling[e] # 0 =>
          /\ event[e].capacity # 0 /\ event[e].capacity <= ceiling[e]
          /\ Cardinality(Registered(e)) + Cardinality(Registering(e)) < ceiling[e] + Cardinality(Requests)

LEMMA BookedParts == Booked <=> \A e \in Events : BookedFor(e)
BY DEF Booked, BookedFor, BookedWithinRequests

LEMMA DeskCountable ==
    ASSUME NEW S \in SUBSET Requests
    PROVE  /\ IsFiniteSet(S) /\ Cardinality(S) \in Nat /\ Cardinality(Requests) \in Nat
           /\ Cardinality(S) <= Cardinality(Requests)
BY FS_Subset, FS_CardinalityType, FamilyAssumption

LEMMA EventOnFile ==
    ASSUME TypeOK, NEW e \in Events
    PROVE  event[e] \in Event /\ event[e].capacity \in Nat /\ ceiling[e] \in Nat
BY DEF TypeOK, Event

\* Nobody is registered for an event that is not there.
LEMMA NoneRegistered ==
    ASSUME TypeOK, NEW e \in Events, ~Exists(e)
    PROVE  Registered(e) = {}
<1>1. \A s \in Students : <<e, s>> \in Entries /\ <<e, s>>[1] = e
  BY DEF Entries
<1> QED BY <1>1 DEF TypeOK, Registered

LEMMA InitBooked == Init => Booked
<1> SUFFICES ASSUME Init PROVE Booked
  OBVIOUS
<1>1. \A e \in Events : ~Exists(e)
  BY DEF Init, NoEvent, Exists
<1>2. \A e \in Events : Registered(e) = {}
  BY <1>1, InitTyped, NoneRegistered
<1> QED BY <1>1, <1>2, FS_EmptySet DEF Booked, BookedWithinRequests

\* An event for which nobody new registers keeps within the bound.
LEMMA NoMoreBooked ==
    ASSUME NEW e \in Events, BookedFor(e), UNCHANGED event[e], UNCHANGED ceiling[e],
           TypeOK, Registered(e)' = Registered(e), Registering(e)' \subseteq Registering(e)
    PROVE  BookedFor(e)'
<1>1. Registering(e) \subseteq Requests
  BY DEF Registering
<1>2. IsFiniteSet(Registering(e)) /\ Cardinality(Registering(e)) \in Nat /\ Cardinality(Requests) \in Nat
  BY <1>1, DeskCountable
<1>3. Cardinality(Registering(e)') \in Nat /\ Cardinality(Registering(e)') <= Cardinality(Registering(e))
  BY <1>2, FS_Subset, FS_CardinalityType
<1>4. IsFiniteSet(Registered(e)) /\ Cardinality(Registered(e)) \in Nat /\ ceiling[e] \in Nat
  BY EventOnFile, FS_CardinalityType DEF BookedFor
<1>5. ASSUME Exists(e), ceiling[e] # 0
      PROVE  Cardinality(Registered(e)') + Cardinality(Registering(e)') < ceiling[e] + Cardinality(Requests)
  <2>1. Cardinality(Registered(e)) + Cardinality(Registering(e)) < ceiling[e] + Cardinality(Requests)
    BY <1>5 DEF BookedFor
  <2> HIDE DEF Registered, Registering
  <2> QED BY <1>2, <1>3, <1>4, <2>1
<1> QED BY <1>5 DEF BookedFor, Exists

LEMMA EventsBooked ==
    ASSUME TypeOK, Booked, NEW d \in Events,
           \/ \E row \in EventRows : CreateEvent(d, row) \/ UpdateEvent(d, row)
           \/ Publish(d) \/ RemoveEvent(d)
    PROVE  Booked'
<1>a. /\ event \in [Events -> Event] /\ ceiling \in [Events -> Nat] /\ UNCHANGED desk
      /\ event[d] \in Event /\ ceiling[d] \in Nat
      /\ registration \in [Entries -> {"none", "PENDING", "REGISTERED", "CANCELLED"}]
  BY DEF TypeOK, CreateEvent, Publish, UpdateEvent, RemoveEvent
<1>b. \A e \in Events : Registering(e)' = Registering(e) /\ Registering(e) \subseteq Requests
  BY <1>a DEF Registering
<1>1. ASSUME NEW e \in Events, e # d PROVE BookedFor(e)'
  <2>1. event'[e] = event[e] /\ ceiling'[e] = ceiling[e]
    BY <1>a, <1>1 DEF CreateEvent, Publish, UpdateEvent, RemoveEvent
  <2>2. \A s \in Students : <<e, s>> \in Entries /\ registration'[<<e, s>>] = registration[<<e, s>>]
    BY <1>a, <1>1 DEF CreateEvent, Publish, UpdateEvent, RemoveEvent, WithoutEvent, Entries
  <2>3. Registered(e)' = Registered(e)
    BY <2>2 DEF Registered
  <2> QED BY <1>b, <2>1, <2>3, BookedParts, NoMoreBooked
<1>2. BookedFor(d)
  BY BookedParts
<1>3. ASSUME NEW row \in Event, row.row = "live", UpdateEvent(d, row) PROVE BookedFor(d)'
  <2>1. /\ event'[d] = row /\ ceiling'[d] = Raised(ceiling[d], row.capacity) /\ Exists(d)
        /\ UNCHANGED registration /\ row.capacity \in Nat
    BY <1>a, <1>3 DEF UpdateEvent, Event
  <2>2. Registered(d)' = Registered(d)
    BY <2>1 DEF Registered
  <2>3. Cardinality(Registering(d)) \in Nat /\ Cardinality(Requests) \in Nat
    BY <1>b, DeskCountable
  <2>4. Cardinality(Registered(d)) \in Nat
    BY <1>2, FS_CardinalityType DEF BookedFor
  <2>5. ceiling'[d] # 0 => /\ ceiling[d] # 0 /\ row.capacity # 0
                           /\ ceiling[d] <= ceiling'[d] /\ row.capacity <= ceiling'[d]
                           /\ ceiling'[d] \in Nat
    BY <1>a, <2>1 DEF Raised
  <2>6. ASSUME ceiling'[d] # 0
        PROVE  Cardinality(Registered(d)') + Cardinality(Registering(d)') < ceiling'[d] + Cardinality(Requests)
    <3>1. Cardinality(Registered(d)) + Cardinality(Registering(d)) < ceiling[d] + Cardinality(Requests)
      BY <1>2, <2>1, <2>5, <2>6 DEF BookedFor
    <3> HIDE DEF Registered, Registering
    <3> QED BY <1>a, <1>b, <2>2, <2>3, <2>4, <2>5, <2>6, <3>1
  <2> QED BY <1>2, <2>1, <2>2, <2>5, <2>6 DEF BookedFor
<1>4. ASSUME NEW row \in EventRows, CreateEvent(d, row) PROVE BookedFor(d)'
  <2>1. row \in Event /\ row.capacity \in Nat
    BY EventAssumption DEF Event
  <2>2. /\ event'[d] = row /\ ceiling'[d] = row.capacity /\ ~Exists(d) /\ UNCHANGED registration
    BY <1>a, <1>4 DEF CreateEvent, Exists
  <2>3. Registered(d)' = {}
    BY <2>2, NoneRegistered DEF Registered
  <2>4. /\ Cardinality(Registering(d)') \in Nat /\ Cardinality(Requests) \in Nat
        /\ Cardinality(Registering(d)') <= Cardinality(Requests)
    BY <1>b, DeskCountable
  <2>5. IsFiniteSet(Registered(d)') /\ Cardinality(Registered(d)') = 0
    BY <2>3, FS_EmptySet
  <2>6. row.capacity # 0 =>
            Cardinality(Registered(d)') + Cardinality(Registering(d)') < row.capacity + Cardinality(Requests)
    <3> HIDE DEF Registered, Registering
    <3> QED BY <2>1, <2>4, <2>5
  <2> QED BY <2>1, <2>2, <2>5, <2>6 DEF BookedFor
<1>5. ASSUME Publish(d) PROVE BookedFor(d)'
  <2>1. PICK row : row = [event[d] EXCEPT !.status = "PUBLISHED"]
    OBVIOUS
  <2>2. row \in Event /\ row.row = event[d].row
    BY <1>a, <2>1 DEF Event, EventStatus
  <2> QED BY <1>3, <1>5, <2>1, <2>2 DEF Publish, UpdateEvent, Exists
<1>6. ASSUME RemoveEvent(d) PROVE BookedFor(d)'
  <2>1. event'[d].row = "deleted"
    BY <1>a, <1>6 DEF RemoveEvent, Event
  <2>2. \A s \in Students : registration'[<<d, s>>] = "none"
    BY <1>a, <1>6 DEF RemoveEvent, WithoutEvent, Entries
  <2>3. Registered(d)' = {}
    BY <2>2 DEF Registered
  <2> QED BY <2>1, <2>3, FS_EmptySet DEF BookedFor, Exists
<1>7. BookedFor(d)'
  BY <1>3, <1>4, <1>5, <1>6, EventAssumption
<1>8. Booked' <=> \A e \in Events : BookedFor(e)'
  BY DEF Booked, BookedFor, BookedWithinRequests
<1> QED BY <1>1, <1>7, <1>8

\* A request comes to the desk of an event only while there is a place.
LEMMA CountBooked ==
    ASSUME TypeOK, Booked, NEW r \in Requests, NEW d \in Events, NEW s \in Students,
           NEW actor \in Actors, CountForRegister(r, d, s, actor)
    PROVE  Booked'
<1>a. /\ UNCHANGED <<event, registration, ceiling>> /\ HasPlace(d)
      /\ desk' = [desk EXCEPT ![r] = [stage |-> "counted", event |-> {d}, student |-> {s},
                                      actor |-> actor, approval |-> event[d].approval]]
  BY DEF CountForRegister
<1>b. \A p \in Requests : p # r => desk'[p] = desk[p]
  BY <1>a DEF TypeOK
<1>c. desk'[r].event = {d}
  BY <1>a DEF TypeOK
<1>d. \A e \in Events : Registered(e)' = Registered(e)
  BY <1>a DEF Registered
<1>1. ASSUME NEW e \in Events, e # d PROVE BookedFor(e)'
  <2>1. Registering(e)' \subseteq Registering(e)
    BY <1>1, <1>b, <1>c DEF Registering
  <2> QED BY <1>a, <1>d, <2>1, BookedParts, NoMoreBooked
<1>2. BookedFor(d)'
  <2>1. /\ IsFiniteSet(Registered(d)) /\ Cardinality(Registered(d)) \in Nat
        /\ Exists(d) /\ ceiling[d] # 0 => event[d].capacity # 0 /\ event[d].capacity <= ceiling[d]
    BY BookedParts, FS_CardinalityType DEF BookedFor
  <2>2. Registering(d)' \subseteq Requests
    BY DEF Registering
  <2>3. /\ Cardinality(Registering(d)') \in Nat /\ Cardinality(Requests) \in Nat
        /\ Cardinality(Registering(d)') <= Cardinality(Requests)
    BY <2>2, DeskCountable
  <2>4. ASSUME Exists(d), ceiling[d] # 0
        PROVE  Cardinality(Registered(d)') + Cardinality(Registering(d)') < ceiling[d] + Cardinality(Requests)
    <3>1. event[d].capacity \in Nat /\ ceiling[d] \in Nat
      BY EventOnFile
    <3>2. Cardinality(Registered(d)) < event[d].capacity
      BY <1>a, <2>1, <2>4 DEF HasPlace
    <3> HIDE DEF Registered, Registering
    <3> QED BY <1>d, <2>1, <2>3, <2>4, <3>1, <3>2
  <2> QED BY <1>a, <1>d, <2>1, <2>4 DEF BookedFor, Exists
<1>3. Booked' <=> \A e \in Events : BookedFor(e)'
  BY DEF Booked, BookedFor, BookedWithinRequests
<1> QED BY <1>1, <1>2, <1>3

\* The request that registers a student leaves the desk with it.
LEMMA InsertBooked ==
    ASSUME TypeOK, Booked, NEW r \in Requests, NEW d \in Events, NEW s \in Students,
           InsertRegistration(r, d, s)
    PROVE  Booked'
<1>a. /\ UNCHANGED <<event, ceiling>> /\ d \in desk[r].event /\ registration[<<d, s>>] = "none"
      /\ \A p \in Requests : desk'[p] = IF p = r THEN Quiet ELSE desk[p]
      /\ \A x \in Entries : x # <<d, s>> => registration'[x] = registration[x]
      /\ registration'[<<d, s>>] # "none"
      /\ \A e \in Events, t \in Students : <<e, t>> \in Entries
  BY DEF InsertRegistration, TypeOK, Entries
<1>b. \A e \in Events : Registering(e)' = Registering(e) \ {r}
  BY <1>a, QuietTyped DEF Registering
<1>1. ASSUME NEW e \in Events, e # d PROVE BookedFor(e)'
  <2>1. Registered(e)' = Registered(e)
    BY <1>1, <1>a DEF Registered
  <2>2. event'[e] = event[e] /\ ceiling'[e] = ceiling[e] /\ BookedFor(e)
    BY <1>a, BookedParts
  <2>3. Registering(e)' \subseteq Registering(e)
    BY <1>b
  <2> QED BY <2>1, <2>2, <2>3, NoMoreBooked
<1>2. BookedFor(d)'
  <2>1. Registered(d)' = Registered(d) \cup {s} /\ s \notin Registered(d)
    BY <1>a DEF Registered
  <2>2. IsFiniteSet(Registered(d)) /\ Cardinality(Registered(d)) \in Nat /\ BookedFor(d)
    BY BookedParts, FS_CardinalityType DEF BookedFor
  <2>3. r \in Registering(d) /\ Registering(d) \subseteq Requests
    BY <1>a DEF Registering
  <2>4. /\ IsFiniteSet(Registering(d)) /\ Cardinality(Registering(d)) \in Nat
        /\ Cardinality(Requests) \in Nat
    BY <2>3, DeskCountable
  <2>5. IsFiniteSet(Registered(d)') /\ Cardinality(Registered(d)') = Cardinality(Registered(d)) + 1
    BY <2>1, <2>2, FS_AddElement
  <2>6. Cardinality(Registering(d)') = Cardinality(Registering(d)) - 1
    BY <1>b, <2>3, <2>4, FS_RemoveElement
  <2>7. ASSUME Exists(d), ceiling[d] # 0
        PROVE  Cardinality(Registered(d)') + Cardinality(Registering(d)') < ceiling[d] + Cardinality(Requests)
    <3>1. Cardinality(Registered(d)) + Cardinality(Registering(d)) < ceiling[d] + Cardinality(Requests)
      BY <2>2, <2>7 DEF BookedFor
    <3>2. ceiling[d] \in Nat
      BY EventOnFile
    <3> HIDE DEF Registered, Registering
    <3> QED BY <2>2, <2>4, <2>5, <2>6, <3>1, <3>2
  <2> QED BY <1>a, <2>2, <2>5, <2>7 DEF BookedFor, Exists
<1>3. Booked' <=> \A e \in Events : BookedFor(e)'
  BY DEF Booked, BookedFor, BookedWithinRequests
<1> QED BY <1>1, <1>2, <1>3

LEMMA OthersBooked ==
    ASSUME TypeOK, Booked,
           \/ \E d \in Events, s \in Students : CancelRegistration(d, s)
           \/ \E r \in Requests : AssertStudentAccess(r) \/ Drop(r)
           \/ UNCHANGED eventVars
    PROVE  Booked'
<1>1. UNCHANGED <<event, ceiling>>
  BY DEF CancelRegistration, AssertStudentAccess, Drop, eventVars
<1>2. \A e \in Events : Registered(e)' = Registered(e)
  <2>1. ASSUME NEW d \in Events, NEW s \in Students, CancelRegistration(d, s), NEW e \in Events
        PROVE  Registered(e)' = Registered(e)
    <3>1. \A t \in Students : <<e, t>> \in Entries /\
             (registration'[<<e, t>>] # "none" <=> registration[<<e, t>>] # "none")
      BY <2>1 DEF CancelRegistration, TypeOK, Entries
    <3> QED BY <3>1 DEF Registered
  <2> QED BY <2>1 DEF AssertStudentAccess, Drop, eventVars, Registered
<1>3. \A e \in Events : Registering(e)' \subseteq Registering(e)
  <2>1. desk \in [Requests -> DeskState]
    BY DEF TypeOK
  <2>2. ASSUME NEW r \in Requests, AssertStudentAccess(r), NEW e \in Events
        PROVE  Registering(e)' \subseteq Registering(e)
    <3>1. \A p \in Requests : desk'[p].event = desk[p].event
      BY <2>1, <2>2 DEF AssertStudentAccess, DeskState
    <3> QED BY <3>1 DEF Registering
  <2>3. ASSUME NEW r \in Requests, Drop(r), NEW e \in Events
        PROVE  Registering(e)' \subseteq Registering(e)
    BY <2>1, <2>3, QuietTyped DEF Drop, Registering
  <2>4. ASSUME UNCHANGED desk, NEW e \in Events PROVE Registering(e)' \subseteq Registering(e)
    BY <2>4 DEF Registering
  <2> QED BY <2>2, <2>3, <2>4 DEF CancelRegistration, eventVars
<1>4. \A e \in Events : BookedFor(e)'
  BY <1>1, <1>2, <1>3, BookedParts, NoMoreBooked
<1>5. Booked' <=> \A e \in Events : BookedFor(e)'
  BY DEF Booked, BookedFor, BookedWithinRequests
<1> QED BY <1>4, <1>5

LEMMA StepBooked == TypeOK /\ Booked /\ [Next]_vars => Booked'
<1>1. ASSUME TypeOK, Booked, NEW r \in Requests, ServeDesk(r) PROVE Booked'
  BY <1>1, EventsBooked, CountBooked, InsertBooked, OthersBooked DEF ServeDesk
<1> QED BY <1>1, OthersBooked DEF Next, vars

\* register (EventsService) counts first and inserts later: an event is overbooked by less
\* than the requests under way, measured by the largest capacity it ever had.
THEOREM OverbookingBounded == Spec => []BookedWithinRequests
<1> QED BY InitTyped, StepTyped, InitBooked, StepBooked, PTL DEF Spec, Booked
=============================================================================

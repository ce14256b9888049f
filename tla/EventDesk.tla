------------------------------ MODULE EventDesk ------------------------------
(***************************************************************************)
(* Events and the registrations for them (EventsService), over the links   *)
(* of Family that decide whom a parent may register.                       *)
(***************************************************************************)
EXTENDS Family

CONSTANTS
    Events,         \* rows of events
    EventRows       \* what a client makes of an event

VARIABLES
    event,          \* the events rows
    registration,   \* the event_registrations rows: one per event and student at most
    ceiling,        \* history: the largest capacity an event had, 0 when it had none once
    desk            \* the event requests in progress

eventVars == <<event, registration, ceiling, desk>>
vars == <<familyVars, eventVars>>

EventStatus == {"DRAFT", "PUBLISHED", "REGISTRATION_OPEN", "REGISTRATION_CLOSED", "ONGOING",
                "COMPLETED", "CANCELLED"}
OpenStatus == {"PUBLISHED", "REGISTRATION_OPEN", "ONGOING"}

\* A capacity is 1 or more; 0 stands for none given.
Event == [row : RowStates, status : EventStatus, capacity : Nat, approval : BOOLEAN]

ASSUME EventAssumption == EventRows \subseteq {e \in Event : e.row = "live"}

Entries == Events \X Students

\* Who registers: the staff, the student, or a parent.
Actors == {"staff", "student"} \cup Parents

Quiet == [stage |-> "idle", event |-> {}, student |-> {}, actor |-> "staff", approval |-> FALSE]
DeskState ==
    [stage : {"idle", "counted", "admitted"}, event : SUBSET Events, student : SUBSET Students,
     actor : Actors, approval : BOOLEAN]

NoEvent == [row |-> "none", status |-> "DRAFT", capacity |-> 0, approval |-> FALSE]

Init ==
    /\ FamilyInit
    /\ event = [e \in Events |-> NoEvent]
    /\ registration = [x \in Entries |-> "none"]
    /\ ceiling = [e \in Events |-> 1]
    /\ desk = [r \in Requests |-> Quiet]

Exists(e) == event[e].row = "live"
Raised(old, new) == IF old = 0 \/ new = 0 THEN 0 ELSE IF new > old THEN new ELSE old

-----------------------------------------------------------------------------
(* Events.  Their slugs are unique; a clash is a refused insert.           *)

CreateEvent(e, row) ==
    /\ event[e].row = "none"
    /\ event' = [event EXCEPT ![e] = row]
    /\ ceiling' = [ceiling EXCEPT ![e] = row.capacity]
    /\ UNCHANGED <<registration, desk>>

\* Any field, whatever the registrations say: a capacity is set below their number, and an
\* event that was over is opened again.
UpdateEvent(e, row) ==
    /\ Exists(e)
    /\ event' = [event EXCEPT ![e] = row]
    /\ ceiling' = [ceiling EXCEPT ![e] = Raised(@, row.capacity)]
    /\ UNCHANGED <<registration, desk>>

Publish(e) == UpdateEvent(e, [event[e] EXCEPT !.status = "PUBLISHED"])

WithoutEvent(e) == [x \in Entries |-> IF x[1] = e THEN "none" ELSE registration[x]]

\* Registrations go with their event.
RemoveEvent(e) ==
    /\ Exists(e)
    /\ event' = [event EXCEPT ![e].row = "deleted"]
    /\ registration' = WithoutEvent(e)
    /\ UNCHANGED <<ceiling, desk>>

-----------------------------------------------------------------------------
(* register: the event and the count, the right to register, the insert.   *)

Registered(e) == {s \in Students : registration[<<e, s>>] # "none"}

\* The window for registration is a matter of the clock: a request within it goes on.
WithoutCount(e) == TRUE
HasPlace(e) == event[e].capacity = 0 \/ Cardinality(Registered(e)) < event[e].capacity

CountForRegister(r, e, s, actor) ==
    /\ desk[r].stage = "idle"
    /\ Exists(e) /\ event[e].status \in OpenStatus
    /\ HasPlace(e)
    /\ desk' = [desk EXCEPT ![r] = [stage |-> "counted", event |-> {e}, student |-> {s},
                                    actor |-> actor, approval |-> event[e].approval]]
    /\ UNCHANGED <<event, registration, ceiling>>

\* Staff register anyone, a student registers itself, a parent a linked student.
MayRegister(actor, s) == actor \in Parents => link[<<actor, s>>] # "none"

AssertStudentAccess(r) ==
    /\ desk[r].stage = "counted"
    /\ \A s \in desk[r].student : MayRegister(desk[r].actor, s)
    /\ desk' = [desk EXCEPT ![r].stage = "admitted"]
    /\ UNCHANGED <<event, registration, ceiling>>

\* The event must still be there, the student too, and not registered yet.
InsertRegistration(r, e, s) ==
    LET q == desk[r] IN
    /\ q.stage = "admitted" /\ e \in q.event /\ s \in q.student
    /\ Exists(e) /\ student[s] # "none"
    /\ registration[<<e, s>>] = "none"
    /\ registration' = [registration EXCEPT ![<<e, s>>] =
                          IF q.approval THEN "PENDING" ELSE "REGISTERED"]
    /\ desk' = [desk EXCEPT ![r] = Quiet]
    /\ UNCHANGED <<event, ceiling>>

\* The row stays, and with it the student's place.
CancelRegistration(e, s) ==
    /\ registration[<<e, s>>] # "none"
    /\ registration' = [registration EXCEPT ![<<e, s>>] = "CANCELLED"]
    /\ UNCHANGED <<event, ceiling, desk>>

Drop(r) ==
    /\ desk[r].stage # "idle"
    /\ desk' = [desk EXCEPT ![r] = Quiet]
    /\ UNCHANGED <<event, registration, ceiling>>

ServeDesk(r) ==
    \/ \E e \in Events :
          \/ \E row \in EventRows : CreateEvent(e, row) \/ UpdateEvent(e, row)
          \/ Publish(e) \/ RemoveEvent(e)
          \/ \E s \in Students :
                \/ \E actor \in Actors : CountForRegister(r, e, s, actor)
                \/ InsertRegistration(r, e, s) \/ CancelRegistration(e, s)
    \/ AssertStudentAccess(r) \/ Drop(r)

\* A request is one of the parents' desk or of the events' desk.
Next ==
    \E r \in Requests :
        \/ desk[r] = Quiet /\ ServeFamily(r) /\ UNCHANGED eventVars
        \/ IsIdle(r) /\ ServeDesk(r) /\ UNCHANGED familyVars

Spec == Init /\ [][Next]_vars

-----------------------------------------------------------------------------
TypeOK ==
    /\ FamilyTypeOK
    /\ event \in [Events -> Event]
    /\ registration \in [Entries -> {"none", "PENDING", "REGISTERED", "CANCELLED"}]
    /\ ceiling \in [Events -> Nat]
    /\ desk \in [Requests -> DeskState]
    /\ \A x \in Entries : registration[x] # "none" => Exists(x[1])

\* register counts, looks at the links and inserts: an event is overbooked, but by less than
\* the requests that were under way, whatever its capacity was raised to and however often
\* registrations were cancelled.
Registering(e) == {r \in Requests : e \in desk[r].event}

BookedWithinRequests ==
    \A e \in Events : Exists(e) /\ ceiling[e] # 0 =>
        Cardinality(Registered(e)) + Cardinality(Registering(e)) < ceiling[e] + Cardinality(Requests)
=============================================================================

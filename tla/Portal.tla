------------------------------- MODULE Portal -------------------------------
(***************************************************************************)
(* One tab of the frontend and one account against the backend's guards:   *)
(* the menu and the layouts decide on what the login stored, the guards on *)
(* the account's row of now and on a copy of role_permissions that is      *)
(* reloaded when it is older than TTL (PermissionsService).                *)
(*                                                                         *)
(* Tokens are ClientRefresh's; here a session simply ends at some time.    *)
(***************************************************************************)
EXTENDS Screens, Naturals, FiniteSets

CONSTANTS
    Hired,          \* the roles an account may have to begin with
    Assigned,       \* the roles setRole may give it
    Withdrawable,   \* the permission keys an operator takes out of role_permissions
    TTL,            \* ttlMs, in ticks
    MaxQuery,       \* assumed: ticks within which the database answers or fails
    MaxChanges      \* bound: changes of the role and of role_permissions

ASSUME PortalAssumption ==
    /\ Hired \subseteq Role /\ Assigned \subseteq Role
    /\ Withdrawable \subseteq SuperAdminPermissions
    /\ TTL \in Nat /\ MaxQuery \in Nat /\ MaxChanges \in Nat

VARIABLES
    account,    \* the row of the account: its role, and whether it has an academy
    withdrawn,  \* the keys role_permissions lacks, of those the seed put in
    cache,      \* the map in memory, by the keys it lacks; its age, and how long it is wrong
    load,       \* the query in flight, if any: the rows it found
    tab,        \* what the browser shows: the stored user, the address, whether it was led there
    calls,      \* what waits for an answer: the page's reads, together, and an act
    refused,    \* history: what the page on show asked for in vain
    changes     \* history: how many changes there were

portalVars == <<account, withdrawn, cache, load, tab, calls, refused, changes>>

Held(role, missing) == SeededPermissions[role] \ missing

\* Ages above these are as good as these.
Old == TTL + 1
TooLong == TTL + MaxQuery + 1

PortalInit ==
    /\ account \in [role : Hired, inAcademy : BOOLEAN]
    /\ account.inAcademy <=> account.role # "SUPER_ADMIN"
    /\ withdrawn = {}
    /\ cache = [missing |-> {}, age |-> 0, wrong |-> 0]
    /\ load = {}
    /\ tab = [user |-> {}, path |-> "/", redirect |-> "", led |-> FALSE]
    /\ calls = {}
    /\ refused = {}
    /\ changes = 0

-----------------------------------------------------------------------------
(* PermissionsService.                                                     *)

NeverExpired == FALSE
Expired == cache.age > TTL

Loading == load' = IF load = {} THEN {[missing |-> withdrawn, age |-> 0, wrong |-> 0]} ELSE load

Reload ==
    /\ Expired
    /\ Loading
    /\ load' # load
    /\ UNCHANGED <<account, withdrawn, cache, tab, calls, refused, changes>>

FinishLoad ==
    \E found \in load :
        /\ cache' = [found EXCEPT !.age = 0]
        /\ load' = {}
        /\ UNCHANGED <<account, withdrawn, tab, calls, refused, changes>>

Waiting == {c \in calls : c.caller # {}}

\* Whoever waits for the query fails with it; the map stays expired.
LoadFails ==
    /\ load # {}
    /\ load' = {}
    /\ calls' = calls \ Waiting
    /\ UNCHANGED <<account, withdrawn, cache, tab, refused, changes>>

Capped(n, cap) == IF n < cap THEN n ELSE cap
Aged(map, cap) ==
    [map EXCEPT !.age = Capped(@ + 1, cap),
                !.wrong = IF map.missing = withdrawn THEN 0 ELSE Capped(@ + 1, TooLong)]

\* Time passes; not while a query that has been answered still has callers to wake.
Tick ==
    /\ load = {} => Waiting = {}
    /\ \A found \in load : found.age < MaxQuery
    /\ cache' = Aged(cache, Old)
    /\ load' = {Aged(found, MaxQuery) : found \in load}
    /\ UNCHANGED <<account, withdrawn, tab, calls, refused, changes>>

-----------------------------------------------------------------------------
(* The administrator.                                                      *)

\* setRole writes the row, then invalidates the map by calling it infinitely old.
SetRole(role) ==
    /\ changes < MaxChanges
    /\ role # account.role
    /\ account' = [account EXCEPT !.role = role]
    /\ cache' = [cache EXCEPT !.age = Old]
    /\ changes' = changes + 1
    /\ UNCHANGED <<withdrawn, load, tab, calls, refused>>

\* No code takes a key away; the seed, run again, puts the missing ones back.
Withdraw(permission) ==
    /\ changes < MaxChanges
    /\ withdrawn' = withdrawn \union {permission}
    /\ changes' = changes + 1
    /\ UNCHANGED <<account, cache, load, tab, calls, refused>>

SeedPermissions ==
    /\ withdrawn # {}
    /\ withdrawn' = {}
    /\ UNCHANGED <<account, cache, load, tab, calls, refused, changes>>

-----------------------------------------------------------------------------
(* The tab.                                                                *)

OpenPaths == PathsOf(OpenPages)
PlatformPaths == PathsOf(PlatformPages)
IsOpen(path) == path \in OpenPaths

\* AuthGuard renders the page for a stored user whose role the layout admits.
LetsIn(path, user) == IsOpen(path) \/ \E u \in user : u.role \in LayoutRoles[path]

Shown == LetsIn(tab.path, tab.user)

\* The reads of a page are decided together: whatever may befall one of them does so to all.
Call(names, leads, user) == [names |-> names, leads |-> leads, user |-> user, caller |-> {}]

\* Opening a page drops the answers the one before was waiting for, but not the act whose
\* success opens another page.
Steering == {c \in calls : c.leads # ""}

Go(path, led, user, redirect, acts) ==
    /\ tab' = [user |-> user, path |-> path, redirect |-> redirect, led |-> led]
    /\ calls' = acts \union
          {Call(names, "", user) :
                names \in {PageAt[path].reads : shown \in {TRUE} \cap {LetsIn(path, user)}} \ {{}}}
    /\ refused' = {}

Open(path, led) ==
    /\ Go(path, led, tab.user, "", Steering)
    /\ UNCHANGED <<account, withdrawn, cache, load, changes>>

\* Bound: no address is typed while a call waits.
OpenAddress(path) ==
    /\ calls = {}
    /\ path # tab.path
    /\ Open(path, FALSE)

MenuItem(path, roles, permission) == [path |-> path, roles |-> roles, permission |-> permission]

MenuItems ==
    {MenuItem("/dashboard", Role, ""),
     MenuItem("/dashboard/students", Role, "student.view"),
     MenuItem("/dashboard/parents", Role, "parent.view"),
     MenuItem("/dashboard/instructors", Role, "instructor.view"),
     MenuItem("/dashboard/batches", Role, "batch.view"),
     MenuItem("/dashboard/attendance", Role, "attendance.view"),
     MenuItem("/dashboard/fees", Role, "fee.view"),
     MenuItem("/dashboard/belt-exams", Role, "belt.view"),
     MenuItem("/dashboard/certificates", Role, "certificate.view"),
     MenuItem("/dashboard/events", Role, "event.view"),
     MenuItem("/dashboard/learning", Role, "video.view"),
     MenuItem("/dashboard/inventory", Role, "inventory.view"),
     MenuItem("/dashboard/announcements", Role, "announcement.view"),
     MenuItem("/dashboard/notifications", Role, ""),
     MenuItem("/dashboard/reports", Role, "report.view"),
     MenuItem("/dashboard/branches", Admins, ""),
     MenuItem("/dashboard/settings", Admins, "")}

Visible(item, user) ==
    /\ user.role \in item.roles
    /\ \/ item.permission = ""
       \/ user.role = "SUPER_ADMIN"
       \/ item.permission \in Held(user.role, user.missing)

\* Bound: while an act that leads elsewhere waits, the tab only signs out and in.
OpenMenu(item) ==
    /\ Steering = {}
    /\ Shown /\ tab.path \in PathsOf(DashboardPages)
    /\ \E user \in tab.user : Visible(item, user)
    /\ Open(item.path, TRUE)

\* AuthGuard's effect.
Redirect ==
    /\ ~Shown
    /\ IF tab.user = {}
       THEN Go("/login", FALSE, {}, tab.path, Steering)
       ELSE tab.path # "/dashboard" /\ Go("/dashboard", FALSE, tab.user, "", Steering)
    /\ UNCHANGED <<account, withdrawn, cache, load, changes>>

RouteForRole(role) ==
    CASE role = "SUPER_ADMIN" -> "/platform"
      [] role = "STUDENT"     -> "/student"
      [] role = "PARENT"      -> "/parent"
      [] OTHER                -> "/dashboard"

\* The role is the row's, the permissions are the map's; both are stored.
Login ==
    /\ tab.path = "/login"
    /\ ~Expired
    /\ LET user == {[role |-> account.role, missing |-> cache.missing]} IN
       IF tab.redirect = "" THEN Go(RouteForRole(account.role), TRUE, user, "", Steering)
       ELSE Go(tab.redirect, FALSE, user, "", Steering)
    /\ UNCHANGED <<account, withdrawn, cache, load, changes>>

\* The topbar replaces the address by /login, AuthGuard by /login?redirect=<the address>:
\* the later one stays.
SignOut ==
    /\ tab.user # {} /\ Shown /\ ~IsOpen(tab.path)
    /\ \E redirect \in {"", tab.path} : Go("/login", FALSE, {}, redirect, Steering)
    /\ UNCHANGED <<account, withdrawn, cache, load, changes>>

\* The refresh token is refused: the store is cleared, and the guard will notice.
SessionEnds ==
    /\ tab.user # {}
    /\ tab' = [tab EXCEPT !.user = {}]
    /\ calls' = Steering
    /\ UNCHANGED <<account, withdrawn, cache, load, refused, changes>>

\* Bound: one act at a time.
Act(act) ==
    /\ Shown
    /\ \A c \in calls : c.names = PageAt[tab.path].reads
    /\ calls' = calls \union {Call({act.name}, act.leads, tab.user)}
    /\ UNCHANGED <<account, withdrawn, cache, load, tab, refused, changes>>

-----------------------------------------------------------------------------
(* A call at the backend.                                                  *)

\* The backend knows the user as the tab did that made the call.
Known(call, caller) == call.user = {[role |-> caller.role, missing |-> cache.missing]}

\* The page is one the tab was led to, for a user the backend knows as the tab does.
Expected(call, caller) ==
    /\ call.names = PageAt[tab.path].reads
    /\ tab.led
    /\ caller.inAcademy \/ tab.path \in PlatformPaths
    /\ Known(call, caller)

\* The guards ask the role of the row and the permissions of the map.
DeniedWithoutPermissions(call, caller) == {name \in call.names : ~Admits(name, caller, {})}
Denied(call, caller) ==
    {name \in call.names : ~Admits(name, caller, Held(caller.role, cache.missing))}

\* On success an act takes the tab to its next page, on which the act's user is expected only
\* if it was let through as the one the tab has.
Decide(call, caller) ==
    IF Denied(call, caller) = {} /\ call.leads # ""
    THEN Go(call.leads, call.user = tab.user /\ Known(call, caller), tab.user, "", {})
    ELSE /\ calls' = calls \ {call}
         /\ refused' = IF Expected(call, caller)
                       THEN {[path |-> tab.path, name |-> name] : name \in Denied(call, caller)}
                       ELSE refused
         /\ UNCHANGED tab

\* An account that is not ACTIVE is refused its tokens too (AccountAccess): here its session ends.
\* JwtStrategy reads the row, then asks for the permissions: at once, or after the reload.
Authenticate(call) ==
    /\ call.caller = {}
    /\ IF Expired
       THEN /\ calls' = (calls \ {call}) \union {[call EXCEPT !.caller = {account}]}
            /\ Loading
            /\ UNCHANGED <<tab, refused>>
       ELSE Decide(call, account) /\ UNCHANGED load
    /\ UNCHANGED <<account, withdrawn, cache, changes>>

Authorise(call) ==
    /\ load = {}
    /\ \E caller \in call.caller : Decide(call, caller)
    /\ UNCHANGED <<account, withdrawn, cache, load, changes>>

PortalNext ==
    \/ Reload \/ FinishLoad \/ LoadFails \/ Tick
    \/ \E role \in Assigned : SetRole(role)
    \/ \E permission \in Withdrawable : Withdraw(permission)
    \/ SeedPermissions
    \/ \E path \in PathsOf(Pages) : OpenAddress(path)
    \/ \E item \in MenuItems : OpenMenu(item)
    \/ Redirect \/ Login \/ SignOut \/ SessionEnds
    \/ \E act \in PageAt[tab.path].acts : Act(act)
    \/ \E call \in calls : Authenticate(call) \/ Authorise(call)

\* React runs the guard's effect.
PortalSpec == PortalInit /\ [][PortalNext]_portalVars /\ WF_portalVars(Redirect)

-----------------------------------------------------------------------------
PortalTypeOK ==
    /\ account \in [role : Role, inAcademy : BOOLEAN]
    /\ withdrawn \subseteq Withdrawable
    /\ cache \in [missing : SUBSET Withdrawable, age : 0 .. Old, wrong : 0 .. TooLong]
    /\ load \subseteq [missing : SUBSET Withdrawable, age : 0 .. MaxQuery, wrong : 0 .. TooLong]
    /\ tab.path \in PathsOf(Pages) /\ tab.redirect \in PathsOf(Pages) \union {""}
    /\ tab.user \subseteq [role : Role, missing : SUBSET Withdrawable]

\* What the menu, a login or a finished act leads to answers: the guards let a user read
\* all that the page asks for, as long as the backend and the tab agree on the user.  Two
\* pages do not keep that: the overview asks for a report, also for a receptionist; and the
\* inbox of the notifications has no route.
KnownRefusals ==
    {[path |-> "/dashboard", name |-> "reports.dashboard"],
     [path |-> "/dashboard/notifications", name |-> "GET /notifications/inbox"]}

ArrivalsAreServed == refused \subseteq KnownRefusals

\* What the tables of pages, routes and menu entries must say for that, whichever of the
\* withdrawable keys the map lacks: there is such a page, and the guards let a user read what
\* it asks for, ...
ServedTo(path, role, missing) ==
    /\ path \in PathsOf(Pages)
    /\ \A name \in PageAt[path].reads : \A inAcademy \in BOOLEAN :
          (inAcademy \/ path \in PlatformPaths) =>
              \/ Admits(name, [role |-> role, inAcademy |-> inAcademy], Held(role, missing))
              \/ [path |-> path, name |-> name] \in KnownRefusals

\* ... each page of the menu the user sees, the user's own home, ...
MenuServes ==
    \A item \in MenuItems, role \in Role, missing \in SUBSET Withdrawable :
        Visible(item, [role |-> role, missing |-> missing]) => ServedTo(item.path, role, missing)

HomesServe ==
    \A role \in Role, missing \in SUBSET Withdrawable : ServedTo(RouteForRole(role), role, missing)

\* ... and the page an act leads to, to whoever may do it; no page asks for such an act when
\* it is shown.
ActsServe ==
    \A path \in PathsOf(Pages) : \A act \in PageAt[path].acts : act.leads # "" =>
        /\ \A other \in PathsOf(Pages) : PageAt[other].reads # {act.name}
        /\ \A role \in Role, missing \in SUBSET Withdrawable, inAcademy \in BOOLEAN :
              Admits(act.name, [role |-> role, inAcademy |-> inAcademy], Held(role, missing))
                  => ServedTo(act.leads, role, missing)

TablesServe == MenuServes /\ HomesServe /\ ActsServe

\* A map that answers is wrong for no longer than its time to live and one query, although
\* an invalidation is lost when a query is in flight.
PermissionsCatchUp == ~Expired => cache.wrong <= TTL + MaxQuery

\* A member of the staff is never left before an empty screen, whatever page a link, a
\* stale redirect or an earlier user's act led to.
StaffUser == \E user \in tab.user : user.role \in Staff
StaffAlwaysLand == (StaffUser /\ ~Shown) ~> Shown
=============================================================================

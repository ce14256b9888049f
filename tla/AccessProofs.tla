---------------------------- MODULE AccessProofs ----------------------------
(***************************************************************************)
(* What AccountAccess guarantees for every number of requests and          *)
(* accounts: its types, how often a one-time link works, when the status   *)
(* of an account is the administrator's alone, and how many wrong          *)
(* passwords the lock lets through; and what Portal guarantees for all     *)
(* roles and times: how long the permission map is wrong, and that what    *)
(* the tab is led to is answered if the tables of pages and routes agree.  *)
(***************************************************************************)
EXTENDS AccountAccess, Portal, FiniteSetTheorems, TLAPS

-----------------------------------------------------------------------------
(* Types, and what requests and links refer to.                            *)

\* A mail and an opened link are about a row that is there, and so is every link.
Referring ==
    /\ \A r \in Requests : req[r].stage = "mail" => req[r].mail \in {"verify", "reset"}
    /\ \A r \in Requests : req[r].stage = "open" => req[r].mail = "none"
    /\ \A r \in Requests, a \in Accounts :
          req[r].stage \in {"mail", "open"} /\ a \in req[r].of => user[a].exists
    /\ \A l \in DOMAIN links : user[links[l].of].exists
    /\ \A a \in Accounts : user[a].verified => user[a].exists

Typed == TypeOK /\ Referring

LEMMA IdleTyped == Idle \in RequestState /\ Idle.stage = "idle" /\ Idle.of = {}
BY DEF Idle, RequestState, Stages, UserStatus

LEMMA InitTyped == Init => Typed
<1> SUFFICES ASSUME Init PROVE Typed
  OBVIOUS
<1>1. NoUser \in User /\ ~NoUser.locked /\ ~NoUser.verified
  BY DEF NoUser, User, UserStatus
<1>2. links \in Seq(Link) /\ DOMAIN links = {}
  BY DEF Init
<1>3. req \in [Requests -> RequestState] /\ \A r \in Requests : req[r].stage = "idle"
  BY IdleTyped DEF Init
<1>4. user \in [Accounts -> User] /\ \A a \in Accounts : ~user[a].locked /\ ~user[a].verified
  BY <1>1 DEF Init
<1>5. guesses \in [Accounts -> Nat]
  BY DEF Init
<1> QED BY <1>2, <1>3, <1>4, <1>5 DEF Typed, TypeOK, Referring

\* What a request may become: typed, and about rows that are there.
Sound(q) ==
    /\ q \in RequestState
    /\ q.stage = "open" => q.link \in DOMAIN links /\ q.mail = "none"
    /\ q.stage = "mail" => q.mail \in {"verify", "reset"}
    /\ q.stage \in {"mail", "open"} => \A a \in Accounts : a \in q.of => user[a].exists

LEMMA IdleSound == Sound(Idle)
BY IdleTyped DEF Sound

\* Only a mail and an opened link ask for more than types.
LEMMA OnItsWaySound ==
    ASSUME NEW q \in RequestState, q.stage \notin {"mail", "open"}
    PROVE  Sound(q)
BY DEF Sound

LEMMA MailSound ==
    ASSUME NEW r, NEW a \in Accounts, user[a].exists, NEW kind \in {"verify", "reset"}
    PROVE  Sound(Mail(r, a, kind))
<1>1. /\ Mail(r, a, kind) \in RequestState /\ Mail(r, a, kind).stage = "mail"
      /\ Mail(r, a, kind).mail = kind /\ Mail(r, a, kind).of = {a}
  BY IdleTyped DEF Mail, Idle, RequestState, Stages
<1> QED BY <1>1 DEF Sound

LEMMA LinkOnFile ==
    ASSUME Typed, NEW l \in DOMAIN links
    PROVE  /\ links[l] \in Link /\ links[l].of \in Accounts /\ links[l].kind \in {"verify", "reset"}
           /\ links[l].expired \in BOOLEAN /\ links[l].used \in BOOLEAN /\ links[l].uses \in Nat
<1>1. links[l] \in Link
  BY DEF Typed, TypeOK
<1> QED BY <1>1 DEF Link

LEMMA UserOnFile ==
    ASSUME Typed, NEW a \in Accounts
    PROVE  /\ user[a] \in User /\ user[a].exists \in BOOLEAN /\ user[a].status \in UserStatus
           /\ user[a].deleted \in BOOLEAN /\ user[a].verified \in BOOLEAN
           /\ user[a].failures \in Nat /\ user[a].locked \in BOOLEAN
           /\ user[a].locked => user[a].failures > 0
<1>1. user[a] \in User
  BY DEF Typed, TypeOK
<1> QED BY <1>1 DEF User, Typed, TypeOK

\* A step that moves one request soundly, and leaves users and links, keeps the types.
LEMMA RequestTyped ==
    ASSUME Typed, NEW r \in Requests, NEW fields, Sound(fields),
           req' = [req EXCEPT ![r] = fields], Unchanged
    PROVE  Typed'
BY DEF Typed, TypeOK, Referring, Sound, Unchanged

\* One that changes a user's row and moves the request soundly does, if it forgets no row.
LEMMA UserTyped ==
    ASSUME Typed, NEW r \in Requests, NEW fields, Sound(fields)',
           req' = [req EXCEPT ![r] = fields],
           NEW a \in Accounts, NEW row \in User, user' = [user EXCEPT ![a] = row],
           user[a].exists => row.exists, row.locked => row.failures > 0,
           row.verified => row.exists,
           DOMAIN links' = DOMAIN links, links' \in Seq(Link),
           \A l \in DOMAIN links : links'[l].of = links[l].of,
           guesses' \in [Accounts -> Nat]
    PROVE  Typed'
<1>1. user' \in [Accounts -> User] /\ \A b \in Accounts : user'[b] = IF b = a THEN row ELSE user[b]
  BY DEF Typed, TypeOK
<1>2. req' \in [Requests -> RequestState]
      /\ \A p \in Requests : req'[p] = IF p = r THEN fields ELSE req[p]
  BY DEF Typed, TypeOK, Sound
<1>3. \A b \in Accounts : user[b].exists => user'[b].exists
  BY <1>1
<1>4. \A l \in DOMAIN links : links[l].of \in Accounts
  BY LinkOnFile
<1>5. TypeOK'
  BY <1>1, <1>2 DEF Typed, TypeOK, Sound
<1>6. Referring'
  <2>1. \A p \in Requests : req'[p].stage = "mail" => req'[p].mail \in {"verify", "reset"}
    BY <1>2 DEF Typed, Referring, Sound
  <2>5. \A p \in Requests : req'[p].stage = "open" => req'[p].mail = "none"
    BY <1>2 DEF Typed, Referring, Sound
  <2>2. \A p \in Requests, b \in Accounts :
           req'[p].stage \in {"mail", "open"} /\ b \in req'[p].of => user'[b].exists
    BY <1>2, <1>3 DEF Typed, Referring, Sound
  <2>3. \A l \in DOMAIN links' : user'[links'[l].of].exists
    BY <1>3, <1>4 DEF Typed, Referring
  <2>4. \A b \in Accounts : user'[b].verified => user'[b].exists
    BY <1>1 DEF Typed, Referring
  <2> QED BY <2>1, <2>2, <2>3, <2>4, <2>5 DEF Referring
<1> QED BY <1>5, <1>6 DEF Typed

\* A link that is spent changes nothing else of the links.
LEMMA SpendTyped ==
    ASSUME Typed, NEW l \in DOMAIN links, Spend(l)
    PROVE  /\ links' \in Seq(Link) /\ DOMAIN links' = DOMAIN links
           /\ \A k \in DOMAIN links : /\ links'[k].of = links[k].of
                                      /\ links'[k].kind = links[k].kind
                                      /\ links'[k].expired = links[k].expired
                                      /\ links'[k].used <=> links[k].used \/ k = l
                                      /\ links'[k].uses = links[k].uses + (IF k = l THEN 1 ELSE 0)
<1> DEFINE row == [links[l] EXCEPT !.used = TRUE, !.uses = links[l].uses + 1]
<1>1. links[l] \in Link /\ links \in Seq(Link)
  BY DEF Typed, TypeOK
<1>2. links' = [links EXCEPT ![l] = row]
  BY DEF Spend
<1>3. /\ row \in Link /\ row.of = links[l].of /\ row.kind = links[l].kind
      /\ row.expired = links[l].expired /\ row.used /\ row.uses = links[l].uses + 1
  <2>1. links[l].uses + 1 \in Nat
    BY LinkOnFile
  <2> QED BY <1>1, <2>1 DEF Link
<1>5. \A k \in DOMAIN links : links[k].uses \in Nat
  BY LinkOnFile
<1> HIDE DEF row
<1>6. /\ links' \in Seq(Link) /\ DOMAIN links' = DOMAIN links
      /\ \A k \in DOMAIN links : links'[k] = IF k = l THEN row ELSE links[k]
  BY <1>1, <1>2, <1>3
<1> QED BY <1>3, <1>5, <1>6

\* Idle is sound whatever the tables hold, and so is a mail to a row that is there now.
LEMMA SoundAfter ==
    /\ Sound(Idle)'
    /\ \A r \in Requests, a \in Accounts, kind \in {"verify", "reset"} :
          user'[a].exists => Sound(Mail(r, a, kind))'
<1>1. Sound(Idle)'
  BY IdleTyped DEF Sound
<1>2. ASSUME NEW r \in Requests, NEW a \in Accounts, NEW kind \in {"verify", "reset"}, user'[a].exists
      PROVE  Sound(Mail(r, a, kind))'
  <2>1. /\ Mail(r, a, kind) \in RequestState /\ Mail(r, a, kind).stage = "mail"
        /\ Mail(r, a, kind).mail = kind /\ Mail(r, a, kind).of = {a}
    BY IdleTyped DEF Mail, Idle, RequestState, Stages
  <2> QED BY <1>2, <2>1 DEF Sound
<1> QED BY <1>1, <1>2

LEMMA AccountsTyped ==
    ASSUME Typed, NEW r \in Requests, NEW a \in Accounts,
           \/ CommitRegister(r, a) \/ CommitInvite(r, a)
           \/ RecordFailedLogin(r, a) \/ CommitLogin(r, a)
           \/ SetStatus(r, a) \/ Remove(r, a)
    PROVE  Typed'
<1>1. /\ user[a] \in User /\ (user[a].locked => user[a].failures > 0) /\ guesses[a] \in Nat
      /\ req[r] \in RequestState
      /\ user[a].verified => user[a].exists
  BY UserOnFile DEF Typed, TypeOK, Referring
<1>2. links \in Seq(Link) /\ guesses \in [Accounts -> Nat] /\ user \in [Accounts -> User]
  BY DEF Typed, TypeOK
<1>3. ASSUME Insert(r, a), NEW kind \in {"verify", "reset"},
             req' = [req EXCEPT ![r] = Mail(r, a, kind)]
      PROVE  Typed'
  <2> DEFINE row == [user[a] EXCEPT !.exists = TRUE]
  <2>1. row \in User /\ row.exists /\ row.locked = user[a].locked /\ row.failures = user[a].failures
    BY <1>1 DEF User
  <2>2. user' = [user EXCEPT ![a] = row] /\ UNCHANGED <<links, guesses>>
    BY <1>3 DEF Insert
  <2> HIDE DEF row
  <2>a. user'[a].exists
    BY <1>2, <2>1, <2>2
  <2>3. Sound(Mail(r, a, kind))'
    BY <2>a, SoundAfter
  <2> QED BY <1>1, <1>2, <1>3, <2>1, <2>2, <2>3, UserTyped
<1>4. CASE CommitRegister(r, a) \/ CommitInvite(r, a)
  BY <1>3, <1>4 DEF CommitRegister, CommitInvite
<1>5. ASSUME NEW row \in User, user' = [user EXCEPT ![a] = row], row.exists = user[a].exists,
             row.locked => row.failures > 0, row.verified = user[a].verified,
             UNCHANGED links, guesses' \in [Accounts -> Nat], Finish(r)
      PROVE  Typed'
  BY <1>1, <1>2, <1>5, SoundAfter, UserTyped DEF Finish
<1>6. CASE RecordFailedLogin(r, a)
  <2> DEFINE nextCount == req[r].seen + 1
             locked == user[a].locked \/ Locks(nextCount)
             row == [user[a] EXCEPT !.failures = nextCount, !.locked = locked]
  <2>1. nextCount \in Nat /\ nextCount > 0
    BY <1>1 DEF RequestState
  <2>2. locked \in BOOLEAN
    BY <1>1 DEF Locks, User
  <2>3. user' = [user EXCEPT ![a].failures = nextCount, ![a].locked = locked]
    BY <1>6 DEF RecordFailedLogin
  <2> HIDE DEF nextCount, locked
  <2>4. user' = [user EXCEPT ![a] = row]
    BY <1>2, <2>3
  <2>5. row \in User /\ row.failures > 0
    BY <1>1, <2>1, <2>2 DEF User
  <2>6. row.exists = user[a].exists /\ row.verified = user[a].verified
    BY <1>1 DEF User
  <2>7. guesses' \in [Accounts -> Nat]
    BY <1>1, <1>2, <1>6 DEF RecordFailedLogin
  <2> HIDE DEF row
  <2> QED BY <1>5, <1>6, <2>4, <2>5, <2>6, <2>7 DEF RecordFailedLogin
<1>7. CASE CommitLogin(r, a)
  <2> DEFINE row == [user[a] EXCEPT !.failures = 0, !.locked = FALSE]
  <2>1. row \in User /\ ~row.locked /\ row.exists = user[a].exists /\ row.verified = user[a].verified
    BY <1>1 DEF User
  <2>2. user' = [user EXCEPT ![a] = row] /\ guesses' \in [Accounts -> Nat]
    BY <1>2, <1>7 DEF CommitLogin, Reopened
  <2> HIDE DEF row
  <2> QED BY <1>5, <1>7, <2>1, <2>2 DEF CommitLogin
<1>8. CASE SetStatus(r, a)
  <2> DEFINE row == [user[a] EXCEPT !.status = req[r].to]
  <2>1. req[r].to \in UserStatus
    BY <1>1, <1>8 DEF SetStatus, RequestState
  <2>2. /\ row \in User /\ row.exists = user[a].exists /\ row.verified = user[a].verified
        /\ row.locked = user[a].locked /\ row.failures = user[a].failures
    BY <1>1, <2>1 DEF User
  <2>3. user' = [user EXCEPT ![a] = row]
    BY <1>8 DEF SetStatus
  <2> HIDE DEF row
  <2> QED BY <1>1, <1>2, <1>5, <1>8, <2>2, <2>3 DEF SetStatus
<1>9. CASE Remove(r, a)
  <2> DEFINE row == [user[a] EXCEPT !.deleted = TRUE, !.status = "INACTIVE"]
  <2>1. /\ row \in User /\ row.exists = user[a].exists /\ row.verified = user[a].verified
        /\ row.locked = user[a].locked /\ row.failures = user[a].failures
    BY <1>1 DEF User, UserStatus
  <2>2. user' = [user EXCEPT ![a] = row]
    BY <1>9 DEF Remove
  <2> HIDE DEF row
  <2> QED BY <1>1, <1>2, <1>5, <1>9, <2>1, <2>2 DEF Remove
<1> QED BY <1>4, <1>6, <1>7, <1>8, <1>9

LEMMA LinksTyped ==
    ASSUME Typed, NEW r \in Requests, NEW a \in Accounts,
           SendLink(r, a) \/ VerifyEmail(r, a) \/ ResetPassword(r, a)
    PROVE  Typed'
<1>1. /\ user[a] \in User /\ (user[a].locked => user[a].failures > 0)
      /\ user \in [Accounts -> User] /\ guesses \in [Accounts -> Nat]
  BY UserOnFile DEF Typed, TypeOK
<1>2. CASE SendLink(r, a)
  <2> DEFINE row == [of |-> a, kind |-> req[r].mail, expired |-> FALSE, used |-> FALSE, uses |-> 0]
  <2>1. req[r].mail \in {"verify", "reset"} /\ user[a].exists
    BY <1>2 DEF SendLink, At, Typed, Referring
  <2>2. row \in Link /\ row.of = a
    BY <2>1 DEF Link
  <2>3. links' = Append(links, row) /\ UNCHANGED <<user, guesses>> /\ req' = [req EXCEPT ![r] = Idle]
    BY <1>2 DEF SendLink, Finish
  <2> HIDE DEF row
  <2>4. /\ links' \in Seq(Link) /\ DOMAIN links \subseteq DOMAIN links'
        /\ \A l \in DOMAIN links' : (l \in DOMAIN links /\ links'[l] = links[l]) \/ links'[l] = row
    BY <2>2, <2>3 DEF Typed, TypeOK
  <2>5. TypeOK'
    BY <2>3, <2>4, IdleTyped DEF Typed, TypeOK
  <2>6. Referring'
    BY <2>1, <2>2, <2>3, <2>4, IdleTyped DEF Typed, TypeOK, Referring
  <2> QED BY <2>5, <2>6 DEF Typed
<1>3. ASSUME req[r].stage = "open", a \in req[r].of
      PROVE  user[a].exists /\ req[r].link \in DOMAIN links
  BY <1>3 DEF Typed, TypeOK, Referring
<1>4. CASE VerifyEmail(r, a)
  <2> DEFINE row == [user[a] EXCEPT !.verified = TRUE, !.status = "ACTIVE"]
  <2>1. row \in User /\ row.locked = user[a].locked /\ row.failures = user[a].failures
        /\ row.exists = user[a].exists
    BY <1>1 DEF User, UserStatus
  <2>2. user[a].exists /\ req[r].link \in DOMAIN links
    BY <1>3, <1>4 DEF VerifyEmail, At
  <2>3. user' = [user EXCEPT ![a] = row] /\ Spend(req[r].link) /\ Finish(r) /\ UNCHANGED guesses
    BY <1>4 DEF VerifyEmail
  <2> HIDE DEF row
  <2> QED BY <1>1, <2>1, <2>2, <2>3, SpendTyped, SoundAfter, UserTyped DEF Finish
<1>5. CASE ResetPassword(r, a)
  <2> DEFINE row == [user[a] EXCEPT !.failures = 0, !.locked = FALSE]
  <2>1. row \in User /\ ~row.locked /\ row.exists = user[a].exists
    BY <1>1 DEF User
  <2>2. user[a].exists /\ req[r].link \in DOMAIN links
    BY <1>3, <1>5 DEF ResetPassword, At
  <2>3. /\ user' = [user EXCEPT ![a] = row] /\ Spend(req[r].link) /\ Finish(r)
        /\ guesses' \in [Accounts -> Nat]
    BY <1>1, <1>5 DEF ResetPassword, Reopened
  <2> HIDE DEF row
  <2> QED BY <1>1, <2>1, <2>2, <2>3, SpendTyped, SoundAfter, UserTyped DEF Finish
<1> QED BY <1>2, <1>4, <1>5

LEMMA ReadsTyped ==
    ASSUME Typed, NEW r \in Requests, NEW a \in Accounts,
           \/ BeginRegister(r, a) \/ BeginInvite(r, a) \/ ResendVerification(r, a)
           \/ ForgotPassword(r, a) \/ ReadForGuess(r, a) \/ ReadForLogin(r, a)
           \/ \E to \in StatusInputs \cup {"deleted"} : ReadForAdmin(r, a, to)
    PROVE  Typed'
<1>1. CASE BeginRegister(r, a)
  <2> DEFINE fields == [Idle EXCEPT !.stage = "register", !.of = {a}]
  <2>1. fields \in RequestState /\ fields.stage = "register"
    BY IdleTyped DEF Idle, RequestState, Stages
  <2>2. req' = [req EXCEPT ![r] = fields] /\ Unchanged
    BY <1>1 DEF BeginRegister, Begin
  <2> HIDE DEF fields
  <2> QED BY <2>1, <2>2, OnItsWaySound, RequestTyped
<1>2. CASE BeginInvite(r, a)
  <2> DEFINE fields == [Idle EXCEPT !.stage = "invite", !.of = {a}]
  <2>1. fields \in RequestState /\ fields.stage = "invite"
    BY IdleTyped DEF Idle, RequestState, Stages
  <2>2. req' = [req EXCEPT ![r] = fields] /\ Unchanged
    BY <1>2 DEF BeginInvite, Begin
  <2> HIDE DEF fields
  <2> QED BY <2>1, <2>2, OnItsWaySound, RequestTyped
<1>3. CASE ReadForLogin(r, a)
  <2> DEFINE fields == [Idle EXCEPT !.stage = "login", !.of = {a}]
  <2>1. fields \in RequestState /\ fields.stage = "login"
    BY IdleTyped DEF Idle, RequestState, Stages
  <2>2. req' = [req EXCEPT ![r] = fields] /\ Unchanged
    BY <1>3 DEF ReadForLogin, Begin
  <2> HIDE DEF fields
  <2> QED BY <2>1, <2>2, OnItsWaySound, RequestTyped
<1>4. CASE ResendVerification(r, a) \/ ForgotPassword(r, a)
  BY <1>4, MailSound, RequestTyped DEF ResendVerification, Unverified, ForgotPassword, Begin
<1>5. CASE ReadForGuess(r, a)
  <2> DEFINE fields == [Idle EXCEPT !.stage = "guess", !.of = {a}, !.seen = user[a].failures]
  <2>1. user[a].failures \in Nat
    BY UserOnFile
  <2>2. fields \in RequestState /\ fields.stage = "guess"
    BY <2>1, IdleTyped DEF Idle, RequestState, Stages
  <2>3. req' = [req EXCEPT ![r] = fields] /\ Unchanged
    BY <1>5 DEF ReadForGuess, Begin
  <2> HIDE DEF fields
  <2> QED BY <2>2, <2>3, OnItsWaySound, RequestTyped
<1>6. ASSUME NEW to \in StatusInputs \cup {"deleted"}, ReadForAdmin(r, a, to) PROVE Typed'
  <2> DEFINE fields == [Idle EXCEPT !.stage = "admin", !.of = {a}, !.to = to]
  <2>1. to \in UserStatus \cup {"deleted"}
    BY AccessAssumption
  <2>2. fields \in RequestState /\ fields.stage = "admin"
    BY <2>1, IdleTyped DEF Idle, RequestState, Stages
  <2>3. req' = [req EXCEPT ![r] = fields] /\ Unchanged
    BY <1>6 DEF ReadForAdmin, Begin
  <2> HIDE DEF fields
  <2> QED BY <2>2, <2>3, OnItsWaySound, RequestTyped
<1> QED BY <1>1, <1>2, <1>3, <1>4, <1>5, <1>6

LEMMA StepTyped == Typed /\ [Next]_vars => Typed'
<1>1. ASSUME Typed, NEW r \in Requests, NEW l \in DOMAIN links, OpenLink(r, l) PROVE Typed'
  <2> DEFINE fields == [Idle EXCEPT !.stage = "open", !.of = {links[l].of}, !.link = l]
  <2>1. links[l].of \in Accounts /\ l \in Nat /\ user[links[l].of].exists
    BY <1>1, LinkOnFile DEF Typed, TypeOK, Referring
  <2>2. /\ fields \in RequestState /\ fields.stage = "open" /\ fields.link = l
        /\ fields.of = {links[l].of} /\ fields.mail = "none"
    BY <2>1, IdleTyped DEF Idle, RequestState, Stages
  <2>3. Sound(fields)
    <3> HIDE DEF fields
    <3> QED BY <2>1, <2>2 DEF Sound
  <2> QED BY <1>1, <2>3, RequestTyped DEF OpenLink, Begin
<1>2. ASSUME Typed, NEW r \in Requests, Abandon(r) PROVE Typed'
  BY <1>2, IdleSound, RequestTyped DEF Abandon, Finish
<1>3. ASSUME Typed, NEW a \in Accounts, LockExpires(a) PROVE Typed'
  <2> DEFINE row == [user[a] EXCEPT !.locked = FALSE]
  <2>1. /\ row \in User /\ ~row.locked /\ row.exists = user[a].exists
        /\ row.verified = user[a].verified
    BY <1>3, UserOnFile DEF User
  <2>2. user' = [user EXCEPT ![a] = row] /\ guesses' \in [Accounts -> Nat] /\ UNCHANGED <<links, req>>
    BY <1>3 DEF LockExpires, Typed, TypeOK
  <2> HIDE DEF row
  <2>3. \A b \in Accounts : /\ user'[b].exists = user[b].exists
                            /\ user'[b].verified = user[b].verified
                            /\ user'[b].locked => user'[b].failures > 0
    BY <1>3, <2>1, <2>2, UserOnFile DEF Typed, TypeOK
  <2>4. user' \in [Accounts -> User]
    BY <1>3, <2>1, <2>2 DEF Typed, TypeOK
  <2>5. \A l \in DOMAIN links : links[l].of \in Accounts
    BY <1>3, LinkOnFile
  <2>6. TypeOK'
    BY <1>3, <2>2, <2>3, <2>4 DEF Typed, TypeOK
  <2>7. Referring'
    BY <1>3, <2>2, <2>3, <2>5 DEF Typed, Referring
  <2> QED BY <2>6, <2>7 DEF Typed
<1>4. ASSUME Typed, NEW l \in DOMAIN links, ExpireLink(l) PROVE Typed'
  <2> DEFINE row == [links[l] EXCEPT !.expired = TRUE]
  <2>1. row \in Link /\ row.of = links[l].of
    BY <1>4, LinkOnFile DEF Link
  <2>2. links' = [links EXCEPT ![l] = row] /\ UNCHANGED <<user, req, guesses>>
    BY <1>4 DEF ExpireLink
  <2> HIDE DEF row
  <2>3. /\ links' \in Seq(Link) /\ DOMAIN links' = DOMAIN links
        /\ \A k \in DOMAIN links : links'[k].of = links[k].of
    BY <1>4, <2>1, <2>2 DEF Typed, TypeOK
  <2> QED BY <1>4, <2>2, <2>3 DEF Typed, TypeOK, Referring
<1>5. ASSUME Typed, UNCHANGED vars PROVE Typed'
  BY <1>5 DEF Typed, TypeOK, Referring, vars
<1> QED BY <1>1, <1>2, <1>3, <1>4, <1>5, AccountsTyped, LinksTyped, ReadsTyped DEF Next, Serve

\* Accounts, links and requests keep their types, a locked account has failed before, and a
\* link that is opened is on file (AuthService, UsersService).
THEOREM TypesCorrect == Spec => []TypeOK
<1> QED BY InitTyped, StepTyped, PTL DEF Spec, Typed

-----------------------------------------------------------------------------
(* How often a link works.                                                 *)

Bounded ==
    /\ LinkWithinRequests
    /\ \A l \in DOMAIN links : ~links[l].used => links[l].uses = 0

LEMMA Countable ==
    ASSUME NEW S \in SUBSET Requests
    PROVE  IsFiniteSet(S) /\ Cardinality(S) \in Nat /\ Cardinality(S) <= Cardinality(Requests)
           /\ Cardinality(Requests) \in Nat
BY FS_Subset, FS_CardinalityType, AccessAssumption

\* A step that opens no link and uses none leaves the bound alone.
LEMMA NothingOpened ==
    ASSUME Typed, Bounded, NEW r \in Requests, NEW q, q.stage # "open",
           req' = [req EXCEPT ![r] = q], DOMAIN links' = DOMAIN links,
           \A l \in DOMAIN links : /\ links'[l].uses = links[l].uses
                                   /\ links'[l].used <=> links[l].used
    PROVE  Bounded'
<1>1. ASSUME NEW l \in DOMAIN links
      PROVE  links'[l].uses + Cardinality(Opening(l)') <= Cardinality(Requests)
  <2>1. Opening(l)' \subseteq Opening(l) /\ Opening(l) \subseteq Requests
    BY DEF Opening, Typed, TypeOK
  <2>2. IsFiniteSet(Opening(l)) /\ Cardinality(Opening(l)) \in Nat /\ Cardinality(Requests) \in Nat
    BY <2>1, Countable
  <2>3. Cardinality(Opening(l)') \in Nat /\ Cardinality(Opening(l)') <= Cardinality(Opening(l))
    BY <2>1, <2>2, FS_Subset, FS_CardinalityType
  <2>4. links'[l].uses = links[l].uses /\ links[l].uses \in Nat
    BY LinkOnFile
  <2>5. links[l].uses + Cardinality(Opening(l)) <= Cardinality(Requests)
    BY DEF Bounded, LinkWithinRequests
  <2> HIDE DEF Opening
  <2> QED BY <2>2, <2>3, <2>4, <2>5
<1>2. LinkWithinRequests'
  BY <1>1 DEF LinkWithinRequests
<1>3. \A l \in DOMAIN links' : ~links'[l].used => links'[l].uses = 0
  BY DEF Bounded
<1> QED BY <1>2, <1>3 DEF Bounded

\* The request that uses a link no longer has it open.
LEMMA SpendBounded ==
    ASSUME Typed, Bounded, NEW r \in Requests, req[r].stage = "open",
           Spend(req[r].link), Finish(r)
    PROVE  Bounded'
<1> DEFINE spent == req[r].link
<1>1. spent \in DOMAIN links
  BY DEF Typed, TypeOK
<1>2. /\ DOMAIN links' = DOMAIN links
      /\ \A k \in DOMAIN links :
            /\ links'[k].used <=> links[k].used \/ k = spent
            /\ links'[k].uses = links[k].uses + (IF k = spent THEN 1 ELSE 0)
  BY <1>1, SpendTyped
<1>3. \A p \in Requests : req'[p] = IF p = r THEN Idle ELSE req[p]
  BY DEF Finish, Typed, TypeOK
<1>4. ASSUME NEW l \in DOMAIN links
      PROVE  links'[l].uses + Cardinality(Opening(l)') <= Cardinality(Requests)
  <2>1. links[l].uses \in Nat /\ links[l].uses + Cardinality(Opening(l)) <= Cardinality(Requests)
    BY LinkOnFile DEF Bounded, LinkWithinRequests
  <2>2. /\ Opening(l) \subseteq Requests
        /\ Opening(l)' = IF l = spent THEN Opening(l) \ {r} ELSE Opening(l)
        /\ l = spent => r \in Opening(l)
    BY <1>3, IdleTyped DEF Opening
  <2>3. IsFiniteSet(Opening(l)) /\ Cardinality(Opening(l)) \in Nat /\ Cardinality(Requests) \in Nat
    BY <2>2, Countable
  <2>4. Cardinality(Opening(l)') = Cardinality(Opening(l)) - (IF l = spent THEN 1 ELSE 0)
    <3>1. l = spent => Cardinality(Opening(l) \ {r}) = Cardinality(Opening(l)) - 1
      BY <2>2, <2>3, FS_RemoveElement
    <3> HIDE DEF Opening, spent
    <3> QED BY <2>2, <2>3, <3>1
  <2>5. links'[l].uses = links[l].uses + (IF l = spent THEN 1 ELSE 0)
    BY <1>2
  <2> HIDE DEF Opening, spent
  <2> QED BY <2>1, <2>3, <2>4, <2>5
<1>5. LinkWithinRequests'
  BY <1>2, <1>4 DEF LinkWithinRequests
<1>6. \A l \in DOMAIN links : links[l].uses \in Nat
  BY LinkOnFile
<1>7. \A l \in DOMAIN links' : ~links'[l].used => links'[l].uses = 0
  BY <1>2, <1>6 DEF Bounded
<1> QED BY <1>5, <1>7 DEF Bounded

\* A link that is opened has never worked, and a new one neither.
LEMMA OpenBounded ==
    ASSUME Typed, Bounded, NEW r \in Requests, NEW l \in DOMAIN links, OpenLink(r, l)
    PROVE  Bounded'
<1>1. UNCHANGED links /\ ~links[l].used
  BY DEF OpenLink, Unchanged, Fresh
<1>2. \A p \in Requests : req'[p] = IF p = r THEN [Idle EXCEPT !.stage = "open", !.of = {links[l].of}, !.link = l]
                                            ELSE req[p]
  BY DEF OpenLink, Begin, Typed, TypeOK
<1>3. [Idle EXCEPT !.stage = "open", !.of = {links[l].of}, !.link = l].link = l
  BY DEF Idle
<1>4. ASSUME NEW k \in DOMAIN links
      PROVE  links[k].uses + Cardinality(Opening(k)') <= Cardinality(Requests)
  <2>1. Opening(k) \subseteq Requests /\ Opening(k)' \subseteq Requests
    BY DEF Opening
  <2>2. CASE k = l
    <3>1. links[k].uses = 0
      BY <1>1, <2>2 DEF Bounded
    <3>2. Cardinality(Opening(k)') \in Nat /\ Cardinality(Opening(k)') <= Cardinality(Requests)
      BY <2>1, Countable
    <3> QED BY <3>1, <3>2, Countable
  <2>3. CASE k # l
    <3>1. Opening(k)' \subseteq Opening(k)
      BY <1>2, <1>3, <2>3 DEF Opening
    <3>2. IsFiniteSet(Opening(k)) /\ Cardinality(Opening(k)) \in Nat /\ Cardinality(Requests) \in Nat
      BY <2>1, Countable
    <3>3. Cardinality(Opening(k)') \in Nat /\ Cardinality(Opening(k)') <= Cardinality(Opening(k))
      BY <3>1, <3>2, FS_Subset, FS_CardinalityType
    <3>4. links[k].uses \in Nat /\ links[k].uses + Cardinality(Opening(k)) <= Cardinality(Requests)
      BY LinkOnFile DEF Bounded, LinkWithinRequests
    <3> HIDE DEF Opening
    <3> QED BY <3>2, <3>3, <3>4
  <2> QED BY <2>2, <2>3
<1>5. LinkWithinRequests'
  BY <1>1, <1>4 DEF LinkWithinRequests
<1> QED BY <1>1, <1>5 DEF Bounded

LEMMA SendBounded ==
    ASSUME Typed, Bounded, NEW r \in Requests, NEW a \in Accounts, SendLink(r, a)
    PROVE  Bounded'
<1> DEFINE row == [of |-> a, kind |-> req[r].mail, expired |-> FALSE, used |-> FALSE, uses |-> 0]
<1>1. links' = Append(links, row) /\ req' = [req EXCEPT ![r] = Idle] /\ row.uses = 0
  BY DEF SendLink, Finish
<1>2. \A p \in Requests : req'[p] = IF p = r THEN Idle ELSE req[p]
  BY <1>1 DEF Typed, TypeOK
<1> HIDE DEF row
<1>3. \A l \in DOMAIN links' : (l \in DOMAIN links /\ links'[l] = links[l]) \/ links'[l] = row
  BY <1>1 DEF Typed, TypeOK
<1>4. ASSUME NEW l \in DOMAIN links'
      PROVE  links'[l].uses + Cardinality(Opening(l)') <= Cardinality(Requests)
  <2>1. Opening(l)' \subseteq Opening(l) /\ Opening(l) \subseteq Requests
    BY <1>2, IdleTyped DEF Opening
  <2>2. IsFiniteSet(Opening(l)) /\ Cardinality(Opening(l)) \in Nat /\ Cardinality(Requests) \in Nat
        /\ Cardinality(Opening(l)) <= Cardinality(Requests)
    BY <2>1, Countable
  <2>3. Cardinality(Opening(l)') \in Nat /\ Cardinality(Opening(l)') <= Cardinality(Opening(l))
    BY <2>1, <2>2, FS_Subset, FS_CardinalityType
  <2>4. CASE links'[l] = row
    BY <1>1, <2>2, <2>3, <2>4
  <2>5. CASE l \in DOMAIN links /\ links'[l] = links[l]
    <3>1. links[l].uses \in Nat /\ links[l].uses + Cardinality(Opening(l)) <= Cardinality(Requests)
      BY <2>5, LinkOnFile DEF Bounded, LinkWithinRequests
    <3> HIDE DEF Opening
    <3> QED BY <2>2, <2>3, <2>5, <3>1
  <2> QED BY <1>3, <2>4, <2>5
<1>5. LinkWithinRequests'
  BY <1>4 DEF LinkWithinRequests
<1>6. \A l \in DOMAIN links' : ~links'[l].used => links'[l].uses = 0
  BY <1>1, <1>3 DEF Bounded
<1> QED BY <1>5, <1>6 DEF Bounded

\* Every other read and every other write opens nothing and spends nothing.
LEMMA OthersBounded ==
    ASSUME Typed, Bounded, NEW r \in Requests, NEW a \in Accounts,
           \/ BeginRegister(r, a) \/ CommitRegister(r, a)
           \/ BeginInvite(r, a) \/ CommitInvite(r, a)
           \/ ResendVerification(r, a) \/ ForgotPassword(r, a)
           \/ ReadForGuess(r, a) \/ RecordFailedLogin(r, a)
           \/ ReadForLogin(r, a) \/ CommitLogin(r, a)
           \/ \E to \in StatusInputs \cup {"deleted"} : ReadForAdmin(r, a, to)
           \/ SetStatus(r, a) \/ Remove(r, a)
    PROVE  Bounded'
<1>1. Idle.stage # "open" /\ \A kind \in {"verify", "reset"} : Mail(r, a, kind).stage # "open"
  BY DEF Idle, Mail
<1>2. CASE CommitRegister(r, a) \/ CommitInvite(r, a)
  BY <1>1, <1>2, NothingOpened DEF CommitRegister, CommitInvite, Insert
<1>3. CASE ResendVerification(r, a) \/ ForgotPassword(r, a)
  BY <1>1, <1>3, NothingOpened DEF ResendVerification, ForgotPassword, Begin, Unchanged
<1>4. CASE RecordFailedLogin(r, a) \/ CommitLogin(r, a) \/ SetStatus(r, a) \/ Remove(r, a)
  BY <1>1, <1>4, NothingOpened DEF RecordFailedLogin, CommitLogin, SetStatus, Remove, Finish
<1>5. CASE BeginRegister(r, a)
  <2>1. [Idle EXCEPT !.stage = "register", !.of = {a}].stage # "open"
    BY DEF Idle
  <2> QED BY <1>5, <2>1, NothingOpened DEF BeginRegister, Begin, Unchanged
<1>6. CASE BeginInvite(r, a)
  <2>1. [Idle EXCEPT !.stage = "invite", !.of = {a}].stage # "open"
    BY DEF Idle
  <2> QED BY <1>6, <2>1, NothingOpened DEF BeginInvite, Begin, Unchanged
<1>7. CASE ReadForGuess(r, a)
  <2>1. [Idle EXCEPT !.stage = "guess", !.of = {a}, !.seen = user[a].failures].stage # "open"
    BY DEF Idle
  <2> QED BY <1>7, <2>1, NothingOpened DEF ReadForGuess, Begin, Unchanged
<1>8. CASE ReadForLogin(r, a)
  <2>1. [Idle EXCEPT !.stage = "login", !.of = {a}].stage # "open"
    BY DEF Idle
  <2> QED BY <1>8, <2>1, NothingOpened DEF ReadForLogin, Begin, Unchanged
<1>9. ASSUME NEW to \in StatusInputs \cup {"deleted"}, ReadForAdmin(r, a, to) PROVE Bounded'
  <2>1. [Idle EXCEPT !.stage = "admin", !.of = {a}, !.to = to].stage # "open"
    BY DEF Idle
  <2> QED BY <1>9, <2>1, NothingOpened DEF ReadForAdmin, Begin, Unchanged
<1> QED BY <1>2, <1>3, <1>4, <1>5, <1>6, <1>7, <1>8, <1>9

\* The requests' own tables are as they were when only the accounts or a link's age move.
LEMMA StillBounded ==
    ASSUME Typed, Bounded, UNCHANGED req, DOMAIN links' = DOMAIN links,
           \A l \in DOMAIN links : /\ links'[l].uses = links[l].uses
                                   /\ links'[l].used <=> links[l].used
    PROVE  Bounded'
<1>1. \A l \in DOMAIN links : Opening(l)' = Opening(l)
  BY DEF Opening
<1> QED BY <1>1 DEF Bounded, LinkWithinRequests

LEMMA StepBounded == Typed /\ Bounded /\ [Next]_vars => Bounded'
<1>1. ASSUME Typed, Bounded, NEW r \in Requests, NEW a \in Accounts,
             VerifyEmail(r, a) \/ ResetPassword(r, a)
      PROVE  Bounded'
  BY <1>1, SpendBounded DEF VerifyEmail, ResetPassword, At
<1>2. ASSUME Typed, Bounded, NEW r \in Requests, Abandon(r) PROVE Bounded'
  <2>1. Idle.stage # "open"
    BY IdleTyped
  <2> QED BY <1>2, <2>1, NothingOpened DEF Abandon, Finish, Unchanged
<1>3. ASSUME Typed, Bounded, NEW a \in Accounts, LockExpires(a) PROVE Bounded'
  BY <1>3, StillBounded DEF LockExpires
<1>4. ASSUME Typed, Bounded, NEW l \in DOMAIN links, ExpireLink(l) PROVE Bounded'
  <2> DEFINE row == [links[l] EXCEPT !.expired = TRUE]
  <2>1. row.uses = links[l].uses /\ row.used = links[l].used
    BY <1>4, LinkOnFile DEF Link
  <2>2. links' = [links EXCEPT ![l] = row] /\ UNCHANGED req
    BY <1>4 DEF ExpireLink
  <2> HIDE DEF row
  <2>3. /\ DOMAIN links' = DOMAIN links
        /\ \A k \in DOMAIN links : links'[k] = IF k = l THEN row ELSE links[k]
    BY <1>4, <2>2 DEF Typed, TypeOK
  <2> QED BY <1>4, <2>1, <2>2, <2>3, StillBounded
<1>5. ASSUME Typed, Bounded, UNCHANGED vars PROVE Bounded'
  BY <1>5, StillBounded DEF vars
<1> QED BY <1>1, <1>2, <1>3, <1>4, <1>5, OpenBounded, SendBounded, OthersBounded DEF Next, Serve

LEMMA InitBounded == Init => Bounded
BY DEF Init, Bounded, LinkWithinRequests

\* A one-time link (auth.controller.ts:117) works at most as often as the server has requests
\* at one time: verifyEmail and resetPassword check it before they mark it as used.
THEOREM LinksBounded == Spec => []LinkWithinRequests
<1> QED BY InitTyped, StepTyped, InitBounded, StepBounded, PTL DEF Spec, Bounded

-----------------------------------------------------------------------------
(* When a status is the administrator's alone.                             *)

\* What a request may still do to a shut account.
Harmless(q, a) ==
    a \in q.of => \/ q.stage \in {"idle", "guess", "login", "admin"}
                  \/ q.mail = "reset"
                  \/ q.stage = "open" /\ links[q.link].kind = "reset"

\* No link can verify the address any more.
Spent(a) == \A l \in DOMAIN links : links[l].of = a /\ links[l].kind = "verify" => ~Fresh(l)

LEMMA ShutParts ==
    ASSUME NEW a \in Accounts
    PROVE  Shut(a) <=> user[a].verified /\ Spent(a) /\ \A r \in Requests : Harmless(req[r], a)
BY DEF Shut, Spent, Harmless

LEMMA IdleHarmless == \A a \in Accounts : Harmless(Idle, a) /\ Harmless(Idle, a)'
BY IdleTyped DEF Harmless

\* A request that moves harmlessly while the links stay leaves the way shut.
LEMMA StaysShut ==
    ASSUME Typed, NEW a \in Accounts, Shut(a), NEW r \in Requests, NEW q, Harmless(q, a),
           req' = [req EXCEPT ![r] = q], UNCHANGED links, user'[a].verified
    PROVE  Shut(a)'
<1>1. Spent(a)' <=> Spent(a)
  BY DEF Spent, Fresh
<1>2. \A p \in Requests : req'[p] = IF p = r THEN q ELSE req[p]
  BY DEF Typed, TypeOK
<1>3. \A p \in Requests : Harmless(req[p], a)' <=> Harmless(req'[p], a)
  BY DEF Harmless
<1>4. \A p \in Requests : Harmless(req[p], a)'
  BY <1>2, <1>3, ShutParts
<1>5. Shut(a)' <=> user'[a].verified /\ Spent(a)' /\ \A p \in Requests : Harmless(req[p], a)'
  BY DEF Shut, Spent, Harmless
<1> QED BY <1>1, <1>4, <1>5, ShutParts

\* What a step owes a shut account.
StillTheAdministrators(a) ==
    /\ Shut(a)'
    /\ user'[a].status # user[a].status => \E r \in Requests : At(r, "admin", a)

LEMMA ReadsShut ==
    ASSUME Typed, NEW a \in Accounts, Shut(a), NEW r \in Requests, NEW b \in Accounts,
           \/ BeginRegister(r, b) \/ BeginInvite(r, b) \/ ResendVerification(r, b)
           \/ ForgotPassword(r, b) \/ ReadForGuess(r, b) \/ ReadForLogin(r, b)
           \/ \E to \in StatusInputs \cup {"deleted"} : ReadForAdmin(r, b, to)
    PROVE  StillTheAdministrators(a)
<1>a. /\ UNCHANGED user /\ UNCHANGED links /\ user[a].verified /\ user'[a].verified
      /\ user[a].exists
  BY DEF Shut, Typed, Referring, BeginRegister, BeginInvite, ResendVerification, ForgotPassword,
         ReadForGuess, ReadForLogin, ReadForAdmin, Unchanged
<1>b. SUFFICES Shut(a)'
  BY <1>a DEF StillTheAdministrators
<1>1. CASE BeginRegister(r, b)
  <2> DEFINE q == [Idle EXCEPT !.stage = "register", !.of = {b}]
  <2>1. q.of = {b}
    BY DEF Idle
  <2>2. req' = [req EXCEPT ![r] = q] /\ Unchanged
    BY <1>1 DEF BeginRegister, Begin
  <2> HIDE DEF q
  <2>3. Harmless(q, a)
    BY <1>a, <1>1, <2>1 DEF Harmless, BeginRegister
  <2> QED BY <1>a, <2>2, <2>3, StaysShut DEF Unchanged
<1>2. CASE BeginInvite(r, b)
  <2> DEFINE q == [Idle EXCEPT !.stage = "invite", !.of = {b}]
  <2>1. q.of = {b}
    BY DEF Idle
  <2>2. req' = [req EXCEPT ![r] = q] /\ Unchanged
    BY <1>2 DEF BeginInvite, Begin
  <2> HIDE DEF q
  <2>3. Harmless(q, a)
    BY <1>a, <1>2, <2>1 DEF Harmless, BeginInvite
  <2> QED BY <1>a, <2>2, <2>3, StaysShut DEF Unchanged
<1>3. CASE ReadForGuess(r, b)
  <2> DEFINE q == [Idle EXCEPT !.stage = "guess", !.of = {b}, !.seen = user[b].failures]
  <2>1. q.stage = "guess"
    BY DEF Idle
  <2>2. req' = [req EXCEPT ![r] = q] /\ Unchanged
    BY <1>3 DEF ReadForGuess, Begin
  <2> HIDE DEF q
  <2>3. Harmless(q, a)
    BY <1>a, <1>3, <2>1 DEF Harmless, ReadForGuess
  <2> QED BY <1>a, <2>2, <2>3, StaysShut DEF Unchanged
<1>4. CASE ReadForLogin(r, b)
  <2> DEFINE q == [Idle EXCEPT !.stage = "login", !.of = {b}]
  <2>1. q.stage = "login"
    BY DEF Idle
  <2>2. req' = [req EXCEPT ![r] = q] /\ Unchanged
    BY <1>4 DEF ReadForLogin, Begin
  <2> HIDE DEF q
  <2>3. Harmless(q, a)
    BY <1>a, <1>4, <2>1 DEF Harmless, ReadForLogin
  <2> QED BY <1>a, <2>2, <2>3, StaysShut DEF Unchanged
<1>5. ASSUME NEW to \in StatusInputs \cup {"deleted"}, ReadForAdmin(r, b, to) PROVE Shut(a)'
  <2> DEFINE q == [Idle EXCEPT !.stage = "admin", !.of = {b}, !.to = to]
  <2>1. q.stage = "admin"
    BY DEF Idle
  <2>2. req' = [req EXCEPT ![r] = q]
    BY <1>5 DEF ReadForAdmin, Begin
  <2> HIDE DEF q
  <2>3. Harmless(q, a)
    BY <2>1 DEF Harmless
  <2> QED BY <1>a, <2>2, <2>3, StaysShut
<1>6. \A kind \in {"verify", "reset"} : Mail(r, b, kind).of = {b} /\ Mail(r, b, kind).mail = kind
  BY DEF Mail, Idle
<1>7. CASE ResendVerification(r, b)
  <2>1. Harmless(Mail(r, b, "verify"), a)
    BY <1>a, <1>6, <1>7 DEF Harmless, ResendVerification, Unverified
  <2> QED BY <1>a, <1>7, <2>1, StaysShut DEF ResendVerification, Begin
<1>8. CASE ForgotPassword(r, b)
  <2>1. Harmless(Mail(r, b, "reset"), a)
    BY <1>6 DEF Harmless
  <2> QED BY <1>a, <1>8, <2>1, StaysShut DEF ForgotPassword, Begin
<1> QED BY <1>1, <1>2, <1>3, <1>4, <1>5, <1>7, <1>8

LEMMA AccountsShut ==
    ASSUME Typed, NEW a \in Accounts, Shut(a), NEW r \in Requests, NEW b \in Accounts,
           \/ CommitRegister(r, b) \/ CommitInvite(r, b)
           \/ RecordFailedLogin(r, b) \/ CommitLogin(r, b)
           \/ SetStatus(r, b) \/ Remove(r, b)
    PROVE  StillTheAdministrators(a)
<1>1. /\ user \in [Accounts -> User] /\ user[a].verified /\ user[a].exists
      /\ user[b] \in User
  BY DEF Shut, Typed, TypeOK, Referring
<1>2. \A kind \in {"verify", "reset"} : Mail(r, b, kind).of = {b}
  BY DEF Mail, Idle
<1>3. CASE CommitRegister(r, b) \/ CommitInvite(r, b)
  <2>1. a # b /\ UNCHANGED links
    BY <1>1, <1>3 DEF CommitRegister, CommitInvite, Insert
  <2>2. user'[a] = user[a]
    BY <1>1, <1>3, <2>1 DEF CommitRegister, CommitInvite, Insert
  <2>3. \A kind \in {"verify", "reset"} : Harmless(Mail(r, b, kind), a)
    BY <1>2, <2>1 DEF Harmless
  <2>4. \E kind \in {"verify", "reset"} : req' = [req EXCEPT ![r] = Mail(r, b, kind)]
    BY <1>3 DEF CommitRegister, CommitInvite
  <2> QED BY <1>1, <2>1, <2>2, <2>3, <2>4, StaysShut DEF StillTheAdministrators
<1>4. ASSUME Finish(r), UNCHANGED links, user'[a].verified,
             user'[a].status = user[a].status \/ At(r, "admin", a)
      PROVE  StillTheAdministrators(a)
  BY <1>4, IdleHarmless, StaysShut DEF StillTheAdministrators, Finish
<1>5. CASE RecordFailedLogin(r, b) \/ CommitLogin(r, b)
  <2>a. ASSUME NEW count, NEW locked,
               user' = [user EXCEPT ![b].failures = count, ![b].locked = locked]
        PROVE  user'[a].verified = user[a].verified /\ user'[a].status = user[a].status
    <3> DEFINE row == [user[b] EXCEPT !.failures = count, !.locked = locked]
    <3>1. user' = [user EXCEPT ![b] = row]
      BY <1>1, <2>a
    <3>2. row.verified = user[b].verified /\ row.status = user[b].status
      BY <1>1 DEF User
    <3> HIDE DEF row
    <3> QED BY <1>1, <3>1, <3>2
  <2>b. ASSUME RecordFailedLogin(r, b)
        PROVE  user'[a].verified = user[a].verified /\ user'[a].status = user[a].status
    <3> DEFINE count == req[r].seen + 1
               locked == user[b].locked \/ Locks(count)
    <3>1. user' = [user EXCEPT ![b].failures = count, ![b].locked = locked]
      BY <2>b DEF RecordFailedLogin
    <3> HIDE DEF count, locked
    <3> QED BY <2>a, <3>1
  <2>c. ASSUME CommitLogin(r, b)
        PROVE  user'[a].verified = user[a].verified /\ user'[a].status = user[a].status
    BY <2>a, <2>c DEF CommitLogin, Reopened
  <2>1. user'[a].verified = user[a].verified /\ user'[a].status = user[a].status
    BY <1>5, <2>b, <2>c
  <2> QED BY <1>1, <1>4, <1>5, <2>1 DEF RecordFailedLogin, CommitLogin
<1>6. CASE SetStatus(r, b) \/ Remove(r, b)
  <2>1. user'[a].verified = user[a].verified
    BY <1>1, <1>6 DEF SetStatus, Remove, User
  <2>2. user'[a].status = user[a].status \/ At(r, "admin", a)
    BY <1>1, <1>6 DEF SetStatus, Remove, At
  <2> QED BY <1>1, <1>4, <1>6, <2>1, <2>2 DEF SetStatus, Remove
<1> QED BY <1>3, <1>5, <1>6

\* Links keep their owner and kind, and none that is spent or expired becomes fresh again.
LEMMA LinksStayShut ==
    ASSUME Typed, NEW a \in Accounts, Shut(a), user'[a].verified,
           DOMAIN links \subseteq DOMAIN links',
           \A l \in DOMAIN links : /\ links'[l].of = links[l].of /\ links'[l].kind = links[l].kind
                                   /\ Fresh(l)' => Fresh(l),
           \A l \in DOMAIN links' : l \notin DOMAIN links /\ links'[l].of = a => links'[l].kind = "reset",
           \A p \in Requests : req'[p] = req[p] \/ req'[p] = Idle
    PROVE  Shut(a)'
<1>1. Spent(a)'
  BY ShutParts DEF Spent
<1>2. ASSUME NEW p \in Requests PROVE Harmless(req[p], a)'
  <2>1. CASE req'[p] = req[p]
    <3>1. Harmless(req[p], a)
      BY ShutParts
    <3>2. req[p].stage = "open" => links'[req[p].link].kind = links[req[p].link].kind
      BY DEF Typed, TypeOK
    <3> QED BY <2>1, <3>1, <3>2 DEF Harmless
  <2>2. CASE req'[p] = Idle
    BY <2>2, IdleTyped DEF Harmless
  <2> QED BY <2>1, <2>2
<1>3. Shut(a)' <=> user'[a].verified /\ Spent(a)' /\ \A p \in Requests : Harmless(req[p], a)'
  BY DEF Shut, Spent, Harmless
<1> QED BY <1>1, <1>2, <1>3

LEMMA MovesShut ==
    ASSUME Typed, NEW a \in Accounts, Shut(a), NEW r \in Requests, NEW b \in Accounts,
           SendLink(r, b) \/ VerifyEmail(r, b) \/ ResetPassword(r, b)
    PROVE  StillTheAdministrators(a)
<1>1. /\ user \in [Accounts -> User] /\ user[a].verified /\ user[b] \in User
      /\ Harmless(req[r], a)
  BY ShutParts DEF Typed, TypeOK
<1>2. Finish(r) => \A p \in Requests : req'[p] = req[p] \/ req'[p] = Idle
  BY DEF Finish, Typed, TypeOK
<1>3. CASE SendLink(r, b)
  <2> DEFINE row == [of |-> b, kind |-> req[r].mail, expired |-> FALSE, used |-> FALSE, uses |-> 0]
  <2>1. links' = Append(links, row) /\ UNCHANGED user /\ Finish(r)
    BY <1>3 DEF SendLink
  <2>2. row.of = a => row.kind = "reset"
    BY <1>1, <1>3 DEF SendLink, At, Harmless
  <2> HIDE DEF row
  <2>3. /\ DOMAIN links \subseteq DOMAIN links'
        /\ \A l \in DOMAIN links : links'[l] = links[l]
        /\ \A l \in DOMAIN links' : l \notin DOMAIN links => links'[l] = row
    BY <2>1 DEF Typed, TypeOK
  <2>4. \A l \in DOMAIN links : Fresh(l)' => Fresh(l)
    BY <2>3 DEF Fresh
  <2>5. Shut(a)'
    BY <1>1, <1>2, <2>1, <2>2, <2>3, <2>4, LinksStayShut
  <2> QED BY <2>1, <2>5 DEF StillTheAdministrators
<1>4. ASSUME Spend(req[r].link), Finish(r), req[r].stage = "open",
             user'[a].verified, user'[a].status = user[a].status
      PROVE  StillTheAdministrators(a)
  <2> DEFINE spent == req[r].link
  <2>1. spent \in DOMAIN links
    BY <1>4 DEF Typed, TypeOK
  <2>2. /\ DOMAIN links' = DOMAIN links
        /\ \A k \in DOMAIN links : /\ links'[k].of = links[k].of
                                   /\ links'[k].kind = links[k].kind
                                   /\ links'[k].expired = links[k].expired
                                   /\ links'[k].used <=> links[k].used \/ k = spent
    BY <1>4, <2>1, SpendTyped
  <2>3. \A l \in DOMAIN links : Fresh(l)' => Fresh(l)
    BY <2>2 DEF Fresh
  <2> HIDE DEF spent
  <2>4. Shut(a)'
    BY <1>2, <1>4, <2>2, <2>3, LinksStayShut
  <2> QED BY <1>4, <2>4 DEF StillTheAdministrators
<1>5. CASE VerifyEmail(r, b)
  <2>1. b # a
    BY <1>1, <1>5 DEF VerifyEmail, At, Harmless, Typed, Referring
  <2>2. user'[a] = user[a]
    BY <1>1, <1>5, <2>1 DEF VerifyEmail
  <2> QED BY <1>1, <1>4, <1>5, <2>2 DEF VerifyEmail, At
<1>6. CASE ResetPassword(r, b)
  <2> DEFINE row == [user[b] EXCEPT !.failures = 0, !.locked = FALSE]
  <2>1. user' = [user EXCEPT ![b] = row]
    BY <1>6 DEF ResetPassword, Reopened
  <2>2. row.verified = user[b].verified /\ row.status = user[b].status
    BY <1>1 DEF User
  <2> HIDE DEF row
  <2>3. user'[a].verified = user[a].verified /\ user'[a].status = user[a].status
    BY <1>1, <2>1, <2>2
  <2> QED BY <1>1, <1>4, <1>6, <2>3 DEF ResetPassword, At
<1> QED BY <1>3, <1>5, <1>6

LEMMA OpenShut ==
    ASSUME Typed, NEW a \in Accounts, Shut(a), NEW r \in Requests, NEW l \in DOMAIN links,
           OpenLink(r, l)
    PROVE  StillTheAdministrators(a)
<1> DEFINE q == [Idle EXCEPT !.stage = "open", !.of = {links[l].of}, !.link = l]
<1>1. q.stage = "open" /\ q.of = {links[l].of} /\ q.link = l
  BY DEF Idle
<1>2. links[l].of = a => links[l].kind = "reset"
  BY LinkOnFile DEF Shut, OpenLink
<1>3. req' = [req EXCEPT ![r] = q] /\ UNCHANGED user /\ UNCHANGED links /\ user[a].verified
  BY DEF OpenLink, Begin, Unchanged, Shut
<1> HIDE DEF q
<1>4. Harmless(q, a)
  BY <1>1, <1>2 DEF Harmless
<1> QED BY <1>3, <1>4, StaysShut DEF StillTheAdministrators

LEMMA StepShut ==
    ASSUME Typed, NEW a \in Accounts, Shut(a), [Next]_vars
    PROVE  StillTheAdministrators(a)
<1>1. ASSUME NEW r \in Requests, Abandon(r) PROVE StillTheAdministrators(a)
  <2>1. Shut(a)'
    BY <1>1, IdleHarmless, StaysShut DEF Abandon, Finish, Unchanged, Shut
  <2> QED BY <1>1, <2>1 DEF StillTheAdministrators, Abandon, Unchanged
<1>2. user \in [Accounts -> User] /\ user[a].verified
  BY DEF Typed, TypeOK, Shut
<1>3. ASSUME UNCHANGED req, DOMAIN links' = DOMAIN links,
             \A l \in DOMAIN links : /\ links'[l].of = links[l].of
                                     /\ links'[l].kind = links[l].kind
                                     /\ Fresh(l)' => Fresh(l),
             user'[a].verified
      PROVE  Shut(a)'
  BY <1>3, LinksStayShut
<1>4. ASSUME NEW b \in Accounts, LockExpires(b) PROVE StillTheAdministrators(a)
  <2>1. user'[a].verified = user[a].verified /\ user'[a].status = user[a].status
    BY <1>2, <1>4 DEF LockExpires, User
  <2>2. Shut(a)'
    BY <1>2, <1>3, <1>4, <2>1 DEF LockExpires, Fresh
  <2> QED BY <2>1, <2>2 DEF StillTheAdministrators
<1>5. ASSUME NEW k \in DOMAIN links, ExpireLink(k) PROVE StillTheAdministrators(a)
  <2> DEFINE row == [links[k] EXCEPT !.expired = TRUE]
  <2>1. row.of = links[k].of /\ row.kind = links[k].kind /\ row.expired
    BY LinkOnFile DEF Link
  <2>2. links' = [links EXCEPT ![k] = row] /\ UNCHANGED user /\ UNCHANGED req
    BY <1>5 DEF ExpireLink
  <2> HIDE DEF row
  <2>3. /\ DOMAIN links' = DOMAIN links
        /\ \A l \in DOMAIN links : links'[l] = IF l = k THEN row ELSE links[l]
    BY <2>2 DEF Typed, TypeOK
  <2>4. \A l \in DOMAIN links : Fresh(l)' => Fresh(l)
    BY <2>1, <2>3 DEF Fresh
  <2>5. Shut(a)'
    BY <1>2, <1>3, <2>1, <2>2, <2>3, <2>4
  <2> QED BY <2>2, <2>5 DEF StillTheAdministrators
<1>6. CASE UNCHANGED vars
  BY <1>2, <1>3, <1>6 DEF vars, Fresh, StillTheAdministrators
<1> QED BY <1>1, <1>4, <1>5, <1>6, ReadsShut, AccountsShut, MovesShut, OpenShut DEF Next, Serve

\* An account whose address is verified and for which no link to verify it is left nor under
\* way stays so, and its status moves only by setStatus or remove (auth.service.ts:166 makes
\* the account ACTIVE whatever it is by then, as long as such a link is about).
THEOREM StatusProtected == Spec => StatusIsTheAdministrators
<1>1. Typed /\ [Next]_vars =>
         [\A a \in Accounts : Shut(a) =>
             /\ Shut(a)'
             /\ user'[a].status # user[a].status => \E r \in Requests : At(r, "admin", a)]_vars
  BY StepShut DEF StillTheAdministrators
<1> QED BY <1>1, InitTyped, StepTyped, PTL DEF Spec, StatusIsTheAdministrators

-----------------------------------------------------------------------------
(* How many wrong passwords the lock lets through.                         *)

N == Cardinality(Requests)

\* What a guess would leave behind: the count a request read, or the one it would read now.
\* Of two it is the smaller, so a request that gives up never goes back.
Count(a, r) ==
    IF At(r, "guess", a) /\ req[r].seen < user[a].failures THEN req[r].seen ELSE user[a].failures

AtMost(a, n) == {r \in Requests : Count(a, r) <= n}
TallyOf(a) == [n \in 0 .. MaxLoginAttempts - 2 |-> Cardinality(AtMost(a, n))]

\* Tallies in the order in which guesses go through them.
Before(s, t) ==
    \E n \in 0 .. MaxLoginAttempts - 2 : s[n] > t[n] /\ \A m \in 0 .. n - 1 : s[m] >= t[m]

Passed(t) == {s \in Tally : Before(s, t)}

Guessing(a) == {r \in Requests : At(r, "guess", a)}

\* Every guess while the account is open goes on to a later tally; the guess that locks it
\* leaves those that had read the row before.
GuessesCounted ==
    \A a \in Accounts :
        IF user[a].locked
        THEN guesses[a] + Cardinality(Guessing(a)) <= Cardinality(Tally) + N - 1
        ELSE guesses[a] <= Cardinality(Passed(TallyOf(a)))

LEMMA RequestsFinite == IsFiniteSet(Requests) /\ N \in Nat
BY AccessAssumption, FS_CardinalityType DEF N

LEMMA TallyFinite == IsFiniteSet(Tally) /\ Cardinality(Tally) \in Nat
<1> DEFINE D == 0 .. MaxLoginAttempts - 2
           C == 0 .. N
           F == [D -> C]
           Graph == [f \in F |-> {x \in D \X C : f[x[1]] = x[2]}]
<1>1. IsFiniteSet(D) /\ IsFiniteSet(C)
  <2>1. MaxLoginAttempts - 2 \in Int /\ N \in Int
    BY AccessAssumption, RequestsFinite
  <2> QED BY <2>1, FS_Interval
<1>2. IsFiniteSet(SUBSET (D \X C))
  BY <1>1, FS_Product, FS_SUBSET
<1>3. Graph \in Injection(F, SUBSET (D \X C))
  <2>1. Graph \in [F -> SUBSET (D \X C)]
    OBVIOUS
  <2>2. ASSUME NEW f \in F, NEW g \in F, Graph[f] = Graph[g] PROVE f = g
    <3>1. ASSUME NEW d \in D PROVE f[d] = g[d]
      <4>1. <<d, f[d]>> \in Graph[f]
        OBVIOUS
      <4>2. <<d, f[d]>> \in {x \in D \X C : g[x[1]] = x[2]}
        BY <2>2, <4>1
      <4> QED BY <4>2
    <3> HIDE DEF D, C
    <3> QED BY <3>1
  <2> HIDE DEF Graph
  <2> QED BY <2>1, <2>2 DEF Injection, IsInjective
<1>4. IsFiniteSet(F)
  <2> HIDE DEF F, D, C, Graph
  <2> QED BY <1>2, <1>3, FS_Injection
<1>5. Tally \subseteq F
  BY DEF Tally, Tallies, N
<1> QED BY <1>4, <1>5, FS_Subset, FS_CardinalityType

LEMMA PassedFinite ==
    ASSUME NEW t
    PROVE  IsFiniteSet(Passed(t)) /\ Cardinality(Passed(t)) \in Nat
BY TallyFinite, FS_Subset, FS_CardinalityType DEF Passed

LEMMA TallyType ==
    ASSUME NEW t \in Tally, NEW n \in 0 .. MaxLoginAttempts - 2
    PROVE  t[n] \in Nat
BY RequestsFinite DEF Tally, Tallies, N

\* A tally has not passed itself.
LEMMA NotPassedAll ==
    ASSUME NEW t \in Tally
    PROVE  t \notin Passed(t) /\ Cardinality(Passed(t)) <= Cardinality(Tally) - 1
<1>1. t \notin Passed(t)
  BY TallyType DEF Passed, Before
<1>2. Passed(t) \subseteq Tally \ {t}
  BY <1>1 DEF Passed
<1>3. IsFiniteSet(Tally \ {t}) /\ Cardinality(Tally \ {t}) = Cardinality(Tally) - 1
  BY TallyFinite, FS_RemoveElement
<1>4. Cardinality(Passed(t)) <= Cardinality(Tally \ {t})
  BY <1>2, <1>3, FS_Subset
<1> QED BY <1>1, <1>3, <1>4

\* What passed one tally has passed every later one.
LEMMA PassedGrows ==
    ASSUME NEW s \in Tally, NEW t \in Tally,
           \A n \in 0 .. MaxLoginAttempts - 2 : t[n] <= s[n]
    PROVE  Cardinality(Passed(s)) <= Cardinality(Passed(t))
<1>1. ASSUME NEW u \in Tally, Before(u, s) PROVE Before(u, t)
  <2>1. PICK n \in 0 .. MaxLoginAttempts - 2 : u[n] > s[n] /\ \A m \in 0 .. n - 1 : u[m] >= s[m]
    BY <1>1 DEF Before
  <2>2. u[n] > t[n]
    BY <2>1, TallyType
  <2>3. ASSUME NEW m \in 0 .. n - 1 PROVE u[m] >= t[m]
    <3>1. m \in 0 .. MaxLoginAttempts - 2
      BY AccessAssumption
    <3> QED BY <2>1, <3>1, TallyType
  <2> QED BY <2>2, <2>3 DEF Before
<1>2. Passed(s) \subseteq Passed(t)
  BY <1>1 DEF Passed
<1> QED BY <1>2, PassedFinite, FS_Subset

LEMMA PassedGrowsStrictly ==
    ASSUME NEW s \in Tally, NEW t \in Tally, Before(s, t)
    PROVE  Cardinality(Passed(s)) + 1 <= Cardinality(Passed(t))
<1>0. PICK k \in 0 .. MaxLoginAttempts - 2 : s[k] > t[k] /\ \A m \in 0 .. k - 1 : s[m] >= t[m]
  BY DEF Before
<1>1. ASSUME NEW u \in Tally, Before(u, s) PROVE Before(u, t)
  <2>1. PICK n \in 0 .. MaxLoginAttempts - 2 : u[n] > s[n] /\ \A m \in 0 .. n - 1 : u[m] >= s[m]
    BY <1>1 DEF Before
  <2> DEFINE least == IF n <= k THEN n ELSE k
  <2>2. least \in 0 .. MaxLoginAttempts - 2
    OBVIOUS
  <2>3. u[least] > t[least]
    <3>1. u[least] >= s[least] /\ s[least] >= t[least] /\ (u[least] > s[least] \/ s[least] > t[least])
      BY <1>0, <2>1, <2>2, TallyType
    <3> HIDE DEF least
    <3> QED BY <2>2, <3>1, TallyType
  <2>4. ASSUME NEW m \in 0 .. least - 1 PROVE u[m] >= t[m]
    <3>1. m \in 0 .. MaxLoginAttempts - 2 /\ m \in 0 .. n - 1 /\ m \in 0 .. k - 1
      BY AccessAssumption
    <3>2. u[m] >= s[m] /\ s[m] >= t[m]
      BY <1>0, <2>1, <3>1
    <3> QED BY <3>1, <3>2, TallyType
  <2> HIDE DEF least
  <2> QED BY <2>2, <2>3, <2>4 DEF Before
<1>2. Passed(s) \cup {s} \subseteq Passed(t)
  BY <1>1 DEF Passed
<1>3. IsFiniteSet(Passed(s) \cup {s})
      /\ Cardinality(Passed(s) \cup {s}) = Cardinality(Passed(s)) + 1
  BY PassedFinite, NotPassedAll, FS_AddElement
<1>4. Cardinality(Passed(s) \cup {s}) <= Cardinality(Passed(t))
  BY <1>2, PassedFinite, FS_Subset
<1> QED BY <1>3, <1>4

CountsTyped ==
    \A a \in Accounts, r \in Requests :
        Count(a, r) \in Nat /\ req[r].seen \in Nat /\ user[a].failures \in Nat

LEMMA CountType == Typed => CountsTyped
<1> SUFFICES ASSUME Typed, NEW a \in Accounts, NEW r \in Requests
             PROVE  Count(a, r) \in Nat /\ req[r].seen \in Nat /\ user[a].failures \in Nat
  BY DEF CountsTyped
<1>1. req[r].seen \in Nat
  BY DEF Typed, TypeOK, RequestState
<1> QED BY <1>1, UserOnFile DEF Count

LEMMA CountTypeAfter == Typed' => CountsTyped'
BY CountType, PTL

LEMMA AtMostFinite ==
    ASSUME NEW a, NEW n
    PROVE  /\ IsFiniteSet(AtMost(a, n)) /\ Cardinality(AtMost(a, n)) \in 0 .. N
           /\ IsFiniteSet(AtMost(a, n)') /\ Cardinality(AtMost(a, n)') \in 0 .. N
<1>1. AtMost(a, n) \subseteq Requests /\ AtMost(a, n)' \subseteq Requests
  BY DEF AtMost
<1> QED BY <1>1, Countable DEF N

TalliesTyped == \A a \in Accounts : TallyOf(a) \in Tally

LEMMA TallyOfType == Typed => TalliesTyped
<1> SUFFICES ASSUME Typed, NEW a \in Accounts PROVE TallyOf(a) \in Tally
  BY DEF TalliesTyped
<1>1. TallyOf(a) \in [0 .. MaxLoginAttempts - 2 -> 0 .. N]
  BY AtMostFinite DEF TallyOf
<1>2. ASSUME NEW m \in 0 .. MaxLoginAttempts - 2, NEW n \in 0 .. MaxLoginAttempts - 2, m <= n
      PROVE  TallyOf(a)[m] <= TallyOf(a)[n]
  <2>1. AtMost(a, m) \subseteq AtMost(a, n)
    BY <1>2, CountType DEF AtMost, CountsTyped
  <2>2. Cardinality(AtMost(a, m)) <= Cardinality(AtMost(a, n))
    BY <2>1, AtMostFinite, FS_Subset
  <2> QED BY <2>2 DEF TallyOf
<1> QED BY <1>1, <1>2 DEF Tally, Tallies, N

LEMMA TallyOfTypeAfter == Typed' => TalliesTyped'
BY TallyOfType, PTL

\* Counts that only rise take the account to a later tally, if anywhere.
LEMMA CountsRise ==
    ASSUME Typed, Typed', NEW a \in Accounts,
           \A r \in Requests : Count(a, r) <= Count(a, r)'
    PROVE  Cardinality(Passed(TallyOf(a))) <= Cardinality(Passed(TallyOf(a)'))
<1>1. ASSUME NEW n \in 0 .. MaxLoginAttempts - 2 PROVE TallyOf(a)'[n] <= TallyOf(a)[n]
  <2>1. \A r \in Requests : Count(a, r) \in Nat /\ Count(a, r)' \in Nat
    BY CountType, CountTypeAfter DEF CountsTyped
  <2>2. AtMost(a, n)' \subseteq AtMost(a, n)
    BY <2>1 DEF AtMost
  <2>3. Cardinality(AtMost(a, n)') <= Cardinality(AtMost(a, n))
    BY <2>2, AtMostFinite, FS_Subset
  <2> QED BY <2>3 DEF TallyOf
<1>2. TallyOf(a) \in Tally /\ TallyOf(a)' \in Tally
  BY TallyOfType, TallyOfTypeAfter DEF TalliesTyped
<1> HIDE DEF TallyOf
<1> QED BY <1>1, <1>2, PassedGrows

\* What a step is to the guesses at an account that it neither opens again nor adds to.
Guessless(a) ==
    /\ user'[a].failures = user[a].failures /\ user'[a].locked = user[a].locked
    /\ guesses'[a] = guesses[a]
    /\ \A r \in Requests : At(r, "guess", a)' =>
          \/ At(r, "guess", a) /\ req'[r].seen = req[r].seen
          \/ ~user[a].locked /\ req'[r].seen = user[a].failures

OpenedAgain(a) == ~user'[a].locked /\ guesses'[a] = 0

LEMMA GuesslessCounted ==
    ASSUME Typed, Typed', GuessesCounted, NEW a \in Accounts, Guessless(a)
    PROVE  IF user'[a].locked
           THEN guesses'[a] + Cardinality(Guessing(a)') <= Cardinality(Tally) + N - 1
           ELSE guesses'[a] <= Cardinality(Passed(TallyOf(a)'))
<1>1. CASE user[a].locked
  <2>1. Guessing(a)' \subseteq Guessing(a) /\ Guessing(a) \subseteq Requests
    BY <1>1 DEF Guessless, Guessing
  <2>2. IsFiniteSet(Guessing(a)) /\ Cardinality(Guessing(a)) \in Nat
    BY <2>1, Countable
  <2>3. Cardinality(Guessing(a)') <= Cardinality(Guessing(a)) /\ Cardinality(Guessing(a)') \in Nat
    BY <2>1, <2>2, FS_Subset, FS_CardinalityType
  <2>4. guesses[a] + Cardinality(Guessing(a)) <= Cardinality(Tally) + N - 1
    BY <1>1 DEF GuessesCounted
  <2>5. guesses[a] \in Nat /\ guesses'[a] = guesses[a] /\ user'[a].locked
    BY <1>1 DEF Guessless, Typed, TypeOK
  <2> HIDE DEF Guessing
  <2> QED BY <2>2, <2>3, <2>4, <2>5, TallyFinite, RequestsFinite
<1>2. CASE ~user[a].locked
  <2>1. ASSUME NEW r \in Requests PROVE Count(a, r) <= Count(a, r)'
    <3>1. /\ req[r].seen \in Nat /\ req'[r].seen \in Nat /\ user[a].failures \in Nat
          /\ user'[a].failures = user[a].failures
      BY CountType, CountTypeAfter DEF CountsTyped, Guessless
    <3> QED BY <3>1 DEF Guessless, Count
  <2>2. Cardinality(Passed(TallyOf(a))) <= Cardinality(Passed(TallyOf(a)'))
    BY <2>1, CountsRise
  <2>3. guesses[a] <= Cardinality(Passed(TallyOf(a))) /\ guesses[a] \in Nat
        /\ guesses'[a] = guesses[a] /\ ~user'[a].locked
    BY <1>2 DEF GuessesCounted, Guessless, Typed, TypeOK
  <2>4. Cardinality(Passed(TallyOf(a))) \in Nat /\ Cardinality(Passed(TallyOf(a)')) \in Nat
    BY PassedFinite
  <2> HIDE DEF TallyOf, Passed
  <2> QED BY <2>2, <2>3, <2>4
<1> QED BY <1>1, <1>2

\* A wrong password that does not lock the account goes on to a later tally.
LEMMA FailureCounted ==
    ASSUME Typed, Typed', GuessesCounted, NEW r \in Requests, NEW a \in Accounts,
           RecordFailedLogin(r, a)
    PROVE  IF user'[a].locked
           THEN guesses'[a] + Cardinality(Guessing(a)') <= Cardinality(Tally) + N - 1
           ELSE guesses'[a] <= Cardinality(Passed(TallyOf(a)'))
<1> DEFINE nextCount == req[r].seen + 1
<1>1. /\ At(r, "guess", a) /\ req[r].seen \in Nat /\ user[a].failures \in Nat
      /\ guesses[a] \in Nat
  BY CountType DEF CountsTyped, RecordFailedLogin, Typed, TypeOK
<1>0. PICK least \in Nat :
         least = IF req[r].seen < user[a].failures THEN req[r].seen ELSE user[a].failures
  BY <1>1
<1>2. /\ user'[a].failures = nextCount /\ guesses'[a] = guesses[a] + 1
      /\ user'[a].locked <=> user[a].locked \/ nextCount >= MaxLoginAttempts
  <2>1. user[a] \in User /\ user \in [Accounts -> User] /\ guesses \in [Accounts -> Nat]
    BY DEF Typed, TypeOK
  <2> QED BY <2>1 DEF RecordFailedLogin, Locks, User
<1>3. \A p \in Requests : req'[p] = IF p = r THEN Idle ELSE req[p]
  BY DEF RecordFailedLogin, Finish, Typed, TypeOK
<1>4. /\ Guessing(a)' = Guessing(a) \ {r} /\ r \in Guessing(a)
      /\ IsFiniteSet(Guessing(a)) /\ Cardinality(Guessing(a)) \in 0 .. N
      /\ Cardinality(Guessing(a)') = Cardinality(Guessing(a)) - 1
  <2>1. Guessing(a)' = Guessing(a) \ {r} /\ r \in Guessing(a) /\ Guessing(a) \subseteq Requests
    BY <1>1, <1>3, IdleTyped DEF Guessing, At
  <2>2. IsFiniteSet(Guessing(a)) /\ Cardinality(Guessing(a)) \in Nat /\ Cardinality(Guessing(a)) <= N
    BY <2>1, Countable DEF N
  <2>3. Cardinality(Guessing(a) \ {r}) = Cardinality(Guessing(a)) - 1
    BY <2>1, <2>2, FS_RemoveElement
  <2> QED BY <2>1, <2>2, <2>3, RequestsFinite
<1>5. CASE user[a].locked
  <2>1. guesses[a] + Cardinality(Guessing(a)) <= Cardinality(Tally) + N - 1
    BY <1>5 DEF GuessesCounted
  <2> HIDE DEF Guessing
  <2> QED BY <1>1, <1>2, <1>4, <1>5, <2>1, TallyFinite, RequestsFinite
<1>6. CASE ~user[a].locked /\ nextCount >= MaxLoginAttempts
  <2>1. TallyOf(a) \in Tally /\ guesses[a] <= Cardinality(Passed(TallyOf(a)))
    BY <1>6, TallyOfType DEF GuessesCounted, TalliesTyped
  <2>2. guesses[a] <= Cardinality(Tally) - 1
    BY <1>1, <2>1, NotPassedAll, PassedFinite, TallyFinite
  <2> HIDE DEF Guessing
  <2> QED BY <1>1, <1>2, <1>4, <1>6, <2>2, TallyFinite, RequestsFinite
<1>7. CASE ~user[a].locked /\ nextCount < MaxLoginAttempts
  <2>1. least \in 0 .. MaxLoginAttempts - 2 /\ Count(a, r) = least
    BY <1>0, <1>1, <1>7, AccessAssumption DEF Count
  <2>2. ASSUME NEW p \in Requests
        PROVE  /\ Count(a, p) \in Nat /\ Count(a, p)' \in Nat
               /\ Count(a, p) < least => Count(a, p)' = Count(a, p)
               /\ Count(a, p) >= least => Count(a, p)' >= least
               /\ Count(a, p) > least => Count(a, p)' > least
               /\ p = r => Count(a, p)' > least
    <3>1. /\ Count(a, p) \in Nat /\ Count(a, p)' \in Nat /\ req[p].seen \in Nat
      BY CountType, CountTypeAfter DEF CountsTyped
    <3>2. Count(a, p)' = IF At(p, "guess", a)' /\ req'[p].seen < nextCount THEN req'[p].seen ELSE nextCount
      BY <1>2 DEF Count
    <3>3. p = r => ~At(p, "guess", a)'
      BY <1>3, IdleTyped DEF At
    <3>4. p # r => req'[p].seen = req[p].seen /\ (At(p, "guess", a)' <=> At(p, "guess", a))
      BY <1>3 DEF At
    <3> QED BY <1>0, <1>1, <3>1, <3>2, <3>3, <3>4 DEF Count
  <2>3. ASSUME NEW n \in 0 .. least - 1 PROVE TallyOf(a)'[n] = TallyOf(a)[n]
    <3>1. n \in 0 .. MaxLoginAttempts - 2
      BY <2>1, AccessAssumption
    <3>2. AtMost(a, n)' = AtMost(a, n)
      BY <2>2 DEF AtMost
    <3> QED BY <3>1, <3>2 DEF TallyOf
  <2>4. TallyOf(a)[least] > TallyOf(a)'[least]
    <3>1. /\ AtMost(a, least)' \subseteq AtMost(a, least) \ {r} /\ r \in AtMost(a, least)
      BY <2>1, <2>2 DEF AtMost
    <3>2. /\ IsFiniteSet(AtMost(a, least) \ {r})
          /\ Cardinality(AtMost(a, least) \ {r}) = Cardinality(AtMost(a, least)) - 1
      BY <3>1, AtMostFinite, FS_RemoveElement
    <3>3. Cardinality(AtMost(a, least)') <= Cardinality(AtMost(a, least)) - 1
      BY <3>1, <3>2, FS_Subset
    <3>4. TallyOf(a)[least] = Cardinality(AtMost(a, least))
          /\ TallyOf(a)'[least] = Cardinality(AtMost(a, least)')
      BY <2>1 DEF TallyOf
    <3>5. Cardinality(AtMost(a, least)) \in 0 .. N /\ Cardinality(AtMost(a, least)') \in 0 .. N
      BY AtMostFinite
    <3> HIDE DEF TallyOf
    <3> QED BY <3>3, <3>4, <3>5, RequestsFinite
  <2>5. TallyOf(a) \in Tally /\ TallyOf(a)' \in Tally
    BY TallyOfType, TallyOfTypeAfter DEF TalliesTyped
  <2>6. Before(TallyOf(a), TallyOf(a)')
    <3>1. ASSUME NEW n \in 0 .. least - 1 PROVE TallyOf(a)[n] >= TallyOf(a)'[n]
      <4>1. n \in 0 .. MaxLoginAttempts - 2
        BY <2>1, AccessAssumption
      <4> HIDE DEF TallyOf
      <4> QED BY <2>3, <2>5, <4>1, TallyType
    <3> HIDE DEF TallyOf
    <3> QED BY <2>1, <2>4, <3>1 DEF Before
  <2>7. Cardinality(Passed(TallyOf(a))) + 1 <= Cardinality(Passed(TallyOf(a)'))
    BY <2>5, <2>6, PassedGrowsStrictly
  <2>8. guesses[a] <= Cardinality(Passed(TallyOf(a)))
    BY <1>7 DEF GuessesCounted
  <2>9. Cardinality(Passed(TallyOf(a))) \in Nat /\ Cardinality(Passed(TallyOf(a)')) \in Nat
    BY PassedFinite
  <2> HIDE DEF TallyOf, Passed
  <2> QED BY <1>1, <1>2, <1>7, <2>7, <2>8, <2>9, AccessAssumption
<1> QED BY <1>1, <1>5, <1>6, <1>7, AccessAssumption

\* A request that moves on, without ending a guess, guesses at nothing it did not read now.
LEMMA MovesGuessless ==
    ASSUME Typed, NEW r \in Requests, NEW a \in Accounts, NEW q,
           req' = [req EXCEPT ![r] = q],
           q.stage = "guess" /\ a \in q.of => ~user[a].locked /\ q.seen = user[a].failures,
           user'[a].failures = user[a].failures, user'[a].locked = user[a].locked,
           guesses'[a] = guesses[a]
    PROVE  Guessless(a)
<1>1. \A p \in Requests : req'[p] = IF p = r THEN q ELSE req[p]
  BY DEF Typed, TypeOK
<1> QED BY <1>1 DEF Guessless, At

LEMMA IdleGuessless ==
    ASSUME Typed, NEW r \in Requests, NEW a \in Accounts, Finish(r),
           user'[a].failures = user[a].failures, user'[a].locked = user[a].locked,
           guesses'[a] = guesses[a]
    PROVE  Guessless(a)
BY IdleTyped, MovesGuessless DEF Finish

\* A step is a wrong password, opens the account again, or has nothing to do with guesses.
GuessStep(a) ==
    \/ Guessless(a) \/ OpenedAgain(a) \/ \E r \in Requests : RecordFailedLogin(r, a)

LEMMA ServeGuesses ==
    ASSUME Typed, NEW r \in Requests, NEW b \in Accounts, NEW a \in Accounts,
           \/ BeginRegister(r, b) \/ CommitRegister(r, b)
           \/ BeginInvite(r, b) \/ CommitInvite(r, b)
           \/ ResendVerification(r, b) \/ ForgotPassword(r, b) \/ SendLink(r, b)
           \/ VerifyEmail(r, b) \/ ResetPassword(r, b)
           \/ ReadForGuess(r, b) \/ RecordFailedLogin(r, b)
           \/ ReadForLogin(r, b) \/ CommitLogin(r, b)
           \/ \E to \in StatusInputs \cup {"deleted"} : ReadForAdmin(r, b, to)
           \/ SetStatus(r, b) \/ Remove(r, b)
    PROVE  GuessStep(a)
<1>1. user \in [Accounts -> User] /\ guesses \in [Accounts -> Nat] /\ user[a] \in User
  BY DEF Typed, TypeOK
<1>2. ASSUME NEW q, Begin(r, q), q.stage # "guess", Unchanged PROVE Guessless(a)
  BY <1>2, MovesGuessless DEF Begin, Unchanged
<1>3. ASSUME NEW kind, req' = [req EXCEPT ![r] = Mail(r, b, kind)],
             user'[a].failures = user[a].failures, user'[a].locked = user[a].locked,
             UNCHANGED guesses
      PROVE  Guessless(a)
  <2>1. Mail(r, b, kind).stage = "mail"
    BY DEF Mail, Idle
  <2> QED BY <1>3, <2>1, MovesGuessless
<1>4. CASE BeginRegister(r, b) \/ BeginInvite(r, b) \/ ReadForLogin(r, b)
           \/ \E to \in StatusInputs \cup {"deleted"} : ReadForAdmin(r, b, to)
  BY <1>2, <1>4 DEF BeginRegister, BeginInvite, ReadForLogin, ReadForAdmin, GuessStep, Idle
<1>5. CASE ResendVerification(r, b) \/ ForgotPassword(r, b)
  BY <1>3, <1>5 DEF ResendVerification, ForgotPassword, Begin, Unchanged, GuessStep
<1>6. CASE CommitRegister(r, b) \/ CommitInvite(r, b)
  <2>1. user'[a].failures = user[a].failures /\ user'[a].locked = user[a].locked /\ UNCHANGED guesses
    BY <1>1, <1>6 DEF CommitRegister, CommitInvite, Insert, User
  <2> QED BY <1>3, <1>6, <2>1 DEF CommitRegister, CommitInvite, GuessStep
<1>7. CASE SendLink(r, b) \/ VerifyEmail(r, b) \/ SetStatus(r, b) \/ Remove(r, b)
  <2>1. user'[a].failures = user[a].failures /\ user'[a].locked = user[a].locked
    <3>1. CASE SendLink(r, b)
      BY <3>1 DEF SendLink
    <3>2. CASE VerifyEmail(r, b)
      BY <1>1, <3>2 DEF VerifyEmail, User
    <3>3. CASE SetStatus(r, b)
      BY <1>1, <3>3 DEF SetStatus, User
    <3>4. CASE Remove(r, b)
      BY <1>1, <3>4 DEF Remove, User
    <3> QED BY <1>7, <3>1, <3>2, <3>3, <3>4
  <2>2. UNCHANGED guesses /\ Finish(r)
    BY <1>7 DEF SendLink, VerifyEmail, SetStatus, Remove
  <2> QED BY <2>1, <2>2, IdleGuessless DEF GuessStep
<1>8. CASE ResetPassword(r, b) \/ CommitLogin(r, b)
  <2>1. Reopened(b) /\ Finish(r)
    BY <1>8 DEF ResetPassword, CommitLogin
  <2>2. CASE a = b
    BY <1>1, <2>1, <2>2 DEF Reopened, OpenedAgain, GuessStep, User
  <2>3. CASE a # b
    <3>1. user'[a] = user[a] /\ guesses'[a] = guesses[a]
      BY <1>1, <2>1, <2>3 DEF Reopened
    <3> QED BY <2>1, <3>1, IdleGuessless DEF GuessStep
  <2> QED BY <2>2, <2>3
<1>9. CASE ReadForGuess(r, b)
  <2> DEFINE q == [Idle EXCEPT !.stage = "guess", !.of = {b}, !.seen = user[b].failures]
  <2>1. q.of = {b} /\ q.seen = user[b].failures
    BY DEF Idle
  <2>2. req' = [req EXCEPT ![r] = q] /\ ~user[b].locked /\ Unchanged
    BY <1>9 DEF ReadForGuess, Begin, Answerable
  <2> HIDE DEF q
  <2> QED BY <2>1, <2>2, MovesGuessless DEF Unchanged, GuessStep
<1>10. CASE RecordFailedLogin(r, b)
  <2>1. CASE a # b
    <3>1. user'[a] = user[a] /\ guesses'[a] = guesses[a] /\ Finish(r)
      BY <1>1, <1>10, <2>1 DEF RecordFailedLogin
    <3> QED BY <3>1, IdleGuessless DEF GuessStep
  <2> QED BY <1>10, <2>1 DEF GuessStep
<1> QED BY <1>4, <1>5, <1>6, <1>7, <1>8, <1>9, <1>10

LEMMA StepGuesses ==
    ASSUME Typed, [Next]_vars, NEW a \in Accounts
    PROVE  GuessStep(a)
<1>1. ASSUME NEW r \in Requests, NEW l \in DOMAIN links, OpenLink(r, l) PROVE GuessStep(a)
  <2> DEFINE q == [Idle EXCEPT !.stage = "open", !.of = {links[l].of}, !.link = l]
  <2>1. q.stage = "open"
    BY DEF Idle
  <2>2. req' = [req EXCEPT ![r] = q] /\ Unchanged
    BY <1>1 DEF OpenLink, Begin
  <2> HIDE DEF q
  <2> QED BY <2>1, <2>2, MovesGuessless DEF Unchanged, GuessStep
<1>2. ASSUME NEW r \in Requests, Abandon(r) PROVE GuessStep(a)
  BY <1>2, IdleGuessless DEF Abandon, Unchanged, GuessStep
<1>3. ASSUME NEW b \in Accounts, LockExpires(b) PROVE GuessStep(a)
  <2>1. /\ a = b => ~user'[a].locked /\ guesses'[a] = 0
        /\ a # b => user'[a] = user[a] /\ guesses'[a] = guesses[a]
        /\ UNCHANGED req
    BY <1>3 DEF LockExpires, Typed, TypeOK, User
  <2> QED BY <2>1 DEF GuessStep, OpenedAgain, Guessless, At
<1>4. ASSUME NEW l \in DOMAIN links, ExpireLink(l) PROVE GuessStep(a)
  BY <1>4 DEF ExpireLink, GuessStep, Guessless, At
<1>5. CASE UNCHANGED vars
  BY <1>5 DEF vars, GuessStep, Guessless, At
<1> QED BY <1>1, <1>2, <1>3, <1>4, <1>5, ServeGuesses DEF Next, Serve

LEMMA InitCounted == Init => GuessesCounted
<1> SUFFICES ASSUME Init, NEW a \in Accounts
             PROVE  ~user[a].locked /\ guesses[a] <= Cardinality(Passed(TallyOf(a)))
  BY DEF GuessesCounted
<1>1. ~user[a].locked /\ guesses[a] = 0
  BY DEF Init, NoUser
<1> QED BY <1>1, PassedFinite

LEMMA StepCounted ==
    ASSUME Typed, Typed', GuessesCounted, [Next]_vars
    PROVE  GuessesCounted'
<1> SUFFICES ASSUME NEW a \in Accounts
             PROVE  IF user'[a].locked
                    THEN guesses'[a] + Cardinality(Guessing(a)') <= Cardinality(Tally) + N - 1
                    ELSE guesses'[a] <= Cardinality(Passed(TallyOf(a)'))
  BY DEF GuessesCounted, N, Tally
<1>1. CASE Guessless(a)
  BY <1>1, GuesslessCounted
<1>2. CASE OpenedAgain(a)
  BY <1>2, PassedFinite DEF OpenedAgain
<1>3. CASE \E r \in Requests : RecordFailedLogin(r, a)
  BY <1>3, FailureCounted
<1> QED BY <1>1, <1>2, <1>3, StepGuesses DEF GuessStep

LEMMA CountedBounded == Typed /\ GuessesCounted => GuessesBounded
<1> SUFFICES ASSUME Typed, GuessesCounted, NEW a \in Accounts
             PROVE  guesses[a] <= Cardinality(Tally) + N - 1
  BY DEF GuessesBounded, N
<1>1. guesses[a] \in Nat /\ user[a].locked \in BOOLEAN
  BY UserOnFile DEF Typed, TypeOK
<1>2. CASE user[a].locked
  <2>1. Guessing(a) \subseteq Requests
    BY DEF Guessing
  <2>2. Cardinality(Guessing(a)) \in Nat
    BY <2>1, Countable
  <2>3. guesses[a] + Cardinality(Guessing(a)) <= Cardinality(Tally) + N - 1
    BY <1>2 DEF GuessesCounted
  <2> QED BY <1>1, <2>2, <2>3, TallyFinite, RequestsFinite
<1>3. CASE ~user[a].locked
  <2>1. TallyOf(a) \in Tally /\ guesses[a] <= Cardinality(Passed(TallyOf(a)))
    BY <1>3, TallyOfType DEF GuessesCounted, TalliesTyped
  <2>2. guesses[a] <= Cardinality(Tally) - 1
    BY <1>1, <2>1, NotPassedAll, PassedFinite, TallyFinite
  <2> QED BY <1>1, <2>2, TallyFinite, RequestsFinite
<1> QED BY <1>2, <1>3

\* However many requests guess at an account at one time, and whichever of their counts is
\* written last, the lock comes: validateCredentials lets no more wrong passwords through than
\* there are tallies, and one less than the requests that had read the row before.
THEOREM GuessingBounded == Spec => []GuessesBounded
<1>1. Init => Typed /\ GuessesCounted
  BY InitTyped, InitCounted
<1>2. Typed /\ GuessesCounted /\ [Next]_vars => (Typed /\ GuessesCounted)'
  BY StepTyped, StepCounted
<1> QED BY <1>1, <1>2, CountedBounded, PTL DEF Spec

-----------------------------------------------------------------------------
(* The permission map: how long it is wrong.                               *)

Keys == SUBSET Withdrawable

MapsTyped ==
    /\ withdrawn \in Keys
    /\ cache \in [missing : Keys, age : 0 .. Old, wrong : Nat]
    /\ load \subseteq [missing : Keys, age : 0 .. MaxQuery, wrong : Nat]

\* What a query found has been wrong for no longer than it has been on its way, and the map
\* in memory for no longer than its age and the query that brought it.  An expired map is
\* not asked, and nothing bounds how long it has been wrong.
Catching ==
    /\ \A found \in load : found.wrong <= found.age
    /\ ~Expired => cache.wrong <= cache.age + MaxQuery

LEMMA PortalNumbers == TTL \in Nat /\ MaxQuery \in Nat /\ Old \in Nat /\ TooLong \in Nat /\ Old = TTL + 1
BY PortalAssumption DEF Old, TooLong

LEMMA AgedTyped ==
    ASSUME NEW cap \in Nat, NEW map \in [missing : Keys, age : 0 .. cap, wrong : Nat]
    PROVE  LET next == Aged(map, cap)
           IN  /\ next \in [missing : Keys, age : 0 .. cap, wrong : Nat]
               /\ next.age = IF map.age < cap THEN map.age + 1 ELSE cap
               /\ next.wrong <= map.wrong + 1
<1> DEFINE w == IF map.missing = withdrawn THEN 0 ELSE Capped(map.wrong + 1, TooLong)
           a == Capped(map.age + 1, cap)
<1>1. w \in Nat /\ w <= map.wrong + 1
  BY PortalNumbers DEF Capped
<1>2. a \in 0 .. cap /\ a = IF map.age < cap THEN map.age + 1 ELSE cap
  BY DEF Capped
<1>3. Aged(map, cap) = [map EXCEPT !.age = a, !.wrong = w]
  BY DEF Aged
<1> HIDE DEF w, a
<1> QED BY <1>1, <1>2, <1>3

\* Asking for a new map, if no query is in flight.
LEMMA LoadingCatches ==
    ASSUME MapsTyped, Catching, Loading, UNCHANGED <<withdrawn, cache>>
    PROVE  MapsTyped' /\ Catching'
<1> DEFINE fresh == [missing |-> withdrawn, age |-> 0, wrong |-> 0]
<1>1. fresh \in [missing : Keys, age : 0 .. MaxQuery, wrong : Nat] /\ fresh.wrong <= fresh.age
  BY PortalNumbers DEF MapsTyped
<1>2. load' = load \/ load' = {fresh}
  BY DEF Loading
<1> HIDE DEF fresh
<1> QED BY <1>1, <1>2 DEF MapsTyped, Catching, Expired

LEMMA FinishLoadCatches ==
    ASSUME MapsTyped, Catching, FinishLoad
    PROVE  MapsTyped' /\ Catching'
<1>1. PICK found \in load : cache' = [found EXCEPT !.age = 0]
  BY DEF FinishLoad
<1>2. /\ found \in [missing : Keys, age : 0 .. MaxQuery, wrong : Nat] /\ found.wrong <= found.age
      /\ load' = {} /\ withdrawn' = withdrawn
  BY DEF FinishLoad, MapsTyped, Catching
<1>3. cache' \in [missing : Keys, age : 0 .. Old, wrong : Nat] /\ cache'.age = 0
      /\ cache'.wrong = found.wrong
  BY <1>1, <1>2, PortalNumbers
<1>4. cache'.wrong <= cache'.age + MaxQuery
  BY <1>2, <1>3, PortalNumbers
<1> QED BY <1>2, <1>3, <1>4 DEF MapsTyped, Catching

LEMMA LoadFailsCatches ==
    ASSUME MapsTyped, Catching, LoadFails
    PROVE  MapsTyped' /\ Catching'
BY DEF LoadFails, MapsTyped, Catching, Expired

LEMMA TickCatches ==
    ASSUME MapsTyped, Catching, Tick
    PROVE  MapsTyped' /\ Catching'
<1>1. /\ withdrawn' = withdrawn /\ cache' = Aged(cache, Old)
      /\ load' = {Aged(found, MaxQuery) : found \in load}
      /\ \A found \in load : found.age < MaxQuery
  BY DEF Tick
<1>2. /\ cache' \in [missing : Keys, age : 0 .. Old, wrong : Nat]
      /\ cache'.age = IF cache.age < Old THEN cache.age + 1 ELSE Old
      /\ cache'.wrong <= cache.wrong + 1
  BY <1>1, PortalNumbers, AgedTyped DEF MapsTyped
<1>3. \A found \in load :
         /\ Aged(found, MaxQuery) \in [missing : Keys, age : 0 .. MaxQuery, wrong : Nat]
         /\ Aged(found, MaxQuery).wrong <= Aged(found, MaxQuery).age
  <2>1. SUFFICES ASSUME NEW found \in load
                 PROVE  /\ Aged(found, MaxQuery) \in [missing : Keys, age : 0 .. MaxQuery, wrong : Nat]
                        /\ Aged(found, MaxQuery).wrong <= Aged(found, MaxQuery).age
    OBVIOUS
  <2>2. /\ found \in [missing : Keys, age : 0 .. MaxQuery, wrong : Nat]
        /\ found.wrong <= found.age /\ found.age < MaxQuery
    BY <1>1 DEF MapsTyped, Catching
  <2> QED BY <2>2, PortalNumbers, AgedTyped
<1>4. ~Expired' => cache'.wrong <= cache'.age + MaxQuery
  <2>1. SUFFICES ASSUME cache'.age <= TTL
                 PROVE  cache'.wrong <= cache'.age + MaxQuery
    BY <1>2, PortalNumbers DEF Expired
  <2>2. cache.age \in Nat /\ cache.wrong \in Nat
    BY PortalNumbers DEF MapsTyped
  <2>3. cache.age <= TTL /\ cache'.age = cache.age + 1
    BY <1>2, <2>1, <2>2, PortalNumbers
  <2>4. cache.wrong <= cache.age + MaxQuery
    BY <2>2, <2>3, PortalNumbers DEF Catching, Expired
  <2> QED BY <1>2, <2>2, <2>3, <2>4, PortalNumbers
<1> QED BY <1>1, <1>2, <1>3, <1>4 DEF MapsTyped, Catching

\* An invalidated map is expired, whatever it holds.
LEMMA SetRoleCatches ==
    ASSUME MapsTyped, Catching, NEW role \in Assigned, SetRole(role)
    PROVE  MapsTyped' /\ Catching'
<1>1. cache' = [cache EXCEPT !.age = Old] /\ UNCHANGED <<withdrawn, load>>
  BY DEF SetRole
<1>2. cache' \in [missing : Keys, age : 0 .. Old, wrong : Nat] /\ cache'.age = Old
  BY <1>1, PortalNumbers DEF MapsTyped
<1>3. Expired'
  BY <1>2, PortalNumbers DEF Expired
<1> QED BY <1>1, <1>2, <1>3 DEF MapsTyped, Catching

\* A change of role_permissions reaches no map that is in memory or on its way.
LEMMA RowsCatch ==
    ASSUME MapsTyped, Catching,
           SeedPermissions \/ \E permission \in Withdrawable : Withdraw(permission)
    PROVE  MapsTyped' /\ Catching'
BY DEF Withdraw, SeedPermissions, MapsTyped, Catching, Expired, Keys

\* The tab touches no map.
LEMMA TabCatches ==
    ASSUME MapsTyped, Catching, UNCHANGED <<withdrawn, cache, load>>
    PROVE  MapsTyped' /\ Catching'
BY DEF MapsTyped, Catching, Expired

LEMMA TabKeepsMaps ==
    ASSUME \/ \E path \in PathsOf(Pages) : OpenAddress(path)
           \/ \E item \in MenuItems : OpenMenu(item)
           \/ Redirect \/ Login \/ SignOut \/ SessionEnds
           \/ \E act \in PageAt[tab.path].acts : Act(act)
           \/ \E call \in calls : Authorise(call)
    PROVE  UNCHANGED <<withdrawn, cache, load>>
BY DEF OpenAddress, OpenMenu, Open, Redirect, Login, SignOut, SessionEnds, Act, Authorise

LEMMA StepCatches == MapsTyped /\ Catching /\ [PortalNext]_portalVars => (MapsTyped /\ Catching)'
<1> SUFFICES ASSUME MapsTyped, Catching, [PortalNext]_portalVars PROVE MapsTyped' /\ Catching'
  OBVIOUS
<1>1. CASE Reload
  BY <1>1, LoadingCatches DEF Reload
<1>2. ASSUME NEW call \in calls, Authenticate(call) PROVE MapsTyped' /\ Catching'
  <2>1. UNCHANGED <<withdrawn, cache>> /\ (Loading \/ UNCHANGED load)
    BY <1>2 DEF Authenticate
  <2> QED BY <2>1, LoadingCatches, TabCatches
<1>3. CASE UNCHANGED portalVars
  BY <1>3, TabCatches DEF portalVars
<1> QED BY <1>1, <1>2, <1>3, FinishLoadCatches, LoadFailsCatches, TickCatches, SetRoleCatches,
           RowsCatch, TabKeepsMaps, TabCatches DEF PortalNext

LEMMA InitCatches == PortalInit => MapsTyped /\ Catching
<1> SUFFICES ASSUME PortalInit PROVE MapsTyped /\ Catching
  OBVIOUS
<1> DEFINE map == [missing |-> {}, age |-> 0, wrong |-> 0]
<1>1. map \in [missing : Keys, age : 0 .. Old, wrong : Nat] /\ map.wrong = 0 /\ map.age = 0
  BY PortalNumbers DEF Keys
<1>2. cache = map /\ load = {} /\ withdrawn = {}
  BY DEF PortalInit
<1> HIDE DEF map
<1> QED BY <1>1, <1>2, PortalNumbers DEF MapsTyped, Catching, Keys

\* A role or a permission that is taken away is taken away at the guards after the time to
\* live of the map and one query at most (PermissionsService), whatever was invalidated
\* while a query was in flight, for any roles, keys, times and number of changes.
THEOREM WithdrawalsTakeEffect == PortalSpec => []PermissionsCatchUp
<1>1. MapsTyped /\ Catching => PermissionsCatchUp
  <2>1. SUFFICES ASSUME MapsTyped, Catching, ~Expired PROVE cache.wrong <= TTL + MaxQuery
    BY DEF PermissionsCatchUp
  <2>2. cache.age \in Nat /\ cache.wrong \in Nat /\ cache.age <= TTL
        /\ cache.wrong <= cache.age + MaxQuery
    BY <2>1, PortalNumbers DEF MapsTyped, Catching, Expired
  <2> QED BY <2>2, PortalNumbers
<1>2. (MapsTyped /\ Catching) /\ [][PortalNext]_portalVars => [](MapsTyped /\ Catching)
  BY StepCatches, PTL
<1> QED BY <1>1, <1>2, InitCatches, PTL DEF PortalSpec

-----------------------------------------------------------------------------
(* The tab: what it was led to is answered.                                *)

Callers == [role : Role, inAcademy : BOOLEAN]
TabUsers == [role : Role, missing : Keys]
Addresses == PathsOf(Pages)

IsCall(c) == c = [names |-> c.names, leads |-> c.leads, user |-> c.user, caller |-> c.caller]

\* The call of some page's act.
IsAct(names, leads) ==
    \E path \in Addresses : \E act \in PageAt[path].acts : names = {act.name} /\ leads = act.leads

\* The tab has one user at most, and was led only to what serves this user; what waits was
\* asked for this user, unless it is an act that leads elsewhere.
Guided ==
    /\ account \in Callers
    /\ tab.path \in Addresses /\ tab.redirect \in Addresses \union {""}
    /\ tab.user \in SUBSET TabUsers /\ \A u, v \in tab.user : u = v
    /\ tab.led => \A u \in tab.user : ServedTo(tab.path, u.role, u.missing)
    /\ \A c \in calls : IsCall(c)
    /\ \A c \in calls : c.caller \in SUBSET Callers
    /\ \A c \in calls : c.leads = "" => c.user = tab.user
    /\ \A c \in Steering : IsAct(c.names, c.leads)
    /\ refused \subseteq KnownRefusals

LEMMA KnownAddresses == "/" \in Addresses /\ "/login" \in Addresses
<1>1. LandingPage \in Pages /\ LandingPage.path = "/"
  BY DEF Pages, OpenPages, LandingPage, Page
<1>2. LoginPage \in Pages /\ LoginPage.path = "/login"
  BY DEF Pages, OpenPages, LoginPage, Page
<1> QED BY <1>1, <1>2 DEF Addresses, PathsOf

LEMMA HomeAddress == HomesServe => "/dashboard" \in Addresses
<1>1. "ACCOUNTANT" \in Role /\ {} \in SUBSET Withdrawable
  BY DEF Role
<1>2. RouteForRole("ACCOUNTANT") = "/dashboard"
  BY DEF RouteForRole
<1> QED BY <1>1, <1>2 DEF HomesServe, ServedTo, Addresses

LEMMA InitGuided == PortalInit => Guided
<1> SUFFICES ASSUME PortalInit PROVE Guided
  OBVIOUS
<1>1. account \in Callers
  BY PortalAssumption DEF PortalInit, Callers
<1>2. tab = [user |-> {}, path |-> "/", redirect |-> "", led |-> FALSE] /\ calls = {} /\ refused = {}
  BY DEF PortalInit
<1> QED BY <1>1, <1>2, KnownAddresses DEF Guided, Steering

\* Whatever opens a page keeps at most the acts that lead elsewhere, and asks for the new page.
LEMMA GoGuides ==
    ASSUME Guided, account' = account, NEW path \in Addresses, NEW led \in BOOLEAN,
           NEW us \in SUBSET TabUsers, \A u, v \in us : u = v,
           NEW redirect \in Addresses \union {""}, NEW kept \in SUBSET Steering,
           led => \A u \in us : ServedTo(path, u.role, u.missing),
           Go(path, led, us, redirect, kept)
    PROVE  Guided'
<1>1. /\ tab' = [user |-> us, path |-> path, redirect |-> redirect, led |-> led]
      /\ refused' = {}
  BY DEF Go
<1>2. \A c \in calls' : c \in kept \/ \E names : c = Call(names, "", us)
  BY DEF Go
<1>3. \A names : LET c == Call(names, "", us)
                 IN  IsCall(c) /\ c.caller = {} /\ c.leads = "" /\ c.user = us
  BY DEF Call, IsCall
<1>4. \A c \in kept : c \in calls /\ c \in Steering /\ c.leads # ""
  BY DEF Steering
<1>5. \A c \in calls' : IsCall(c) /\ c.caller \in SUBSET Callers /\ (c.leads = "" => c.user = us)
  <2>1. \A c \in kept : IsCall(c) /\ c.caller \in SUBSET Callers /\ c.leads # ""
    BY <1>4 DEF Guided
  <2>2. \A c \in calls' : c \in kept \/ (IsCall(c) /\ c.caller = {} /\ c.leads = "" /\ c.user = us)
    BY <1>2, <1>3, Zenon
  <2>3. \A c \in calls' : c.caller = {} => c.caller \in SUBSET Callers
    OBVIOUS
  <2> QED BY <2>1, <2>2, <2>3
<1>6. \A c \in Steering' : c \in Steering
  BY <1>2, <1>3, <1>4 DEF Steering
<1>7. /\ account' \in Callers
      /\ \A c \in Steering' : IsAct(c.names, c.leads)
  BY <1>6 DEF Guided
<1> QED BY <1>1, <1>5, <1>7 DEF Guided

LEMMA SteeringIsKept == Steering \in SUBSET Steering /\ {} \in SUBSET Steering
OBVIOUS

LEMMA OpenAddressGuides ==
    ASSUME Guided, NEW path \in Addresses, OpenAddress(path)
    PROVE  Guided'
<1>1. Go(path, FALSE, tab.user, "", Steering) /\ account' = account
  BY DEF OpenAddress, Open
<1>2. tab.user \in SUBSET TabUsers /\ \A u, v \in tab.user : u = v
  BY DEF Guided
<1> QED BY <1>1, <1>2, SteeringIsKept, GoGuides

LEMMA OpenMenuGuides ==
    ASSUME Guided, MenuServes, NEW item \in MenuItems, OpenMenu(item)
    PROVE  Guided'
<1>1. Go(item.path, TRUE, tab.user, "", Steering) /\ account' = account
  BY DEF OpenMenu, Open
<1>2. PICK u \in tab.user : Visible(item, u)
  BY DEF OpenMenu
<1>3. tab.user \in SUBSET TabUsers /\ \A v, w \in tab.user : v = w
  BY DEF Guided
<1>4. u.role \in Role /\ u.missing \in SUBSET Withdrawable /\ u = [role |-> u.role, missing |-> u.missing]
  BY <1>3 DEF TabUsers, Keys
<1>5. ServedTo(item.path, u.role, u.missing)
  BY <1>2, <1>4 DEF MenuServes
<1>6. item.path \in Addresses /\ \A v \in tab.user : ServedTo(item.path, v.role, v.missing)
  BY <1>3, <1>5 DEF ServedTo, Addresses
<1> QED BY <1>1, <1>3, <1>6, SteeringIsKept, GoGuides

LEMMA RedirectGuides ==
    ASSUME Guided, HomesServe, Redirect
    PROVE  Guided'
<1>1. account' = account
  BY DEF Redirect
<1>2. tab.user \in SUBSET TabUsers /\ (\A u, v \in tab.user : u = v) /\ tab.path \in Addresses
  BY DEF Guided
<1>3. CASE tab.user = {}
  <2>1. Go("/login", FALSE, {}, tab.path, Steering)
    BY <1>3 DEF Redirect
  <2> QED BY <1>1, <1>2, <2>1, KnownAddresses, SteeringIsKept, GoGuides
<1>4. CASE tab.user # {}
  <2>1. Go("/dashboard", FALSE, tab.user, "", Steering)
    BY <1>4 DEF Redirect
  <2> QED BY <1>1, <1>2, <2>1, HomeAddress, SteeringIsKept, GoGuides
<1> QED BY <1>3, <1>4

LEMMA LoginGuides ==
    ASSUME Guided, MapsTyped, HomesServe, Login
    PROVE  Guided'
<1> DEFINE u == [role |-> account.role, missing |-> cache.missing]
<1>1. u \in TabUsers /\ account.role \in Role /\ cache.missing \in SUBSET Withdrawable
  BY DEF Guided, MapsTyped, Callers, TabUsers, Keys
<1>2. ServedTo(RouteForRole(account.role), account.role, cache.missing)
  BY <1>1 DEF HomesServe
<1>3. /\ {u} \in SUBSET TabUsers /\ \A v, w \in {u} : v = w
      /\ \A v \in {u} : v.role = account.role /\ v.missing = cache.missing
  BY <1>1
<1>4. account' = account
  BY DEF Login
<1>5. CASE tab.redirect = ""
  <2>1. Go(RouteForRole(account.role), TRUE, {u}, "", Steering)
    BY <1>5 DEF Login
  <2>2. RouteForRole(account.role) \in Addresses
    BY <1>2 DEF ServedTo, Addresses
  <2>3. \A v \in {u} : ServedTo(RouteForRole(account.role), v.role, v.missing)
    BY <1>2, <1>3
  <2> HIDE DEF u
  <2> QED BY <1>3, <1>4, <2>1, <2>2, <2>3, SteeringIsKept, GoGuides
<1>6. CASE tab.redirect # ""
  <2>1. Go(tab.redirect, FALSE, {u}, "", Steering)
    BY <1>6 DEF Login
  <2>2. tab.redirect \in Addresses
    BY <1>6 DEF Guided
  <2> HIDE DEF u
  <2> QED BY <1>3, <1>4, <2>1, <2>2, SteeringIsKept, GoGuides
<1> QED BY <1>5, <1>6

LEMMA SignOutGuides ==
    ASSUME Guided, SignOut
    PROVE  Guided'
<1>1. PICK redirect \in {"", tab.path} : Go("/login", FALSE, {}, redirect, Steering)
  BY DEF SignOut
<1>2. account' = account /\ redirect \in Addresses \union {""}
  BY <1>1 DEF SignOut, Guided
<1> QED BY <1>1, <1>2, KnownAddresses, SteeringIsKept, GoGuides

LEMMA SessionEndsGuides ==
    ASSUME Guided, SessionEnds
    PROVE  Guided'
<1>1. tab' = [tab EXCEPT !.user = {}] /\ calls' = Steering /\ UNCHANGED <<account, refused>>
  BY DEF SessionEnds
<1>2. tab'.path = tab.path /\ tab'.redirect = tab.redirect /\ tab'.led = tab.led
      /\ \A u \in tab'.user : u \in {}
  BY <1>1
<1> QED BY <1>1, <1>2 DEF Guided, Steering

LEMMA ActGuides ==
    ASSUME Guided, NEW act \in PageAt[tab.path].acts, Act(act)
    PROVE  Guided'
<1> DEFINE asked == Call({act.name}, act.leads, tab.user)
<1>1. calls' = calls \union {asked} /\ UNCHANGED <<account, tab, refused>>
  BY DEF Act
<1>2. /\ IsCall(asked)
      /\ asked.caller = {} /\ asked.leads = act.leads /\ asked.user = tab.user
      /\ asked.names = {act.name}
  BY DEF Call, IsCall
<1>3. IsAct(asked.names, asked.leads)
  BY <1>2 DEF IsAct, Guided
<1> HIDE DEF asked
<1>4. \A c \in Steering' : c \in Steering \/ c = asked
  BY <1>1 DEF Steering
<1>5. \A c \in Steering' : IsAct(c.names, c.leads)
  BY <1>3, <1>4 DEF Guided
<1> QED BY <1>1, <1>2, <1>5 DEF Guided

\* A caller who is let through is a role and an academy, whatever else the row holds.
LEMMA CallerIs ==
    ASSUME NEW caller \in Callers
    PROVE  /\ caller.role \in Role /\ caller.inAcademy \in BOOLEAN
           /\ caller = [role |-> caller.role, inAcademy |-> caller.inAcademy]
BY DEF Callers

\* What is refused on a page the tab was led to is a known refusal.
LEMMA RefusalsKnown ==
    ASSUME Guided, ActsServe, NEW call \in calls, NEW caller \in Callers,
           Expected(call, caller), NEW name \in call.names,
           ~Admits(name, caller, Held(caller.role, cache.missing))
    PROVE  [path |-> tab.path, name |-> name] \in KnownRefusals
<1> DEFINE u == [role |-> caller.role, missing |-> cache.missing]
<1>1. call.names = PageAt[tab.path].reads /\ tab.led /\ call.user = {u}
      /\ (caller.inAcademy \/ tab.path \in PlatformPaths)
  BY DEF Expected, Known
<1>2. call.leads = ""
  <2>1. SUFFICES ASSUME call \in Steering PROVE FALSE
    BY DEF Steering
  <2>2. PICK path \in Addresses : \E act \in PageAt[path].acts :
           call.names = {act.name} /\ call.leads = act.leads
    BY <2>1 DEF Guided, IsAct
  <2>3. PICK act \in PageAt[path].acts : call.names = {act.name} /\ call.leads = act.leads
    BY <2>2
  <2>4. act.leads # "" /\ tab.path \in Addresses
    BY <2>1, <2>3 DEF Steering, Guided
  <2>5. PageAt[tab.path].reads # {act.name}
    BY <2>2, <2>3, <2>4 DEF ActsServe, Addresses
  <2> QED BY <1>1, <2>3, <2>5
<1>3. u \in tab.user /\ u.role = caller.role /\ u.missing = cache.missing
  BY <1>1, <1>2 DEF Guided
<1>4. ServedTo(tab.path, caller.role, cache.missing)
  <2> HIDE DEF u
  <2> QED BY <1>1, <1>3 DEF Guided
<1>5. name \in PageAt[tab.path].reads
  BY <1>1
<1> QED BY <1>1, <1>4, <1>5, CallerIs DEF ServedTo

LEMMA DecideGuides ==
    ASSUME Guided, MapsTyped, ActsServe, NEW call \in calls, NEW caller \in Callers,
           Decide(call, caller), account' = account
    PROVE  Guided'
<1> DEFINE u == [role |-> caller.role, missing |-> cache.missing]
<1>1. CASE Denied(call, caller) = {} /\ call.leads # ""
  <2> DEFINE led == call.user = tab.user /\ Known(call, caller)
  <2>1. Go(call.leads, led, tab.user, "", {})
    BY <1>1 DEF Decide
  <2>2. call \in Steering
    BY <1>1 DEF Steering
  <2>3. PICK path \in Addresses : \E act \in PageAt[path].acts :
           call.names = {act.name} /\ call.leads = act.leads
    BY <2>2 DEF Guided, IsAct
  <2>4. PICK act \in PageAt[path].acts : call.names = {act.name} /\ call.leads = act.leads
    BY <2>3
  <2>5. Admits(act.name, caller, Held(caller.role, cache.missing))
    BY <1>1, <2>4 DEF Denied
  <2>6. caller.role \in Role /\ caller.inAcademy \in BOOLEAN /\ cache.missing \in SUBSET Withdrawable
        /\ caller = [role |-> caller.role, inAcademy |-> caller.inAcademy]
    BY CallerIs DEF MapsTyped, Keys
  <2>7. act.leads # "" /\ path \in PathsOf(Pages)
    BY <1>1, <2>4 DEF Addresses
  <2>8. Admits(act.name, [role |-> caller.role, inAcademy |-> caller.inAcademy],
               Held(caller.role, cache.missing))
    BY <2>5, <2>6
  <2>9. ServedTo(act.leads, caller.role, cache.missing)
    <3> HIDE DEF u, led
    <3> QED BY <2>4, <2>6, <2>7, <2>8 DEF ActsServe
  <2>10. call.leads \in Addresses
    BY <2>4, <2>9 DEF ServedTo, Addresses
  <2>11. led => \A v \in tab.user : ServedTo(call.leads, v.role, v.missing)
    <3>1. SUFFICES ASSUME led, NEW v \in tab.user PROVE ServedTo(call.leads, v.role, v.missing)
      OBVIOUS
    <3>2. v = u /\ u.role = caller.role /\ u.missing = cache.missing
      BY <3>1 DEF Known
    <3> QED BY <2>4, <2>9, <3>2
  <2>12. tab.user \in SUBSET TabUsers /\ (\A v, w \in tab.user : v = w) /\ led \in BOOLEAN
    BY DEF Guided, Known
  <2> HIDE DEF led, u
  <2> QED BY <2>1, <2>10, <2>11, <2>12, SteeringIsKept, GoGuides
<1>2. CASE ~(Denied(call, caller) = {} /\ call.leads # "")
  <2>1. /\ calls' = calls \ {call} /\ tab' = tab
        /\ refused' = IF Expected(call, caller)
                      THEN {[path |-> tab.path, name |-> name] : name \in Denied(call, caller)}
                      ELSE refused
    BY <1>2 DEF Decide
  <2>2. Expected(call, caller) =>
           \A name \in Denied(call, caller) : [path |-> tab.path, name |-> name] \in KnownRefusals
    BY RefusalsKnown DEF Denied
  <2>3. refused' \subseteq KnownRefusals
    BY <2>1, <2>2 DEF Guided
  <2> HIDE DEF u
  <2> QED BY <2>1, <2>3 DEF Guided, Steering
<1> QED BY <1>1, <1>2

LEMMA CallGuides ==
    ASSUME Guided, MapsTyped, ActsServe, NEW call \in calls, Authenticate(call) \/ Authorise(call)
    PROVE  Guided'
<1>1. account' = account /\ account \in Callers
  BY DEF Authenticate, Authorise, Guided
<1>2. CASE Authorise(call)
  <2>1. PICK caller \in call.caller : Decide(call, caller)
    BY <1>2 DEF Authorise
  <2>2. caller \in Callers
    BY DEF Guided
  <2> QED BY <1>1, <2>1, <2>2, DecideGuides
<1>3. CASE Authenticate(call) /\ ~Expired
  BY <1>1, <1>3, DecideGuides DEF Authenticate
<1>4. CASE Authenticate(call) /\ Expired
  <2> DEFINE woken == [call EXCEPT !.caller = {account}]
  <2>1. calls' = (calls \ {call}) \union {woken} /\ UNCHANGED <<tab, refused>>
    BY <1>4 DEF Authenticate
  <2>2. /\ IsCall(woken)
        /\ woken.names = call.names /\ woken.leads = call.leads /\ woken.user = call.user
        /\ woken.caller = {account}
    <3>1. IsCall(call)
      BY DEF Guided
    <3> QED BY <3>1 DEF IsCall
  <2> HIDE DEF woken
  <2>3. \A c \in calls' : IsCall(c) /\ c.caller \in SUBSET Callers /\ (c.leads = "" => c.user = tab.user)
    BY <1>1, <2>1, <2>2 DEF Guided
  <2>4. \A c \in Steering' : \E old \in Steering : c.names = old.names /\ c.leads = old.leads
    BY <2>1, <2>2 DEF Steering
  <2>5. \A c \in Steering' : IsAct(c.names, c.leads)
    BY <2>4 DEF Guided
  <2> QED BY <1>1, <2>1, <2>3, <2>5 DEF Guided
<1> QED BY <1>2, <1>3, <1>4

\* The rest does not touch what the tab shows.
LEMMA BackendGuides ==
    ASSUME Guided, UNCHANGED <<tab, refused>>, account' \in Callers, calls' \subseteq calls
    PROVE  Guided'
BY DEF Guided, Steering

LEMMA StepGuides ==
    ASSUME TablesServe
    PROVE  Guided /\ MapsTyped /\ [PortalNext]_portalVars => Guided'
<1> SUFFICES ASSUME Guided, MapsTyped, [PortalNext]_portalVars PROVE Guided'
  OBVIOUS
<1>1. MenuServes /\ HomesServe /\ ActsServe
  BY DEF TablesServe
<1>2. account \in Callers
  BY DEF Guided
<1>3. CASE Reload \/ FinishLoad \/ LoadFails \/ Tick
  BY <1>2, <1>3, BackendGuides DEF Reload, FinishLoad, LoadFails, Tick
<1>4. ASSUME NEW role \in Assigned, SetRole(role) PROVE Guided'
  <2>1. account' = [account EXCEPT !.role = role] /\ UNCHANGED <<tab, refused, calls>>
    BY <1>4 DEF SetRole
  <2>2. account' \in Callers
    BY <1>2, <2>1, PortalAssumption DEF Callers
  <2> QED BY <2>1, <2>2, BackendGuides
<1>5. CASE SeedPermissions \/ \E permission \in Withdrawable : Withdraw(permission)
  BY <1>2, <1>5, BackendGuides DEF SeedPermissions, Withdraw
<1>6. CASE UNCHANGED portalVars
  BY <1>2, <1>6, BackendGuides DEF portalVars
<1> QED BY <1>1, <1>3, <1>4, <1>5, <1>6, OpenAddressGuides, OpenMenuGuides, RedirectGuides,
           LoginGuides, SignOutGuides, SessionEndsGuides, ActGuides, CallGuides
        DEF PortalNext, Addresses

\* If the tables of pages, routes and menu entries agree (TablesServe, which TLC evaluates),
\* no interleaving of role changes, withdrawn keys, late answers, acts and logins leads a
\* user to a page that is refused (AuthGuard, the sidebar, and the guards of the backend),
\* for any roles, times and number of changes.
THEOREM NobodyLedAstray ==
    ASSUME TablesServe
    PROVE  PortalSpec => []ArrivalsAreServed
<1>1. PortalInit => MapsTyped /\ Catching /\ Guided
  BY InitCatches, InitGuided
<1>2. MapsTyped /\ Catching /\ Guided /\ [PortalNext]_portalVars => (MapsTyped /\ Catching /\ Guided)'
  BY StepCatches, StepGuides
<1>3. Guided => ArrivalsAreServed
  BY DEF Guided, ArrivalsAreServed
<1> QED BY <1>1, <1>2, <1>3, PTL DEF PortalSpec
=============================================================================

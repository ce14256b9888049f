--------------------------- MODULE RefreshTokens ---------------------------
(***************************************************************************)
(* The refresh tokens and sessions of one user: TokensService and          *)
(* SessionsService (modules/auth/services), the AuthService handlers that  *)
(* call them, and UsersService.revokeMySession.                            *)
(*                                                                         *)
(* Nothing here touches two users' rows at once, so one user is enough.    *)
(* A handler reads its row, awaits, and writes later: each await between a *)
(* read and a write, or between two writes, separates two actions.         *)
(***************************************************************************)
EXTENDS Integers, Sequences

CONSTANTS
    Requests,       \* the HTTP requests the server works on at one time
    MaxTokens,      \* bound: rows of refresh_tokens
    MaxSessions,    \* bound: rows of sessions
    MaxPasswords    \* bound: how often the password is changed

ASSUME TokenAssumption ==
    /\ MaxTokens \in Nat
    /\ MaxSessions \in Nat
    /\ MaxPasswords \in Nat

VARIABLES
    tokens,     \* the refresh_tokens rows of the user, in the order they were issued
    sessions,   \* the sessions rows: whether each is revoked
    password,   \* the version of users.passwordHash
    req,        \* the requests in progress
    detected,   \* history: families revoked because a token of theirs came back
    secured     \* history: the last password whose change has revoked every token

vars == <<tokens, sessions, password, req, detected, secured>>

\* `family' is familyId and `next' is replacedBy, 0 for null.  `sid' is the sid claim of
\* the access token handed out with the row: a session, or 0 for an id that names none.
\* `login' and `pwd' are history: the session and password its family began with.
TokenRow == [family : Nat, revoked : BOOLEAN, next : Nat, expired : BOOLEAN,
             sid : Nat, login : Nat, pwd : Nat]

Stages == {"idle", "login", "rotate", "reuse", "logout", "newPassword", "logoutAll"}

RequestState == [stage : Stages, token : Nat, session : Nat, pwd : Nat]

Idle == [stage |-> "idle", token |-> 0, session |-> 0, pwd |-> 0]

Init ==
    /\ tokens = <<>>
    /\ sessions = <<>>
    /\ password = 0
    /\ req = [r \in Requests |-> Idle]
    /\ detected = {}
    /\ secured = 0

Store == <<tokens, sessions, password, detected, secured>>

Begin(r, fields) == req[r].stage = "idle" /\ req' = [req EXCEPT ![r] = fields]
Advance(r, stage) == req' = [req EXCEPT ![r].stage = stage]
Finish(r) == req' = [req EXCEPT ![r] = Idle]

Revoke(rows) ==
    tokens' = [k \in DOMAIN tokens |->
                 IF k \in rows THEN [tokens[k] EXCEPT !.revoked = TRUE] ELSE tokens[k]]

Family(f) == {k \in DOMAIN tokens : tokens[k].family = f}

-----------------------------------------------------------------------------
(* Logging in: the password is checked, a session row is created, and then *)
(* the first token of a new family, whose access token names the session.  *)

Login(r) ==
    /\ Len(sessions) < MaxSessions
    /\ sessions' = Append(sessions, FALSE)
    /\ Begin(r, [Idle EXCEPT !.stage = "login", !.session = Len(sessions) + 1,
                             !.pwd = password])
    /\ UNCHANGED <<tokens, password, detected, secured>>

Issue(r) ==
    /\ req[r].stage = "login"
    /\ Len(tokens) < MaxTokens
    /\ tokens' = Append(tokens,
           [family |-> Len(tokens) + 1, revoked |-> FALSE, next |-> 0, expired |-> FALSE,
            sid |-> req[r].session, login |-> req[r].session, pwd |-> req[r].pwd])
    /\ Finish(r)
    /\ UNCHANGED <<sessions, password, detected, secured>>

-----------------------------------------------------------------------------
(* Refreshing.  A client may present any token it was ever given: another  *)
(* tab holds the old one, or the answer with the new one was lost.         *)

FreshUnlessExpired(row) == ~row.expired
Fresh(row) == ~row.expired /\ ~row.revoked /\ row.next = 0
Spent(row) == ~row.expired /\ (row.revoked \/ row.next # 0)

PresentFresh(r, k) ==
    /\ Fresh(tokens[k])
    /\ Begin(r, [Idle EXCEPT !.stage = "rotate", !.token = k])
    /\ UNCHANGED Store

PresentSpent(r, k) ==
    /\ Spent(tokens[k])
    /\ Begin(r, [Idle EXCEPT !.stage = "reuse", !.token = k])
    /\ UNCHANGED Store

\* The transaction inserts the new row and updates the old one whatever it says by now.
\* The new access token carries the family id where a session id belongs.
RotatedUnrevoked(row, next) == [row EXCEPT !.next = next]
RotatedToFamily(row, next) == [row EXCEPT !.revoked = TRUE, !.next = row.family]
Rotated(row, next) == [row EXCEPT !.revoked = TRUE, !.next = next]
SuccessorSidFamily(row) ==
    [row EXCEPT !.revoked = FALSE, !.next = 0, !.expired = FALSE, !.sid = row.family]
Successor(row) ==
    [row EXCEPT !.revoked = FALSE, !.next = 0, !.expired = FALSE, !.sid = 0]

CommitRotation(r) ==
    LET k == req[r].token
        next == Len(tokens) + 1
    IN
    /\ req[r].stage = "rotate"
    /\ Len(tokens) < MaxTokens
    /\ tokens' = Append([tokens EXCEPT ![k] = Rotated(@, next)], Successor(tokens[k]))
    /\ Finish(r)
    /\ UNCHANGED <<sessions, password, detected, secured>>

PresentedOnly(k) == {k}
Relatives(k) == Family(tokens[k].family)

RevokeFamily(r) ==
    LET k == req[r].token IN
    /\ req[r].stage = "reuse"
    /\ Revoke(Relatives(k))
    /\ detected' = detected \cup {tokens[k].family}
    /\ Finish(r)
    /\ UNCHANGED <<sessions, password, secured>>

-----------------------------------------------------------------------------
(* Logging out.                                                            *)

\* The client sends the pair it holds, or the access token alone: revokeByRawToken first,
\* then the session the access token names.
Logout(r, k) ==
    /\ \E sent \in {{}, {k}} : Revoke(sent)
    /\ Begin(r, [Idle EXCEPT !.stage = "logout", !.token = k, !.session = tokens[k].sid])
    /\ UNCHANGED <<sessions, password, detected, secured>>

\* An id that names no session is a 404 here: the request ends in Abandon.
EndSession(r) ==
    /\ req[r].stage = "logout"
    /\ req[r].session # 0
    /\ sessions' = [sessions EXCEPT ![req[r].session] = TRUE]
    /\ Finish(r)
    /\ UNCHANGED <<tokens, password, detected, secured>>

\* changePassword, and resetPassword once its link is accepted: the new hash, and then
\* logoutAllDevices.
ChangePassword(r) ==
    /\ password < MaxPasswords
    /\ password' = password + 1
    /\ Begin(r, [Idle EXCEPT !.stage = "newPassword", !.pwd = password + 1])
    /\ UNCHANGED <<tokens, sessions, detected, secured>>

\* logoutAllDevices: every token, then every session.
TokensOfSessions == {k \in DOMAIN tokens : tokens[k].sid # 0}
EveryToken == DOMAIN tokens

LogoutAll(r) ==
    /\ Revoke(EveryToken)
    /\ Begin(r, [Idle EXCEPT !.stage = "logoutAll"])
    /\ UNCHANGED <<sessions, password, detected, secured>>

RevokeForPassword(r) ==
    /\ req[r].stage = "newPassword"
    /\ Revoke(EveryToken)
    /\ secured' = IF req[r].pwd > secured THEN req[r].pwd ELSE secured
    /\ Advance(r, "logoutAll")
    /\ UNCHANGED <<sessions, password, detected>>

EndSessions(r) ==
    /\ req[r].stage = "logoutAll"
    /\ sessions' = [s \in DOMAIN sessions |-> TRUE]
    /\ Finish(r)
    /\ UNCHANGED <<tokens, password, detected, secured>>

\* revokeMySession, from the list of sessions: the session row and no token.
RevokeMySession(s) ==
    /\ sessions' = [sessions EXCEPT ![s] = TRUE]
    /\ UNCHANGED <<tokens, password, req, detected, secured>>

TokenExpires(k) ==
    /\ ~tokens[k].expired
    /\ tokens' = [tokens EXCEPT ![k].expired = TRUE]
    /\ UNCHANGED <<sessions, password, req, detected, secured>>

\* An exception, or the process dies between two awaits: nothing more is written.
Abandon(r) ==
    /\ req[r].stage # "idle"
    /\ Finish(r)
    /\ UNCHANGED Store

Serve(r) ==
    \/ Login(r) \/ Issue(r)
    \/ \E k \in DOMAIN tokens : PresentFresh(r, k) \/ PresentSpent(r, k) \/ Logout(r, k)
    \/ CommitRotation(r) \/ RevokeFamily(r)
    \/ EndSession(r)
    \/ ChangePassword(r) \/ LogoutAll(r) \/ RevokeForPassword(r) \/ EndSessions(r)
    \/ Abandon(r)

Next ==
    \/ \E r \in Requests : Serve(r)
    \/ \E s \in DOMAIN sessions : RevokeMySession(s)
    \/ \E k \in DOMAIN tokens : TokenExpires(k)

Spec == Init /\ [][Next]_vars

-----------------------------------------------------------------------------
TypeOK ==
    /\ tokens \in Seq(TokenRow)
    /\ sessions \in Seq(BOOLEAN)
    /\ \A k \in DOMAIN tokens : tokens[k].sid \in 0 .. Len(sessions)
    /\ password \in Nat
    /\ req \in [Requests -> RequestState]
    /\ detected \subseteq DOMAIN tokens
    /\ secured \in Nat

Live(k) == ~tokens[k].revoked

(* What holds however requests interleave.                                 *)

\* Following replacedBy from a token leads to a later token of the same family, and only
\* from a token that no longer works: no chain loops or crosses into another login.
ChainsRunForward ==
    \A k \in DOMAIN tokens : LET t == tokens[k] IN
        t.next # 0 =>
            /\ t.revoked
            /\ t.next \in k + 1 .. Len(tokens)
            /\ tokens[t.next].family = t.family
            /\ tokens[t.next].login = t.login

\* Once every token of a family is revoked and no refresh of it is under way, the family
\* stays dead: no later request starts a refresh of it, let alone gets a token (the checks
\* at the top of rotate).
Ended(f) ==
    /\ \A k \in Family(f) : ~Live(k)
    /\ \A r \in Requests : req[r].stage = "rotate" => req[r].token \notin Family(f)

DeadFamiliesStayDead ==
    [][\A k \in DOMAIN tokens : Ended(tokens[k].family) => Ended(tokens[k].family)']_vars

(* What holds when the server works on one request at a time.              *)

\* Rotation replaces a token: a family never has two that work.
OneLiveTokenPerFamily ==
    \A j, k \in DOMAIN tokens :
        Live(j) /\ Live(k) /\ tokens[j].family = tokens[k].family => j = k

\* A token that comes back after its rotation ends the login for good.
\* tokens.service.ts:45: `treated as reuse: the entire family is revoked and the user is
\* forced to log in again'.
ReuseEndsFamily == \A k \in DOMAIN tokens : tokens[k].family \in detected => ~Live(k)

\* Once a change of password has logged every device out, whoever still has a token that
\* works has logged in with that password or a later one.
OldPasswordLockedOut == \A k \in DOMAIN tokens : Live(k) => tokens[k].pwd >= secured

-----------------------------------------------------------------------------
(* The chain each family is meant to be.                                   *)

\* The token of each family that works, and the tokens it ever had.
LiveToken == [f \in 1 .. MaxTokens |->
    IF \E k \in Family(f) : Live(k) THEN CHOOSE k \in Family(f) : Live(k) ELSE 0]
EverIssued == [f \in 1 .. MaxTokens |-> Family(f)]

Chain == INSTANCE TokenChain WITH
    Chains <- 1 .. MaxTokens, holder <- LiveToken, used <- EverIssued

\* Served one at a time, the requests hand each login on from token to token.
IsTokenChain == Chain!Spec
=============================================================================

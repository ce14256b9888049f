---------------------------- MODULE TokenProofs -----------------------------
(***************************************************************************)
(* What RefreshTokens guarantees for any number of overlapping requests:   *)
(* its types, that replacement chains run forward within one login, and    *)
(* that a login that has ended is never taken up again; and, when they are *)
(* served one at a time, that each login is a TokenChain.  What            *)
(* ClientRefresh guarantees for any number of tabs and requests: its       *)
(* types, that a client presents a spent token only after a mishap, and    *)
(* that the server it talks to keeps the promise of TokenChain.            *)
(***************************************************************************)
EXTENDS RefreshTokens, ClientRefresh, SequenceTheorems, TLAPS

-----------------------------------------------------------------------------
(* Types.                                                                  *)

\* A request past its first step names a token or a session on file, and every token names
\* a family that a token on file began.
OnFile ==
    /\ \A r \in Requests :
          /\ req[r].stage \in {"rotate", "reuse"} => req[r].token \in DOMAIN tokens
          /\ req[r].stage = "login" => req[r].session \in DOMAIN sessions
          /\ req[r].stage = "logout" => req[r].session \in 0 .. Len(sessions)
    /\ \A k \in DOMAIN tokens : tokens[k].family \in DOMAIN tokens

Typed == TypeOK /\ OnFile

\* What every step does to the tokens: rows are only added, keep where they came from, and
\* once revoked stay so.
Kept(old, new) ==
    /\ new.family = old.family /\ new.login = old.login
    /\ new.sid = old.sid /\ new.pwd = old.pwd
    /\ old.revoked => new.revoked

RowsKept ==
    /\ tokens' \in Seq(TokenRow)
    /\ Len(tokens') >= Len(tokens)
    /\ \A k \in DOMAIN tokens : Kept(tokens[k], tokens'[k])

LEMMA IdleTyped == Idle \in RequestState /\ Idle.stage = "idle"
BY DEF Idle, RequestState, Stages

LEMMA RevokeRows ==
    ASSUME TypeOK, NEW rows, Revoke(rows)
    PROVE  /\ RowsKept /\ DOMAIN tokens' = DOMAIN tokens /\ Len(tokens') = Len(tokens)
           /\ \A k \in DOMAIN tokens :
                 tokens'[k] = IF k \in rows THEN [tokens[k] EXCEPT !.revoked = TRUE]
                              ELSE tokens[k]
<1> DEFINE row(k) == IF k \in rows THEN [tokens[k] EXCEPT !.revoked = TRUE] ELSE tokens[k]
<1>1. tokens \in Seq(TokenRow) /\ DOMAIN tokens = 1 .. Len(tokens) /\ Len(tokens) \in Nat
  BY DEF TypeOK
<1>2. tokens' = [k \in DOMAIN tokens |-> row(k)]
  BY DEF Revoke
<1>3. \A k \in DOMAIN tokens : tokens[k] \in TokenRow
  BY <1>1
<1>4. \A k \in DOMAIN tokens : row(k) \in TokenRow /\ Kept(tokens[k], row(k))
  BY <1>3 DEF TokenRow, Kept
<1> HIDE DEF row
<1>5. tokens' \in [1 .. Len(tokens) -> TokenRow]
  BY <1>1, <1>2, <1>4
<1>6. tokens' \in Seq(TokenRow) /\ Len(tokens') = Len(tokens)
  BY <1>1, <1>5, SeqDef
<1> QED BY <1>1, <1>2, <1>4, <1>6 DEF RowsKept, row

\* Adding a row to rows that keep where they came from.
LEMMA AppendRows ==
    ASSUME TypeOK, NEW mid \in Seq(TokenRow), NEW new \in TokenRow,
           Len(mid) = Len(tokens), \A j \in DOMAIN tokens : Kept(tokens[j], mid[j]),
           tokens' = Append(mid, new)
    PROVE  /\ RowsKept /\ Len(tokens') = Len(tokens) + 1
           /\ DOMAIN tokens = 1 .. Len(tokens) /\ DOMAIN tokens' = 1 .. Len(tokens) + 1
           /\ tokens'[Len(tokens) + 1] = new
           /\ \A j \in DOMAIN tokens : tokens'[j] = mid[j]
<1>1. tokens \in Seq(TokenRow) /\ DOMAIN tokens = 1 .. Len(tokens) /\ Len(tokens) \in Nat
  BY DEF TypeOK
<1>2. /\ tokens' \in Seq(TokenRow) /\ Len(tokens') = Len(tokens) + 1
      /\ tokens'[Len(tokens) + 1] = new
      /\ \A j \in DOMAIN tokens : tokens'[j] = mid[j]
  BY <1>1, AppendProperties
<1>3. DOMAIN tokens' = 1 .. Len(tokens) + 1
  BY <1>2
<1> QED BY <1>1, <1>2, <1>3 DEF RowsKept

LEMMA ReplaceRow ==
    ASSUME TypeOK, NEW k \in DOMAIN tokens, NEW old \in TokenRow, Kept(tokens[k], old)
    PROVE  /\ [tokens EXCEPT ![k] = old] \in Seq(TokenRow)
           /\ Len([tokens EXCEPT ![k] = old]) = Len(tokens)
           /\ \A j \in DOMAIN tokens :
                 /\ [tokens EXCEPT ![k] = old][j] = IF j = k THEN old ELSE tokens[j]
                 /\ Kept(tokens[j], [tokens EXCEPT ![k] = old][j])
<1>1. tokens \in Seq(TokenRow)
  BY DEF TypeOK
<1> QED BY <1>1 DEF Kept

\* The rotation, row by row.
LEMMA RotationRows ==
    ASSUME Typed, NEW r \in Requests, CommitRotation(r)
    PROVE  LET k == req[r].token
               n == Len(tokens) + 1
           IN  /\ k \in DOMAIN tokens
               /\ RowsKept /\ Len(tokens') = n
               /\ DOMAIN tokens = 1 .. Len(tokens) /\ DOMAIN tokens' = 1 .. n
               /\ tokens'[n] = Successor(tokens[k])
               /\ tokens'[k] = Rotated(tokens[k], n)
               /\ \A j \in DOMAIN tokens : j # k => tokens'[j] = tokens[j]
<1> DEFINE k == req[r].token
           n == Len(tokens) + 1
           old == Rotated(tokens[k], n)
           new == Successor(tokens[k])
           mid == [tokens EXCEPT ![k] = old]
<1>1. k \in DOMAIN tokens /\ tokens[k] \in TokenRow /\ n \in Nat
  BY DEF CommitRotation, Typed, OnFile, TypeOK
<1>2. /\ old \in TokenRow /\ Kept(tokens[k], old)
      /\ new \in TokenRow
  BY <1>1 DEF Rotated, Successor, TokenRow, Kept
<1>3. tokens' = Append(mid, new)
  BY DEF CommitRotation
<1> HIDE DEF k, n, old, new
<1>4. /\ mid \in Seq(TokenRow) /\ Len(mid) = Len(tokens)
      /\ \A j \in DOMAIN tokens : mid[j] = (IF j = k THEN old ELSE tokens[j])
                                /\ Kept(tokens[j], mid[j])
  BY <1>1, <1>2, ReplaceRow DEF Typed
<1> HIDE DEF mid
<1>5. /\ RowsKept /\ Len(tokens') = Len(tokens) + 1
      /\ DOMAIN tokens = 1 .. Len(tokens) /\ DOMAIN tokens' = 1 .. Len(tokens) + 1
      /\ tokens'[Len(tokens) + 1] = new
      /\ \A j \in DOMAIN tokens : tokens'[j] = mid[j]
  BY <1>2, <1>3, <1>4, AppendRows DEF Typed
<1> QED BY <1>1, <1>4, <1>5 DEF k, n, old, new

\* The token's time passes: only `expired' changes.
LEMMA ExpiryRows ==
    ASSUME Typed, NEW k \in DOMAIN tokens, TokenExpires(k)
    PROVE  /\ RowsKept /\ DOMAIN tokens' = DOMAIN tokens /\ Len(tokens') = Len(tokens)
           /\ \A j \in DOMAIN tokens :
                 /\ tokens'[j].next = tokens[j].next
                 /\ tokens'[j].revoked = tokens[j].revoked
<1> DEFINE old == [tokens[k] EXCEPT !.expired = TRUE]
<1>1. tokens[k] \in TokenRow /\ tokens \in Seq(TokenRow) /\ Len(tokens) \in Nat
  BY DEF Typed, TypeOK
<1>2. /\ old \in TokenRow /\ Kept(tokens[k], old)
      /\ old.next = tokens[k].next /\ old.revoked = tokens[k].revoked
  BY <1>1 DEF TokenRow, Kept
<1>3. tokens' = [tokens EXCEPT ![k] = old]
  BY DEF TokenExpires
<1> HIDE DEF old
<1>4. /\ tokens' \in Seq(TokenRow) /\ Len(tokens') = Len(tokens)
      /\ \A j \in DOMAIN tokens : /\ tokens'[j] = IF j = k THEN old ELSE tokens[j]
                                  /\ Kept(tokens[j], tokens'[j])
  BY <1>2, <1>3, ReplaceRow DEF Typed
<1>5. DOMAIN tokens' = DOMAIN tokens
  BY <1>1, <1>4
<1> QED BY <1>1, <1>2, <1>4, <1>5 DEF RowsKept

LEMMA IssueRows ==
    ASSUME Typed, NEW r \in Requests, Issue(r)
    PROVE  LET n == Len(tokens) + 1
           IN  /\ RowsKept /\ Len(tokens') = n
               /\ DOMAIN tokens = 1 .. Len(tokens) /\ DOMAIN tokens' = 1 .. n
               /\ tokens'[n].family = n /\ tokens'[n].next = 0 /\ ~tokens'[n].revoked
               /\ tokens'[n].sid \in DOMAIN sessions /\ tokens'[n].pwd = req[r].pwd
               /\ \A j \in DOMAIN tokens : tokens'[j] = tokens[j]
<1> DEFINE n == Len(tokens) + 1
           new == [family |-> Len(tokens) + 1, revoked |-> FALSE, next |-> 0,
                   expired |-> FALSE, sid |-> req[r].session, login |-> req[r].session,
                   pwd |-> req[r].pwd]
<1>1. /\ req[r] \in RequestState /\ req[r].session \in DOMAIN sessions
      /\ tokens \in Seq(TokenRow) /\ n \in Nat
  BY DEF Issue, Typed, OnFile, TypeOK
<1>2. /\ new \in TokenRow /\ new.family = n /\ new.next = 0 /\ ~new.revoked
      /\ new.sid \in DOMAIN sessions /\ new.pwd = req[r].pwd
  BY <1>1 DEF RequestState, TokenRow
<1>3. tokens' = Append(tokens, new)
  BY DEF Issue
<1>4. \A j \in DOMAIN tokens : Kept(tokens[j], tokens[j])
  BY DEF Kept
<1> HIDE DEF new
<1>5. /\ RowsKept /\ Len(tokens') = Len(tokens) + 1
      /\ DOMAIN tokens = 1 .. Len(tokens) /\ DOMAIN tokens' = 1 .. Len(tokens) + 1
      /\ tokens'[Len(tokens) + 1] = new
      /\ \A j \in DOMAIN tokens : tokens'[j] = tokens[j]
  BY <1>1, <1>2, <1>3, <1>4, AppendRows DEF Typed
<1> QED BY <1>2, <1>5

\* A step keeps the types when it keeps the rows, adds rows on file, and moves one request
\* to fields on file.
Files(fields) ==
    /\ fields \in RequestState
    /\ fields.stage \in {"rotate", "reuse"} => fields.token \in DOMAIN tokens
    /\ fields.stage = "login" => fields.session \in DOMAIN sessions'
    /\ fields.stage = "logout" => fields.session \in 0 .. Len(sessions)

LEMMA TypedStep ==
    ASSUME Typed, RowsKept,
           sessions' \in Seq(BOOLEAN), Len(sessions') >= Len(sessions),
           \A k \in DOMAIN tokens' : k \notin DOMAIN tokens =>
               tokens'[k].sid \in 0 .. Len(sessions) /\ tokens'[k].family \in DOMAIN tokens',
           password' \in Nat, secured' \in Nat, detected' \subseteq DOMAIN tokens,
           NEW r, NEW fields, Files(fields),
           UNCHANGED req \/ req' = [req EXCEPT ![r] = fields]
    PROVE  Typed'
<1>1. /\ DOMAIN tokens = 1 .. Len(tokens) /\ DOMAIN tokens' = 1 .. Len(tokens')
      /\ Len(tokens) \in Nat /\ Len(tokens') \in Nat
      /\ DOMAIN sessions = 1 .. Len(sessions) /\ DOMAIN sessions' = 1 .. Len(sessions')
      /\ Len(sessions) \in Nat /\ Len(sessions') \in Nat
  BY DEF Typed, TypeOK, RowsKept
<1>2. DOMAIN tokens \subseteq DOMAIN tokens' /\ DOMAIN sessions \subseteq DOMAIN sessions'
  BY <1>1 DEF RowsKept
<1>3. \A k \in DOMAIN tokens' :
         tokens'[k].sid \in 0 .. Len(sessions') /\ tokens'[k].family \in DOMAIN tokens'
  <2> TAKE k \in DOMAIN tokens'
  <2>1. CASE k \in DOMAIN tokens
    <3>1. tokens'[k].sid = tokens[k].sid /\ tokens'[k].family = tokens[k].family
      BY <2>1 DEF RowsKept, Kept
    <3>2. tokens[k].sid \in 0 .. Len(sessions) /\ tokens[k].family \in DOMAIN tokens
      BY <2>1 DEF Typed, TypeOK, OnFile
    <3> QED BY <3>1, <3>2, <1>1, <1>2
  <2>2. CASE k \notin DOMAIN tokens
    BY <2>2, <1>1
  <2> QED BY <2>1, <2>2
<1>4. req' \in [Requests -> RequestState]
  BY DEF Files, Typed, TypeOK
<1>5. ASSUME NEW s \in Requests
      PROVE  /\ req'[s].stage \in {"rotate", "reuse"} => req'[s].token \in DOMAIN tokens'
             /\ req'[s].stage = "login" => req'[s].session \in DOMAIN sessions'
             /\ req'[s].stage = "logout" => req'[s].session \in 0 .. Len(sessions')
  <2>1. req'[s] = req[s] \/ req'[s] = fields
    BY DEF Typed, TypeOK
  <2>2. 0 .. Len(sessions) \subseteq 0 .. Len(sessions')
    BY <1>1
  <2> QED BY <2>1, <2>2, <1>2 DEF Files, Typed, OnFile
<1>6. TypeOK'
  BY <1>2, <1>3, <1>4 DEF TypeOK, RowsKept
<1> QED BY <1>3, <1>5, <1>6 DEF Typed, OnFile

LEMMA RowsUnchanged == ASSUME Typed, UNCHANGED tokens PROVE RowsKept
BY DEF Typed, TypeOK, RowsKept, Kept

LEMMA InitTyped == Init => Typed
<1> SUFFICES ASSUME Init PROVE Typed
  OBVIOUS
<1>1. tokens \in Seq(TokenRow) /\ sessions \in Seq(BOOLEAN) /\ DOMAIN tokens = {}
  BY DEF Init
<1>2. req \in [Requests -> RequestState]
  BY IdleTyped DEF Init
<1>3. password \in Nat /\ secured \in Nat /\ detected = {}
  BY DEF Init
<1> QED BY <1>1, <1>2, <1>3, IdleTyped DEF Init, Typed, TypeOK, OnFile

LEMMA IdleFiles == Files(Idle)
BY IdleTyped DEF Files

\* The common case: no row is added and no session removed.
LEMMA SameRowsTyped ==
    ASSUME Typed, RowsKept, DOMAIN tokens' = DOMAIN tokens,
           sessions' \in Seq(BOOLEAN), Len(sessions') = Len(sessions),
           password' \in Nat, secured' \in Nat, detected' \subseteq DOMAIN tokens,
           NEW r, NEW fields, Files(fields),
           UNCHANGED req \/ req' = [req EXCEPT ![r] = fields]
    PROVE  Typed'
<1>1. Len(sessions) \in Nat
  BY DEF Typed, TypeOK
<1> QED BY <1>1, TypedStep

LEMMA ServeTyped == ASSUME Typed, NEW r \in Requests, Serve(r) PROVE Typed'
<1> USE DEF Store
<1>0. /\ password \in Nat /\ secured \in Nat /\ detected \subseteq DOMAIN tokens
      /\ sessions \in Seq(BOOLEAN) /\ Len(sessions) \in Nat
      /\ DOMAIN sessions = 1 .. Len(sessions) /\ DOMAIN tokens \subseteq Nat
      /\ req[r] \in RequestState
  BY DEF Typed, TypeOK
<1>1. CASE Login(r)
  <2> DEFINE fields == [Idle EXCEPT !.stage = "login", !.session = Len(sessions) + 1,
                                    !.pwd = password]
  <2>1. /\ sessions' \in Seq(BOOLEAN) /\ Len(sessions') = Len(sessions) + 1
        /\ DOMAIN sessions' = 1 .. Len(sessions) + 1 /\ Len(sessions') >= Len(sessions)
    BY <1>0, <1>1 DEF Login
  <2>2. Files(fields)
    <3>1. /\ fields \in RequestState /\ fields.stage = "login"
          /\ fields.session = Len(sessions) + 1
      <4>1. Len(sessions) + 1 \in Nat
        BY <1>0
      <4> QED BY <1>0, <4>1, IdleTyped DEF RequestState, Stages
    <3> HIDE DEF fields
    <3> QED BY <1>0, <2>1, <3>1 DEF Files
  <2>3. req' = [req EXCEPT ![r] = fields] /\ UNCHANGED <<tokens, password, detected, secured>>
    BY <1>1 DEF Login, Begin
  <2> HIDE DEF fields
  <2> QED BY <1>0, <2>1, <2>2, <2>3, RowsUnchanged, TypedStep
<1>2. CASE Issue(r)
  <2>1. /\ RowsKept
        /\ \A k \in DOMAIN tokens' : k \notin DOMAIN tokens =>
               tokens'[k].sid \in 0 .. Len(sessions) /\ tokens'[k].family \in DOMAIN tokens'
    BY <1>0, <1>2, IssueRows
  <2>2. req' = [req EXCEPT ![r] = Idle] /\ UNCHANGED <<sessions, password, detected, secured>>
    BY <1>2 DEF Issue, Finish
  <2>3. /\ sessions' \in Seq(BOOLEAN) /\ Len(sessions') >= Len(sessions)
        /\ password' \in Nat /\ secured' \in Nat /\ detected' \subseteq DOMAIN tokens
    BY <1>0, <2>2
  <2> QED BY <2>1, <2>2, <2>3, IdleFiles, TypedStep
<1>3. ASSUME NEW k \in DOMAIN tokens, NEW stage \in {"rotate", "reuse"},
             Begin(r, [Idle EXCEPT !.stage = stage, !.token = k]), UNCHANGED Store
      PROVE  Typed'
  <2> DEFINE fields == [Idle EXCEPT !.stage = stage, !.token = k]
  <2>1. Files(fields)
    <3>1. fields \in RequestState /\ fields.stage = stage /\ fields.token = k
      BY <1>0, IdleTyped DEF RequestState, Stages
    <3> HIDE DEF fields
    <3> QED BY <1>3, <3>1 DEF Files
  <2>2. req' = [req EXCEPT ![r] = fields]
    BY <1>3 DEF Begin
  <2> HIDE DEF fields
  <2> QED BY <1>0, <1>3, <2>1, <2>2, RowsUnchanged, SameRowsTyped
<1>4. ASSUME NEW k \in DOMAIN tokens, Logout(r, k) PROVE Typed'
  <2> DEFINE fields == [Idle EXCEPT !.stage = "logout", !.token = k, !.session = tokens[k].sid]
  <2>1. PICK sent \in {{}, {k}} : Revoke(sent)
    BY <1>4 DEF Logout
  <2>2. RowsKept /\ DOMAIN tokens' = DOMAIN tokens
    BY <2>1, RevokeRows DEF Typed
  <2>3. tokens[k].sid \in Nat /\ tokens[k].sid \in 0 .. Len(sessions)
    BY DEF Typed, TypeOK
  <2>4. Files(fields)
    <3>1. /\ fields \in RequestState /\ fields.stage = "logout"
          /\ fields.session = tokens[k].sid
      BY <1>0, <2>3, IdleTyped DEF RequestState, Stages
    <3> HIDE DEF fields
    <3> QED BY <2>3, <3>1 DEF Files
  <2>5. req' = [req EXCEPT ![r] = fields] /\ UNCHANGED <<sessions, password, detected, secured>>
    BY <1>4 DEF Logout, Begin
  <2> HIDE DEF fields
  <2> QED BY <1>0, <2>2, <2>4, <2>5, SameRowsTyped
<1>5. CASE CommitRotation(r)
  <2> DEFINE k == req[r].token
  <2>1. /\ k \in DOMAIN tokens /\ RowsKept /\ Len(tokens') = Len(tokens) + 1
        /\ DOMAIN tokens = 1 .. Len(tokens) /\ DOMAIN tokens' = 1 .. Len(tokens) + 1
        /\ tokens'[Len(tokens) + 1] = Successor(tokens[k])
    BY <1>5, RotationRows
  <2>2. Successor(tokens[k]).sid = 0 /\ Successor(tokens[k]).family = tokens[k].family
    BY <2>1 DEF Successor, Typed, TypeOK, TokenRow
  <2>3. tokens[k].family \in DOMAIN tokens /\ Len(tokens) \in Nat
    BY <2>1 DEF Typed, TypeOK, OnFile
  <2>4. req' = [req EXCEPT ![r] = Idle] /\ UNCHANGED <<sessions, password, detected, secured>>
    BY <1>5 DEF CommitRotation, Finish
  <2> HIDE DEF k
  <2>5. \A j \in DOMAIN tokens' : j \notin DOMAIN tokens =>
           tokens'[j].sid \in 0 .. Len(sessions) /\ tokens'[j].family \in DOMAIN tokens'
    BY <1>0, <2>1, <2>2, <2>3
  <2>6. /\ sessions' \in Seq(BOOLEAN) /\ Len(sessions') >= Len(sessions)
        /\ password' \in Nat /\ secured' \in Nat /\ detected' \subseteq DOMAIN tokens
    BY <1>0, <2>4
  <2> QED BY <2>1, <2>4, <2>5, <2>6, IdleFiles, TypedStep
<1>6. CASE RevokeFamily(r)
  <2> DEFINE k == req[r].token
  <2>1. k \in DOMAIN tokens /\ tokens[k].family \in DOMAIN tokens
    BY <1>6 DEF RevokeFamily, Typed, OnFile
  <2>2. RowsKept /\ DOMAIN tokens' = DOMAIN tokens
    BY <1>6, RevokeRows DEF RevokeFamily, Typed
  <2>3. /\ req' = [req EXCEPT ![r] = Idle] /\ UNCHANGED <<sessions, password, secured>>
        /\ detected' = detected \cup {tokens[k].family}
    BY <1>6 DEF RevokeFamily, Finish
  <2> QED BY <1>0, <2>1, <2>2, <2>3, IdleFiles, SameRowsTyped
<1>7. CASE EndSession(r)
  <2> DEFINE s == req[r].session
  <2>1. s \in DOMAIN sessions
    BY <1>0, <1>7 DEF EndSession, Typed, OnFile
  <2>2. sessions' = [sessions EXCEPT ![s] = TRUE]
    BY <1>7 DEF EndSession
  <2> HIDE DEF s
  <2>3. sessions' \in Seq(BOOLEAN) /\ Len(sessions') = Len(sessions)
    BY <1>0, <2>1, <2>2
  <2>4. req' = [req EXCEPT ![r] = Idle] /\ UNCHANGED <<tokens, password, detected, secured>>
    BY <1>7 DEF EndSession, Finish
  <2> QED BY <1>0, <2>3, <2>4, IdleFiles, RowsUnchanged, SameRowsTyped
<1>8. CASE ChangePassword(r)
  <2> DEFINE fields == [Idle EXCEPT !.stage = "newPassword", !.pwd = password + 1]
  <2>1. Files(fields)
    <3>1. fields \in RequestState /\ fields.stage = "newPassword"
      <4>1. password + 1 \in Nat
        BY <1>0
      <4> QED BY <4>1, IdleTyped DEF RequestState, Stages
    <3> HIDE DEF fields
    <3> QED BY <3>1 DEF Files
  <2>2. /\ req' = [req EXCEPT ![r] = fields] /\ UNCHANGED <<tokens, sessions, detected, secured>>
        /\ password' \in Nat
    BY <1>0, <1>8 DEF ChangePassword, Begin
  <2> HIDE DEF fields
  <2> QED BY <1>0, <2>1, <2>2, RowsUnchanged, SameRowsTyped
<1>9. CASE LogoutAll(r)
  <2> DEFINE fields == [Idle EXCEPT !.stage = "logoutAll"]
  <2>1. Files(fields)
    <3>1. fields \in RequestState /\ fields.stage = "logoutAll"
      BY IdleTyped DEF RequestState, Stages
    <3> HIDE DEF fields
    <3> QED BY <3>1 DEF Files
  <2>2. RowsKept /\ DOMAIN tokens' = DOMAIN tokens
    BY <1>9, RevokeRows DEF LogoutAll, Typed
  <2>3. req' = [req EXCEPT ![r] = fields] /\ UNCHANGED <<sessions, password, detected, secured>>
    BY <1>9 DEF LogoutAll, Begin
  <2> HIDE DEF fields
  <2> QED BY <1>0, <2>1, <2>2, <2>3, SameRowsTyped
<1>10. CASE RevokeForPassword(r)
  <2> DEFINE fields == [req[r] EXCEPT !.stage = "logoutAll"]
  <2>1. Files(fields)
    <3>1. fields \in RequestState /\ fields.stage = "logoutAll"
      BY <1>0 DEF RequestState, Stages
    <3> HIDE DEF fields
    <3> QED BY <3>1 DEF Files
  <2>2. RowsKept /\ DOMAIN tokens' = DOMAIN tokens
    BY <1>10, RevokeRows DEF RevokeForPassword, Typed
  <2>3. req' = [req EXCEPT ![r] = fields] /\ UNCHANGED <<sessions, password, detected>>
    BY <1>10 DEF RevokeForPassword, Advance
  <2>4. secured' \in Nat
    BY <1>0, <1>10 DEF RevokeForPassword, RequestState
  <2> HIDE DEF fields
  <2> QED BY <1>0, <2>1, <2>2, <2>3, <2>4, SameRowsTyped
<1>11. CASE EndSessions(r)
  <2>1. sessions' \in [1 .. Len(sessions) -> BOOLEAN]
    BY <1>0, <1>11 DEF EndSessions
  <2>2. sessions' \in Seq(BOOLEAN) /\ Len(sessions') = Len(sessions)
    BY <1>0, <2>1, SeqDef
  <2>3. req' = [req EXCEPT ![r] = Idle] /\ UNCHANGED <<tokens, password, detected, secured>>
    BY <1>11 DEF EndSessions, Finish
  <2> QED BY <1>0, <2>2, <2>3, IdleFiles, RowsUnchanged, SameRowsTyped
<1>12. CASE Abandon(r)
  BY <1>0, <1>12, IdleFiles, RowsUnchanged, SameRowsTyped DEF Abandon, Finish
<1> QED BY <1>1, <1>2, <1>3, <1>4, <1>5, <1>6, <1>7, <1>8, <1>9, <1>10, <1>11, <1>12
        DEF Serve, PresentFresh, PresentSpent

LEMMA StepTyped == Typed /\ [Next]_vars => Typed'
<1> SUFFICES ASSUME Typed, [Next]_vars PROVE Typed'
  OBVIOUS
<1>0. /\ password \in Nat /\ secured \in Nat /\ detected \subseteq DOMAIN tokens
      /\ sessions \in Seq(BOOLEAN) /\ Len(sessions) \in Nat
  BY DEF Typed, TypeOK
<1>1. CASE \E r \in Requests : Serve(r)
  BY <1>1, ServeTyped
<1>2. ASSUME NEW s \in DOMAIN sessions, RevokeMySession(s) PROVE Typed'
  <2>1. sessions' = [sessions EXCEPT ![s] = TRUE]
    BY <1>2 DEF RevokeMySession
  <2>2. sessions' \in Seq(BOOLEAN) /\ Len(sessions') = Len(sessions)
    BY <1>0, <2>1
  <2>3. UNCHANGED <<tokens, password, req, detected, secured>>
    BY <1>2 DEF RevokeMySession
  <2> QED BY <1>0, <2>2, <2>3, IdleFiles, RowsUnchanged, SameRowsTyped
<1>3. ASSUME NEW k \in DOMAIN tokens, TokenExpires(k) PROVE Typed'
  <2>1. RowsKept /\ DOMAIN tokens' = DOMAIN tokens
    BY <1>3, ExpiryRows
  <2>2. UNCHANGED <<sessions, password, req, detected, secured>>
    BY <1>3 DEF TokenExpires
  <2> QED BY <1>0, <2>1, <2>2, IdleFiles, SameRowsTyped
<1>4. CASE UNCHANGED vars
  <2>1. UNCHANGED <<tokens, sessions, password, req, detected, secured>>
    BY <1>4 DEF vars
  <2> QED BY <1>0, <2>1, IdleFiles, RowsUnchanged, SameRowsTyped
<1> QED BY <1>1, <1>2, <1>3, <1>4 DEF Next

\* In every reachable state the rows and the requests are what the handlers take them for:
\* a request between two awaits names a token and a session that exist.
THEOREM AlwaysTyped == Spec => []Typed
BY InitTyped, StepTyped, PTL DEF Spec

\* The type invariant: whatever requests do, each row has its columns' types and the session
\* named by an access token exists (TokensService, SessionsService).
THEOREM TypesCorrect == Spec => []TypeOK
<1>1. Typed => TypeOK
  BY DEF Typed
<1> QED BY <1>1, AlwaysTyped, PTL

-----------------------------------------------------------------------------
(* Replacement chains.                                                     *)

\* A step that issues and rotates nothing keeps the rows and where they point.
Quiet ==
    /\ RowsKept
    /\ DOMAIN tokens' = DOMAIN tokens
    /\ \A k \in DOMAIN tokens : tokens'[k].next = tokens[k].next

LEMMA RevokeQuiet == ASSUME Typed, NEW rows, Revoke(rows) PROVE Quiet
<1>1. \A k \in DOMAIN tokens : tokens[k] \in TokenRow
  BY DEF Typed, TypeOK
<1>2. /\ RowsKept /\ DOMAIN tokens' = DOMAIN tokens
      /\ \A k \in DOMAIN tokens :
            tokens'[k] = IF k \in rows THEN [tokens[k] EXCEPT !.revoked = TRUE] ELSE tokens[k]
  BY RevokeRows DEF Typed
<1> QED BY <1>1, <1>2 DEF Quiet, TokenRow

LEMMA SameRowsQuiet == ASSUME Typed, UNCHANGED tokens PROVE Quiet
BY RowsUnchanged DEF Quiet

LEMMA QuietSteps ==
    ASSUME Typed, [Next]_vars, \A r \in Requests : ~Issue(r) /\ ~CommitRotation(r)
    PROVE  Quiet
<1>1. ASSUME NEW r \in Requests, Serve(r) PROVE Quiet
  <2>1. ASSUME NEW rows, Revoke(rows) PROVE Quiet
    BY <2>1, RevokeQuiet
  <2>2. UNCHANGED tokens \/ \E rows : Revoke(rows)
    BY <1>1 DEF Serve, Login, PresentFresh, PresentSpent, Logout, RevokeFamily, EndSession,
                ChangePassword, LogoutAll, RevokeForPassword, EndSessions, Abandon, Store
  <2> QED BY <2>1, <2>2, SameRowsQuiet
<1>2. ASSUME NEW k \in DOMAIN tokens, TokenExpires(k) PROVE Quiet
  BY <1>2, ExpiryRows DEF Quiet
<1>3. CASE UNCHANGED tokens
  BY <1>3, SameRowsQuiet
<1> QED BY <1>1, <1>2, <1>3 DEF Next, vars, RevokeMySession

LEMMA StepRows == ASSUME Typed, [Next]_vars PROVE RowsKept
<1>1. ASSUME NEW r \in Requests, Issue(r) PROVE RowsKept
  BY <1>1, IssueRows
<1>2. ASSUME NEW r \in Requests, CommitRotation(r) PROVE RowsKept
  BY <1>2, RotationRows
<1> QED BY <1>1, <1>2, QuietSteps DEF Quiet

\* A row that points onward keeps doing so, to a row that keeps its login.
LEMMA LinksKept ==
    ASSUME Typed, ChainsRunForward, RowsKept,
           NEW k \in DOMAIN tokens, tokens'[k].next = tokens[k].next, tokens[k].next # 0
    PROVE  LET t == tokens'[k] IN
           /\ t.revoked
           /\ t.next \in k + 1 .. Len(tokens')
           /\ tokens'[t.next].family = t.family
           /\ tokens'[t.next].login = t.login
<1> DEFINE n == tokens[k].next
<1>1. /\ DOMAIN tokens = 1 .. Len(tokens) /\ Len(tokens) \in Nat /\ Len(tokens') \in Nat
      /\ Len(tokens') >= Len(tokens) /\ k \in Nat
  BY DEF Typed, TypeOK, RowsKept
<1>2. /\ tokens[k].revoked /\ n \in k + 1 .. Len(tokens)
      /\ tokens[n].family = tokens[k].family /\ tokens[n].login = tokens[k].login
  BY DEF ChainsRunForward
<1>3. n \in DOMAIN tokens /\ n \in k + 1 .. Len(tokens')
  BY <1>1, <1>2
<1>4. Kept(tokens[k], tokens'[k]) /\ Kept(tokens[n], tokens'[n])
  BY <1>3 DEF RowsKept
<1> QED BY <1>2, <1>3, <1>4 DEF Kept

LEMMA ChainStep == Typed /\ ChainsRunForward /\ [Next]_vars => ChainsRunForward'
<1> SUFFICES ASSUME Typed, ChainsRunForward, [Next]_vars PROVE ChainsRunForward'
  OBVIOUS
<1>1. CASE \A r \in Requests : ~Issue(r) /\ ~CommitRotation(r)
  <2>1. Quiet
    BY <1>1, QuietSteps
  <2>2. /\ RowsKept /\ DOMAIN tokens' = DOMAIN tokens
        /\ \A k \in DOMAIN tokens : tokens'[k].next = tokens[k].next
    BY <2>1 DEF Quiet
  <2> QED BY <2>2, LinksKept DEF ChainsRunForward
<1>2. ASSUME NEW r \in Requests, Issue(r) PROVE ChainsRunForward'
  <2>1. /\ RowsKept /\ DOMAIN tokens = 1 .. Len(tokens)
        /\ DOMAIN tokens' = 1 .. Len(tokens) + 1 /\ Len(tokens) \in Nat
        /\ tokens'[Len(tokens) + 1].next = 0
        /\ \A j \in DOMAIN tokens : tokens'[j] = tokens[j]
    BY <1>2, IssueRows DEF Typed, TypeOK
  <2>2. \A k \in DOMAIN tokens' : k \in DOMAIN tokens \/ tokens'[k].next = 0
    BY <2>1
  <2> QED BY <2>1, <2>2, LinksKept DEF ChainsRunForward
<1>3. ASSUME NEW r \in Requests, CommitRotation(r) PROVE ChainsRunForward'
  <2> DEFINE k == req[r].token
             n == Len(tokens) + 1
  <2>1. /\ k \in DOMAIN tokens /\ RowsKept /\ Len(tokens') = n
        /\ DOMAIN tokens = 1 .. Len(tokens) /\ DOMAIN tokens' = 1 .. n
        /\ tokens'[n] = Successor(tokens[k])
        /\ tokens'[k] = Rotated(tokens[k], n)
        /\ \A j \in DOMAIN tokens : j # k => tokens'[j] = tokens[j]
    BY <1>3, RotationRows
  <2>2. Len(tokens) \in Nat /\ tokens[k] \in TokenRow
    BY <2>1 DEF Typed, TypeOK
  <2>3. /\ tokens'[n].next = 0
        /\ tokens'[k].next = n /\ tokens'[k].revoked
        /\ tokens'[n].family = tokens'[k].family /\ tokens'[n].login = tokens'[k].login
    BY <2>1, <2>2 DEF Successor, Rotated, TokenRow
  <2> HIDE DEF k
  <2>4. n \in k + 1 .. Len(tokens')
    BY <2>1, <2>2
  <2> HIDE DEF n
  <2>5. \A j \in DOMAIN tokens' : j = n \/ j = k \/ (j \in DOMAIN tokens /\ j # k)
    BY <2>1, <2>2 DEF n
  <2> QED BY <2>1, <2>3, <2>4, <2>5, LinksKept DEF ChainsRunForward
<1> QED BY <1>1, <1>2, <1>3

\* However refreshes of the same token overlap (TokensService.rotate), following replacedBy
\* leads forward within one login, from a token that was revoked.
THEOREM ChainsNeverLoop == Spec => []ChainsRunForward
<1>1. Init => ChainsRunForward
  BY DEF Init, ChainsRunForward
<1> QED BY <1>1, ChainStep, AlwaysTyped, PTL DEF Spec

-----------------------------------------------------------------------------
(* Logins that have ended.                                                 *)

\* What a request knows after its step: nothing the logins depend on, or the password it just
\* checked, a token that works, or the new password.
Moves(fields) ==
    \/ fields.stage \in {"idle", "reuse", "logout", "logoutAll"}
    \/ /\ fields.stage = "login" /\ fields.pwd = password
       /\ UNCHANGED <<tokens, password, detected, secured>>
    \/ /\ fields.stage = "rotate" /\ fields.token \in DOMAIN tokens /\ Live(fields.token)
       /\ UNCHANGED Store
    \/ /\ fields.stage = "newPassword" /\ fields.pwd = password'
       /\ UNCHANGED <<tokens, detected, secured>> /\ password' >= password

LEMMA ServeMoves ==
    ASSUME Typed, NEW r \in Requests, Serve(r)
    PROVE  \E fields : req' = [req EXCEPT ![r] = fields] /\ Moves(fields)
<1> DEFINE Goal == \E fields : req' = [req EXCEPT ![r] = fields] /\ Moves(fields)
<1>0. /\ DOMAIN tokens \subseteq Nat /\ Len(sessions) + 1 \in Nat /\ password + 1 \in Nat
      /\ password \in Nat /\ \A k \in DOMAIN tokens : tokens[k].sid \in Nat
      /\ password + 1 >= password /\ req[r] \in RequestState
  BY DEF Typed, TypeOK
<1>1. ASSUME NEW k \in DOMAIN tokens, PresentSpent(r, k) PROVE Goal
  <2> DEFINE fields == [Idle EXCEPT !.stage = "reuse", !.token = k]
  <2>1. fields.stage = "reuse"
    BY <1>0, IdleTyped DEF RequestState, Stages
  <2>2. req' = [req EXCEPT ![r] = fields]
    BY <1>1 DEF PresentSpent, Begin
  <2> HIDE DEF fields
  <2> QED BY <2>1, <2>2 DEF Moves
<1>2. ASSUME NEW k \in DOMAIN tokens, Logout(r, k) PROVE Goal
  <2> DEFINE fields == [Idle EXCEPT !.stage = "logout", !.token = k, !.session = tokens[k].sid]
  <2>1. fields.stage = "logout"
    BY <1>0, IdleTyped DEF RequestState, Stages
  <2>2. req' = [req EXCEPT ![r] = fields]
    BY <1>2 DEF Logout, Begin
  <2> HIDE DEF fields
  <2> QED BY <2>1, <2>2 DEF Moves
<1>3. CASE Login(r)
  <2> DEFINE fields == [Idle EXCEPT !.stage = "login", !.session = Len(sessions) + 1,
                                    !.pwd = password]
  <2>1. fields.stage = "login" /\ fields.pwd = password
    BY <1>0, IdleTyped DEF RequestState, Stages
  <2>2. req' = [req EXCEPT ![r] = fields] /\ UNCHANGED <<tokens, password, detected, secured>>
    BY <1>3, <1>0 DEF Login, Begin
  <2> HIDE DEF fields
  <2> QED BY <2>1, <2>2 DEF Moves
<1>4. CASE ChangePassword(r)
  <2> DEFINE fields == [Idle EXCEPT !.stage = "newPassword", !.pwd = password + 1]
  <2>1. fields.stage = "newPassword" /\ fields.pwd = password + 1
    BY <1>0, IdleTyped DEF RequestState, Stages
  <2>2. /\ req' = [req EXCEPT ![r] = fields]
        /\ password' = password + 1 /\ password' >= password
        /\ UNCHANGED <<tokens, detected, secured>>
    BY <1>4, <1>0 DEF ChangePassword, Begin
  <2> HIDE DEF fields
  <2> QED BY <2>1, <2>2 DEF Moves
<1>5. CASE LogoutAll(r)
  <2> DEFINE fields == [Idle EXCEPT !.stage = "logoutAll"]
  <2>1. fields.stage = "logoutAll"
    BY IdleTyped DEF RequestState, Stages
  <2>2. req' = [req EXCEPT ![r] = fields]
    BY <1>5 DEF LogoutAll, Begin
  <2> HIDE DEF fields
  <2> QED BY <2>1, <2>2 DEF Moves
<1>6. CASE RevokeForPassword(r)
  <2> DEFINE fields == [req[r] EXCEPT !.stage = "logoutAll"]
  <2>1. fields.stage = "logoutAll"
    BY <1>0 DEF RequestState
  <2>2. req' = [req EXCEPT ![r] = fields]
    BY <1>6 DEF RevokeForPassword, Advance
  <2> HIDE DEF fields
  <2> QED BY <2>1, <2>2 DEF Moves
<1>7. ASSUME NEW k \in DOMAIN tokens, PresentFresh(r, k) PROVE Goal
  <2> DEFINE fields == [Idle EXCEPT !.stage = "rotate", !.token = k]
  <2>1. fields.stage = "rotate" /\ fields.token = k
    BY <1>0, IdleTyped DEF RequestState, Stages
  <2>2. req' = [req EXCEPT ![r] = fields] /\ Fresh(tokens[k]) /\ UNCHANGED Store
    BY <1>7 DEF PresentFresh, Begin
  <2>3. Live(k)
    BY <2>2 DEF Fresh, Live
  <2> HIDE DEF fields
  <2> QED BY <2>1, <2>2, <2>3 DEF Moves
<1>8. CASE Finish(r)
  BY <1>8, IdleTyped DEF Finish, Moves
<1> QED BY <1>1, <1>2, <1>3, <1>4, <1>5, <1>6, <1>7, <1>8
        DEF Serve, Issue, CommitRotation, RevokeFamily, EndSession, EndSessions, Abandon

\* A request that is refreshing was already refreshing this token, or starts from a token on
\* file that still works.
LEMMA RefreshesStartLive ==
    ASSUME Typed, [Next]_vars, NEW s \in Requests, req'[s].stage = "rotate"
    PROVE  \/ req[s].stage = "rotate" /\ req'[s].token = req[s].token
           \/ req'[s].token \in DOMAIN tokens /\ Live(req'[s].token)
<1>1. CASE UNCHANGED req
  BY <1>1
<1>2. ASSUME NEW r \in Requests, Serve(r)
      PROVE  req'[s] = req[s] \/ (req'[s].token \in DOMAIN tokens /\ Live(req'[s].token))
  <2>1. PICK fields : req' = [req EXCEPT ![r] = fields] /\ Moves(fields)
    BY <1>2, ServeMoves
  <2>2. req'[s] = req[s] \/ req'[s] = fields
    BY <2>1 DEF Typed, TypeOK
  <2>3. fields.stage = "rotate" => fields.token \in DOMAIN tokens /\ Live(fields.token)
    BY <2>1 DEF Moves
  <2> QED BY <2>2, <2>3
<1> QED BY <1>1, <1>2 DEF Next, vars, RevokeMySession, TokenExpires

\* Where the rows of a family come from: rows it had, or the successor of one under refresh.
LEMMA FamilyGrowth ==
    ASSUME Typed, [Next]_vars, NEW f \in DOMAIN tokens, NEW j \in DOMAIN tokens',
           tokens'[j].family = f
    PROVE  \/ j \in DOMAIN tokens /\ tokens[j].family = f
           \/ \E r \in Requests : CommitRotation(r) /\ tokens[req[r].token].family = f
<1>1. ASSUME RowsKept, j \in DOMAIN tokens PROVE tokens[j].family = f
  BY <1>1 DEF RowsKept, Kept
<1>2. CASE \A r \in Requests : ~Issue(r) /\ ~CommitRotation(r)
  BY <1>1, <1>2, QuietSteps DEF Quiet
<1>3. ASSUME NEW r \in Requests, Issue(r) PROVE j \in DOMAIN tokens /\ tokens[j].family = f
  <2>1. /\ RowsKept /\ DOMAIN tokens = 1 .. Len(tokens)
        /\ DOMAIN tokens' = 1 .. Len(tokens) + 1 /\ Len(tokens) \in Nat
        /\ tokens'[Len(tokens) + 1].family = Len(tokens) + 1
    BY <1>3, IssueRows DEF Typed, TypeOK
  <2>2. j \in DOMAIN tokens
    BY <2>1
  <2> QED BY <2>1, <2>2, <1>1
<1>4. ASSUME NEW r \in Requests, CommitRotation(r)
      PROVE  \/ j \in DOMAIN tokens /\ tokens[j].family = f
             \/ tokens[req[r].token].family = f
  <2> DEFINE k == req[r].token
  <2>1. /\ k \in DOMAIN tokens /\ RowsKept /\ DOMAIN tokens = 1 .. Len(tokens)
        /\ DOMAIN tokens' = 1 .. Len(tokens) + 1 /\ Len(tokens) \in Nat
        /\ tokens'[Len(tokens) + 1] = Successor(tokens[k])
    BY <1>4, RotationRows DEF Typed, TypeOK
  <2>2. Successor(tokens[k]).family = tokens[k].family
    BY <2>1 DEF Successor, Typed, TypeOK, TokenRow
  <2>3. j \in DOMAIN tokens \/ j = Len(tokens) + 1
    BY <2>1
  <2> QED BY <2>1, <2>2, <2>3, <1>1
<1> QED BY <1>2, <1>3, <1>4

LEMMA DeadStep ==
    ASSUME Typed, [Next]_vars, NEW k \in DOMAIN tokens, Ended(tokens[k].family)
    PROVE  Ended(tokens[k].family)'
<1> DEFINE f == tokens[k].family
<1>1. f \in DOMAIN tokens /\ RowsKept /\ DOMAIN tokens \subseteq DOMAIN tokens'
      /\ tokens'[k].family = f
  <2>1. RowsKept
    BY StepRows
  <2>2. /\ DOMAIN tokens = 1 .. Len(tokens) /\ DOMAIN tokens' = 1 .. Len(tokens')
        /\ Len(tokens) \in Nat /\ Len(tokens') \in Nat /\ Len(tokens') >= Len(tokens)
    BY <2>1 DEF Typed, TypeOK, RowsKept
  <2> QED BY <2>1, <2>2 DEF Typed, OnFile, RowsKept, Kept
<1>2. /\ \A j \in DOMAIN tokens : tokens[j].family = f => tokens[j].revoked
      /\ \A r \in Requests : req[r].stage = "rotate" => tokens[req[r].token].family # f
  BY DEF Ended, Family, Live, Typed, OnFile
<1> HIDE DEF f
<1>3. ASSUME NEW j \in DOMAIN tokens', tokens'[j].family = f
      PROVE  j \in DOMAIN tokens /\ tokens[j].family = f /\ tokens'[j].revoked
  <2>1. \A r \in Requests : CommitRotation(r) => tokens[req[r].token].family # f
    BY <1>2 DEF CommitRotation
  <2>2. j \in DOMAIN tokens /\ tokens[j].family = f
    BY <1>1, <1>3, <2>1, FamilyGrowth
  <2> QED BY <1>1, <1>2, <2>2 DEF RowsKept, Kept
<1>4. ASSUME NEW r \in Requests, req'[r].stage = "rotate"
      PROVE  ~(req'[r].token \in DOMAIN tokens' /\ tokens'[req'[r].token].family = f)
  <2> DEFINE j == req'[r].token
  <2>1. SUFFICES ASSUME j \in DOMAIN tokens', tokens'[j].family = f PROVE FALSE
    OBVIOUS
  <2>2. j \in DOMAIN tokens /\ tokens[j].family = f
    BY <2>1, <1>3
  <2>3. (req[r].stage = "rotate" /\ req[r].token = j) \/ ~tokens[j].revoked
    BY <1>4, RefreshesStartLive DEF Live
  <2> QED BY <2>2, <2>3, <1>2
<1> QED BY <1>1, <1>3, <1>4 DEF Ended, Family, Live, f

\* A login whose tokens are all revoked, with no refresh of it under way, never comes back,
\* whatever overlaps: the checks at the top of TokensService.rotate.
THEOREM DeadForGood == Spec => DeadFamiliesStayDead
<1>1. Typed /\ [Next]_vars =>
         [\A k \in DOMAIN tokens : Ended(tokens[k].family) => Ended(tokens[k].family)']_vars
  BY DeadStep
<1> QED BY <1>1, AlwaysTyped, PTL DEF Spec, DeadFamiliesStayDead

-----------------------------------------------------------------------------
(* One request at a time.                                                  *)

OneAtATime == \A r, s \in Requests : r = s

\* The three properties of a server that nothing interferes with.
Sound == OneLiveTokenPerFamily /\ ReuseEndsFamily /\ OldPasswordLockedOut

\* They are inductive with what the request between two awaits still knows to be true: its
\* token works, its password was not changed since every device was logged out, and the
\* change of password it finishes has been stored.
Knows(r) ==
    /\ req[r].stage = "rotate" => Live(req[r].token)
    /\ req[r].stage = "login" => req[r].pwd >= secured
    /\ req[r].stage = "newPassword" => req[r].pwd <= password

Serial == Sound /\ secured <= password /\ \A r \in Requests : Knows(r)

\* A step that issues nothing keeps the properties when it revokes every token of a login it
\* condemns, and every token at all if it logs every device out.
LEMMA QuietSound ==
    ASSUME Typed, Sound, Quiet,
           \A k \in DOMAIN tokens : tokens[k].family \in detected' =>
               tokens[k].family \in detected \/ tokens'[k].revoked,
           \A k \in DOMAIN tokens : secured' = secured \/ tokens'[k].revoked
    PROVE  Sound'
<1>1. /\ DOMAIN tokens' = DOMAIN tokens
      /\ \A k \in DOMAIN tokens : Kept(tokens[k], tokens'[k])
  BY DEF Quiet, RowsKept
<1>2. \A k \in DOMAIN tokens : /\ tokens'[k].family = tokens[k].family
                               /\ tokens'[k].pwd = tokens[k].pwd
                               /\ ~tokens'[k].revoked => ~tokens[k].revoked
  BY <1>1 DEF Kept
<1>3. OneLiveTokenPerFamily'
  BY <1>1, <1>2 DEF Sound, OneLiveTokenPerFamily, Live
<1>4. ReuseEndsFamily'
  BY <1>1, <1>2 DEF Sound, ReuseEndsFamily, Live
<1>5. OldPasswordLockedOut'
  BY <1>1, <1>2 DEF Sound, OldPasswordLockedOut, Live
<1> QED BY <1>3, <1>4, <1>5 DEF Sound

LEMMA IssueSound ==
    ASSUME Typed, Sound, NEW r \in Requests, Knows(r), Issue(r)
    PROVE  Sound'
<1> DEFINE n == Len(tokens) + 1
<1>1. /\ DOMAIN tokens = 1 .. Len(tokens) /\ DOMAIN tokens' = 1 .. n /\ Len(tokens) \in Nat
      /\ tokens'[n].family = n /\ tokens'[n].pwd = req[r].pwd
      /\ \A j \in DOMAIN tokens : tokens'[j] = tokens[j]
  BY IssueRows DEF Typed, TypeOK
<1>2. req[r].pwd >= secured /\ UNCHANGED <<detected, secured>>
  BY DEF Issue, Knows
<1>3. /\ n \notin DOMAIN tokens /\ n \notin detected
      /\ \A j \in DOMAIN tokens : tokens[j].family # n
      /\ \A j \in DOMAIN tokens' : j \in DOMAIN tokens \/ j = n
  <2>1. n \notin DOMAIN tokens /\ \A j \in DOMAIN tokens' : j \in DOMAIN tokens \/ j = n
    BY <1>1
  <2> QED BY <2>1 DEF Typed, TypeOK, OnFile
<1> HIDE DEF n
<1>4. OneLiveTokenPerFamily'
  BY <1>1, <1>3 DEF Sound, OneLiveTokenPerFamily, Live
<1>5. ReuseEndsFamily'
  BY <1>1, <1>2, <1>3 DEF Sound, ReuseEndsFamily, Live
<1>6. OldPasswordLockedOut'
  BY <1>1, <1>2, <1>3 DEF Sound, OldPasswordLockedOut, Live
<1> QED BY <1>4, <1>5, <1>6 DEF Sound

LEMMA RotationSound ==
    ASSUME Typed, Sound, NEW r \in Requests, Knows(r), CommitRotation(r)
    PROVE  Sound'
<1> DEFINE k == req[r].token
           n == Len(tokens) + 1
<1>1. /\ k \in DOMAIN tokens
      /\ DOMAIN tokens = 1 .. Len(tokens) /\ DOMAIN tokens' = 1 .. n /\ Len(tokens) \in Nat
      /\ tokens'[n] = Successor(tokens[k]) /\ tokens'[k] = Rotated(tokens[k], n)
      /\ \A j \in DOMAIN tokens : j # k => tokens'[j] = tokens[j]
  BY RotationRows DEF Typed, TypeOK
<1>2. /\ tokens'[n].family = tokens[k].family /\ tokens'[n].pwd = tokens[k].pwd
      /\ tokens'[k].revoked
  BY <1>1 DEF Successor, Rotated, Typed, TypeOK, TokenRow
<1>3. ~tokens[k].revoked /\ UNCHANGED <<detected, secured>>
  BY DEF CommitRotation, Knows, Live
<1>4. n \notin DOMAIN tokens /\ \A j \in DOMAIN tokens' : j = n \/ j \in DOMAIN tokens
  BY <1>1
<1>5. tokens[k].family \notin detected /\ tokens[k].pwd >= secured
  BY <1>1, <1>3 DEF Sound, ReuseEndsFamily, OldPasswordLockedOut, Live
<1> HIDE DEF k, n
<1>6. \A j \in DOMAIN tokens' :
         ~tokens'[j].revoked =>
            j = n \/ (/\ j \in DOMAIN tokens /\ tokens'[j] = tokens[j] /\ Live(j)
                      /\ tokens[j].family # tokens[k].family)
  BY <1>1, <1>2, <1>3, <1>4 DEF Sound, OneLiveTokenPerFamily, Live
<1>7. OneLiveTokenPerFamily'
  BY <1>2, <1>6 DEF Sound, OneLiveTokenPerFamily, Live
<1>8. ReuseEndsFamily'
  BY <1>2, <1>3, <1>5, <1>6 DEF Sound, ReuseEndsFamily, Live
<1>9. OldPasswordLockedOut'
  BY <1>2, <1>3, <1>5, <1>6 DEF Sound, OldPasswordLockedOut, Live
<1> QED BY <1>7, <1>8, <1>9 DEF Sound

LEMMA RevokedRows ==
    ASSUME Typed, NEW rows, Revoke(rows), NEW k \in DOMAIN tokens, k \in rows
    PROVE  tokens'[k].revoked
<1>1. tokens'[k] = [tokens[k] EXCEPT !.revoked = TRUE] /\ tokens[k] \in TokenRow
  BY RevokeRows DEF Typed, TypeOK
<1> QED BY <1>1 DEF TokenRow

LEMMA StepSound ==
    ASSUME Typed, Sound, \A r \in Requests : Knows(r), [Next]_vars
    PROVE  Sound'
<1>1. CASE \E r \in Requests : Issue(r) \/ CommitRotation(r)
  BY <1>1, IssueSound, RotationSound
<1>2. CASE \A r \in Requests : ~Issue(r) /\ ~CommitRotation(r)
  <2>1. Quiet
    BY <1>2, QuietSteps
  <2>2. CASE UNCHANGED <<detected, secured>>
    BY <2>1, <2>2, QuietSound
  <2>3. ASSUME NEW r \in Requests, RevokeFamily(r) PROVE Sound'
    <3> DEFINE f == tokens[req[r].token].family
    <3>1. /\ Revoke(Family(f)) /\ detected' = detected \cup {f} /\ secured' = secured
      BY <2>3 DEF RevokeFamily, Relatives
    <3> HIDE DEF f
    <3>2. \A k \in DOMAIN tokens : tokens[k].family = f => tokens'[k].revoked
      BY <3>1, RevokedRows DEF Family
    <3> QED BY <2>1, <3>1, <3>2, QuietSound
  <2>4. ASSUME NEW r \in Requests, RevokeForPassword(r) PROVE Sound'
    <3>1. Revoke(EveryToken) /\ detected' = detected
      BY <2>4 DEF RevokeForPassword
    <3>2. \A k \in DOMAIN tokens : tokens'[k].revoked
      BY <3>1, RevokedRows DEF EveryToken
    <3> QED BY <2>1, <3>1, <3>2, QuietSound
  <2>5. \/ \E r \in Requests : RevokeFamily(r) \/ RevokeForPassword(r)
        \/ UNCHANGED <<detected, secured>>
    BY <1>2 DEF Next, Serve, Login, PresentFresh, PresentSpent, Logout, EndSession,
                ChangePassword, LogoutAll, EndSessions, Abandon, Store, vars,
                RevokeMySession, TokenExpires
  <2> QED BY <2>2, <2>3, <2>4, <2>5
<1> QED BY <1>1, <1>2

LEMMA StepKnows ==
    ASSUME OneAtATime, Typed, Serial, [Next]_vars
    PROVE  secured' <= password' /\ \A s \in Requests : Knows(s)'
<1>1. /\ secured \in Nat /\ password \in Nat /\ secured <= password
      /\ req \in [Requests -> RequestState]
  BY DEF Typed, TypeOK, Serial
<1>2. ASSUME UNCHANGED <<req, secured, password>>,
             \A k \in DOMAIN tokens : tokens'[k].revoked = tokens[k].revoked
      PROVE  secured' <= password' /\ \A s \in Requests : Knows(s)'
  BY <1>1, <1>2 DEF Knows, Live, Serial, Typed, OnFile
<1>3. ASSUME NEW s \in Requests, Serve(s)
      PROVE  secured' <= password' /\ Knows(s)'
  <2>1. PICK fields : req' = [req EXCEPT ![s] = fields] /\ Moves(fields)
    BY <1>3, ServeMoves
  <2>2. req'[s] = fields
    BY <1>1, <2>1
  <2>3. CASE RevokeForPassword(s)
    <3>1. req[s].pwd \in Nat /\ req[s].pwd <= password
      BY <1>1, <2>3 DEF RevokeForPassword, Serial, Knows, RequestState
    <3>2. req'[s].stage = "logoutAll" /\ secured' <= password'
      BY <1>1, <2>3, <3>1 DEF RevokeForPassword, Advance, RequestState
    <3> QED BY <3>2 DEF Knows
  <2>4. CASE ~RevokeForPassword(s)
    <3>1. secured' = secured /\ (password' = password \/ password' = password + 1)
      BY <1>3, <2>4 DEF Serve, Login, Issue, PresentFresh, PresentSpent, Logout,
            CommitRotation, RevokeFamily, EndSession, ChangePassword, LogoutAll, EndSessions,
            Abandon, Store
    <3>2. secured' <= password' /\ password' <= password'
      BY <1>1, <3>1
    <3>3. Knows(s)'
      BY <1>1, <2>1, <2>2, <3>1, <3>2 DEF Moves, Knows, Live, Store
    <3> QED BY <3>2, <3>3
  <2> QED BY <2>3, <2>4
<1>4. ASSUME NEW k \in DOMAIN tokens, TokenExpires(k)
      PROVE  /\ UNCHANGED <<req, secured, password>>
             /\ \A j \in DOMAIN tokens : tokens'[j].revoked = tokens[j].revoked
  BY <1>4, ExpiryRows DEF TokenExpires
<1>5. CASE \E r \in Requests : Serve(r)
  BY <1>3, <1>5 DEF OneAtATime
<1> QED BY <1>2, <1>4, <1>5 DEF Next, vars, RevokeMySession

LEMMA AlwaysSerial == ASSUME OneAtATime PROVE Spec => []Serial
<1>1. Init => Serial
  BY IdleTyped DEF Init, Serial, Sound, OneLiveTokenPerFamily, ReuseEndsFamily,
                   OldPasswordLockedOut, Knows
<1>2. Typed /\ Serial /\ [Next]_vars => Serial'
  BY StepSound, StepKnows DEF Serial
<1> QED BY <1>1, <1>2, AlwaysTyped, PTL DEF Spec

LEMMA AlwaysSound == ASSUME OneAtATime PROVE Spec => []Sound
<1>1. Serial => Sound
  BY DEF Serial
<1> QED BY <1>1, AlwaysSerial, PTL

\* Served one at a time, a refresh replaces a token: a login never has two that work,
\* although a handler may die between any two of its writes (TokensService.rotate).
THEOREM OneLiveToken == ASSUME OneAtATime PROVE Spec => []OneLiveTokenPerFamily
<1>1. Sound => OneLiveTokenPerFamily
  BY DEF Sound
<1> QED BY <1>1, AlwaysSound, PTL

\* Served one at a time, a token that comes back after its rotation leaves its login without
\* a token that works, now and later (revokeFamily).
THEOREM ReuseIsFinal == ASSUME OneAtATime PROVE Spec => []ReuseEndsFamily
<1>1. Sound => ReuseEndsFamily
  BY DEF Sound
<1> QED BY <1>1, AlwaysSound, PTL

\* Served one at a time, a change of password that logged every device out leaves working
\* tokens only to those who logged in with that password or a later one (logoutAllDevices).
THEOREM OldPasswordUseless == ASSUME OneAtATime PROVE Spec => []OldPasswordLockedOut
<1>1. Sound => OldPasswordLockedOut
  BY DEF Sound
<1> QED BY <1>1, AlwaysSound, PTL

-----------------------------------------------------------------------------
(* The chain of each login.                                                *)

\* The token that holds a family in the given rows, or 0 when none of it works.
Works(rows, f, k) == k \in DOMAIN rows /\ rows[k].family = f /\ ~rows[k].revoked

LEMMA HolderWorks ==
    ASSUME NEW rows, NEW f, NEW h, NEW fam, fam = {k \in DOMAIN rows : rows[k].family = f},
           h = IF \E k \in fam : ~rows[k].revoked
               THEN CHOOSE k \in fam : ~rows[k].revoked ELSE 0
    PROVE  Works(rows, f, h) \/ (h = 0 /\ \A k : ~Works(rows, f, k))
<1>1. CASE \E k \in fam : ~rows[k].revoked
  <2>1. PICK k \in fam : ~rows[k].revoked
    BY <1>1
  <2>2. h = CHOOSE j \in fam : ~rows[j].revoked
    BY <1>1
  <2>3. h \in fam /\ ~rows[h].revoked
    BY <2>1, <2>2, Zenon
  <2> QED BY <2>3 DEF Works
<1>2. CASE \A k \in fam : rows[k].revoked
  BY <1>2 DEF Works
<1> QED BY <1>1, <1>2

LEMMA HolderNow ==
    ASSUME NEW f \in 1 .. MaxTokens
    PROVE  \/ Works(tokens, f, LiveToken[f])
           \/ LiveToken[f] = 0 /\ \A k : ~Works(tokens, f, k)
<1> DEFINE fam == {k \in DOMAIN tokens : tokens[k].family = f}
<1>1. LiveToken[f] = IF \E k \in fam : ~tokens[k].revoked
                     THEN CHOOSE k \in fam : ~tokens[k].revoked ELSE 0
  BY Zenon DEF LiveToken, Live, Family
<1> HIDE DEF fam
<1>2. fam = {k \in DOMAIN tokens : tokens[k].family = f}
  BY DEF fam
<1> QED BY <1>1, <1>2, HolderWorks

LEMMA HolderNext ==
    ASSUME NEW f \in 1 .. MaxTokens
    PROVE  \/ Works(tokens', f, LiveToken'[f])
           \/ LiveToken'[f] = 0 /\ \A k : ~Works(tokens', f, k)
<1> DEFINE fam == {k \in DOMAIN tokens' : tokens'[k].family = f}
<1>1. LiveToken'[f] = IF \E k \in fam : ~tokens'[k].revoked
                      THEN CHOOSE k \in fam : ~tokens'[k].revoked ELSE 0
  BY Zenon DEF LiveToken, Live, Family
<1> HIDE DEF fam
<1>2. fam = {k \in DOMAIN tokens' : tokens'[k].family = f}
  BY DEF fam
<1> QED BY <1>1, <1>2, HolderWorks

\* What a step must do for it to hand a chain on, or to end chains.
LEMMA HandOnSays ==
    ASSUME NEW c \in 1 .. MaxTokens, NEW t, t = LiveToken'[c],
           LiveToken[c] = 0 => EverIssued[c] = {}, t \notin EverIssued[c] \cup {0},
           LiveToken' = [LiveToken EXCEPT ![c] = t],
           EverIssued' = [EverIssued EXCEPT ![c] = @ \cup {t}]
    PROVE  Chain!Next
<1>1. Chain!HandOn(c, LiveToken'[c])
  BY DEF Chain!HandOn
<1> QED BY <1>1, Zenon DEF Chain!Next

LEMMA EndSays ==
    ASSUME NEW ended \in SUBSET (1 .. MaxTokens), UNCHANGED EverIssued,
           LiveToken' = [c \in 1 .. MaxTokens |-> IF c \in ended THEN 0 ELSE LiveToken[c]]
    PROVE  Chain!Next
<1>1. Chain!End(ended)
  BY DEF Chain!End
<1> QED BY <1>1, Zenon DEF Chain!Next

LEMMA OneEntry ==
    ASSUME NEW S, NEW f, NEW g, NEW i \in S, NEW v,
           f = [j \in S |-> f[j]], g = [j \in S |-> g[j]],
           \A j \in S : g[j] = IF j = i THEN v ELSE f[j]
    PROVE  g = [f EXCEPT ![i] = v]
OBVIOUS

LEMMA Functions ==
    /\ LiveToken = [f \in 1 .. MaxTokens |-> LiveToken[f]]
    /\ LiveToken' = [f \in 1 .. MaxTokens |-> LiveToken'[f]]
    /\ EverIssued = [f \in 1 .. MaxTokens |-> EverIssued[f]]
    /\ EverIssued' = [f \in 1 .. MaxTokens |-> EverIssued'[f]]
    /\ \A f \in 1 .. MaxTokens :
          /\ EverIssued[f] = {k \in DOMAIN tokens : tokens[k].family = f}
          /\ EverIssued'[f] = {k \in DOMAIN tokens' : tokens'[k].family = f}
<1>1. LiveToken = [f \in 1 .. MaxTokens |-> LiveToken[f]]
  BY Zenon DEF LiveToken
<1>2. LiveToken' = [f \in 1 .. MaxTokens |-> LiveToken'[f]]
  BY Zenon DEF LiveToken, Family, Live
<1>3. EverIssued = [f \in 1 .. MaxTokens |-> EverIssued[f]]
  BY Zenon DEF EverIssued
<1>4. EverIssued' = [f \in 1 .. MaxTokens |-> EverIssued'[f]]
  BY Zenon DEF EverIssued, Family
<1>5. ASSUME NEW f \in 1 .. MaxTokens
      PROVE  /\ EverIssued[f] = {k \in DOMAIN tokens : tokens[k].family = f}
             /\ EverIssued'[f] = {k \in DOMAIN tokens' : tokens'[k].family = f}
  BY Zenon DEF EverIssued, Family
<1> QED BY <1>1, <1>2, <1>3, <1>4, <1>5

\* At most one token of a family works, so what works is what holds it.
LEMMA OnlyOneWorks ==
    ASSUME OneLiveTokenPerFamily, NEW f, NEW j, NEW k, Works(tokens, f, j), Works(tokens, f, k)
    PROVE  j = k
BY DEF OneLiveTokenPerFamily, Works, Live

LEMMA SameHolder ==
    ASSUME OneLiveTokenPerFamily, NEW f \in 1 .. MaxTokens,
           \A k : Works(tokens', f, k) <=> Works(tokens, f, k)
    PROVE  LiveToken'[f] = LiveToken[f]
BY HolderNow, HolderNext, OnlyOneWorks

\* A login starts the chain of its own number.
LEMMA IssueOnChain ==
    ASSUME Typed, OneLiveTokenPerFamily, NEW r \in Requests, Issue(r)
    PROVE  Chain!Next
<1> DEFINE n == Len(tokens) + 1
<1>1. /\ DOMAIN tokens = 1 .. Len(tokens) /\ DOMAIN tokens' = 1 .. n /\ Len(tokens) \in Nat
      /\ tokens'[n].family = n /\ ~tokens'[n].revoked
      /\ \A j \in DOMAIN tokens : tokens'[j] = tokens[j]
  BY IssueRows DEF Typed, TypeOK
<1>2. /\ n \in 1 .. MaxTokens /\ n # 0 /\ n \notin DOMAIN tokens
      /\ \A j : j \in DOMAIN tokens' <=> j \in DOMAIN tokens \/ j = n
  BY <1>1, TokenAssumption DEF Issue
<1>3. \A j \in DOMAIN tokens : tokens[j].family # n
  BY <1>2 DEF Typed, OnFile
<1> HIDE DEF n
<1>4. ASSUME NEW f, NEW k
      PROVE  Works(tokens', f, k) <=> Works(tokens, f, k) \/ (f = n /\ k = n)
  BY <1>1, <1>2 DEF Works
<1>5. ASSUME NEW f \in 1 .. MaxTokens PROVE LiveToken'[f] = IF f = n THEN n ELSE LiveToken[f]
  <2>1. CASE f = n
    <3>1. \A k : ~Works(tokens, n, k)
      BY <1>3 DEF Works
    <3> QED BY <1>4, <2>1, <3>1, HolderNext
  <2>2. CASE f # n
    BY <1>4, <2>2, SameHolder
  <2> QED BY <2>1, <2>2
<1>6. ASSUME NEW f \in 1 .. MaxTokens
      PROVE  EverIssued'[f] = IF f = n THEN EverIssued[n] \cup {n} ELSE EverIssued[f]
  <2>1. /\ EverIssued[f] = {k \in DOMAIN tokens : tokens[k].family = f}
        /\ EverIssued'[f] = {k \in DOMAIN tokens' : tokens'[k].family = f}
    BY Functions
  <2>2. \A k : k \in EverIssued'[f] <=> k \in EverIssued[f] \/ (f = n /\ k = n)
    BY <1>1, <1>2, <2>1
  <2> QED BY <2>2
<1>7. LiveToken' = [LiveToken EXCEPT ![n] = n]
  BY <1>2, <1>5, OneEntry, Functions
<1>8. EverIssued' = [EverIssued EXCEPT ![n] = @ \cup {n}]
  BY <1>2, <1>6, OneEntry, Functions
<1>9. EverIssued[n] = {}
  BY <1>2, <1>3, Functions
<1>10. LiveToken'[n] = n
  BY <1>2, <1>5
<1> QED BY <1>2, <1>7, <1>8, <1>9, <1>10, HandOnSays

\* A rotation hands the chain of its token on to the new row.
LEMMA RotationOnChain ==
    ASSUME Typed, OneLiveTokenPerFamily, NEW r \in Requests, Knows(r), CommitRotation(r)
    PROVE  Chain!Next
<1> DEFINE k == req[r].token
           n == Len(tokens) + 1
           c == tokens[k].family
<1>1. /\ k \in DOMAIN tokens
      /\ DOMAIN tokens = 1 .. Len(tokens) /\ DOMAIN tokens' = 1 .. n /\ Len(tokens) \in Nat
      /\ tokens'[n] = Successor(tokens[k]) /\ tokens'[k] = Rotated(tokens[k], n)
      /\ \A j \in DOMAIN tokens : j # k => tokens'[j] = tokens[j]
  BY RotationRows DEF Typed, TypeOK
<1>2. /\ tokens'[n].family = c /\ ~tokens'[n].revoked
      /\ tokens'[k].revoked /\ tokens'[k].family = c
  BY <1>1 DEF Successor, Rotated, Typed, TypeOK, TokenRow
<1>3. /\ n # 0 /\ n \notin DOMAIN tokens
      /\ \A j : j \in DOMAIN tokens' <=> j \in DOMAIN tokens \/ j = n
  BY <1>1
<1>4. c \in 1 .. MaxTokens
  <2>1. c \in DOMAIN tokens /\ Len(tokens) < MaxTokens
    BY <1>1 DEF CommitRotation, Typed, OnFile
  <2> QED BY <1>1, <2>1, TokenAssumption
<1>5. Works(tokens, c, k)
  BY <1>1 DEF CommitRotation, Knows, Live, Works
<1> HIDE DEF k, n, c
<1>6. ASSUME NEW f, NEW j
      PROVE  Works(tokens', f, j) <=> (Works(tokens, f, j) /\ j # k) \/ (f = c /\ j = n)
  BY <1>1, <1>2, <1>3 DEF Works
<1>7. ASSUME NEW f \in 1 .. MaxTokens PROVE LiveToken'[f] = IF f = c THEN n ELSE LiveToken[f]
  <2>1. CASE f = c
    <3>1. \A j : Works(tokens', c, j) <=> j = n
      BY <1>5, <1>6, OnlyOneWorks
    <3> QED BY <2>1, <3>1, HolderNext
  <2>2. CASE f # c
    <3>1. \A j : Works(tokens, f, j) => j # k
      BY <1>5, <2>2 DEF Works
    <3> QED BY <1>6, <2>2, <3>1, SameHolder
  <2> QED BY <2>1, <2>2
<1>8. ASSUME NEW f \in 1 .. MaxTokens
      PROVE  EverIssued'[f] = IF f = c THEN EverIssued[c] \cup {n} ELSE EverIssued[f]
  <2>1. /\ EverIssued[f] = {j \in DOMAIN tokens : tokens[j].family = f}
        /\ EverIssued'[f] = {j \in DOMAIN tokens' : tokens'[j].family = f}
    BY Functions
  <2>2. \A j \in DOMAIN tokens : tokens'[j].family = tokens[j].family
    BY <1>1, <1>2 DEF c
  <2>3. \A j : j \in EverIssued'[f] <=> j \in EverIssued[f] \/ (f = c /\ j = n)
    BY <1>2, <1>3, <2>1, <2>2
  <2> QED BY <2>3
<1>9. LiveToken' = [LiveToken EXCEPT ![c] = n]
  BY <1>4, <1>7, OneEntry, Functions
<1>10. EverIssued' = [EverIssued EXCEPT ![c] = @ \cup {n}]
  BY <1>4, <1>8, OneEntry, Functions
<1>11. LiveToken[c] # 0
  <2>1. Works(tokens, c, LiveToken[c])
    BY <1>4, <1>5, HolderNow
  <2> QED BY <1>1, <2>1 DEF Works
<1>12. n \notin EverIssued[c]
  BY <1>3, <1>4, Functions
<1>13. LiveToken'[c] = n
  BY <1>4, <1>7
<1> QED BY <1>3, <1>4, <1>9, <1>10, <1>11, <1>12, <1>13, HandOnSays

\* Every other step can only end chains: what works afterwards worked before.
LEMMA QuietOnChain == ASSUME Typed, OneLiveTokenPerFamily, Quiet PROVE Chain!Next
<1> DEFINE ended == {c \in 1 .. MaxTokens : LiveToken'[c] = 0}
<1>1. /\ DOMAIN tokens' = DOMAIN tokens
      /\ \A j \in DOMAIN tokens : /\ tokens'[j].family = tokens[j].family
                                  /\ tokens[j].revoked => tokens'[j].revoked
  BY DEF Quiet, RowsKept, Kept
<1>2. \A f, j : Works(tokens', f, j) => Works(tokens, f, j)
  BY <1>1 DEF Works
<1>3. ASSUME NEW f \in 1 .. MaxTokens
      PROVE  LiveToken'[f] = IF f \in ended THEN 0 ELSE LiveToken[f]
  BY <1>2, HolderNow, HolderNext, OnlyOneWorks
<1>4. EverIssued' = EverIssued
  <2>1. ASSUME NEW f \in 1 .. MaxTokens PROVE EverIssued'[f] = EverIssued[f]
    <3>1. /\ EverIssued[f] = {k \in DOMAIN tokens : tokens[k].family = f}
          /\ EverIssued'[f] = {k \in DOMAIN tokens' : tokens'[k].family = f}
      BY Functions
    <3> QED BY <1>1, <3>1
  <2> QED BY <2>1, Functions
<1>5. LiveToken' = [c \in 1 .. MaxTokens |-> IF c \in ended THEN 0 ELSE LiveToken[c]]
  <2> HIDE DEF ended
  <2> QED BY <1>3, Functions
<1>6. ended \in SUBSET (1 .. MaxTokens)
  OBVIOUS
<1> HIDE DEF ended
<1> QED BY <1>4, <1>5, <1>6, EndSays

LEMMA StepOnChain == ASSUME Typed, Serial, [Next]_vars PROVE Chain!Next
<1>1. OneLiveTokenPerFamily /\ \A r \in Requests : Knows(r)
  BY DEF Serial, Sound
<1>2. CASE \E r \in Requests : Issue(r) \/ CommitRotation(r)
  BY <1>1, <1>2, IssueOnChain, RotationOnChain
<1>3. CASE \A r \in Requests : ~Issue(r) /\ ~CommitRotation(r)
  BY <1>1, <1>3, QuietSteps, QuietOnChain
<1> QED BY <1>2, <1>3

\* Served one at a time, the requests hand each login on from token to token: a refresh gives
\* a token that never worked before, and a login that has ended is never taken up again, even
\* when handlers die between their writes (TokensService, AuthService).
THEOREM ImplementsTokenChain == ASSUME OneAtATime PROVE Spec => IsTokenChain
<1>1. Init => Chain!Init
  <2> SUFFICES ASSUME Init PROVE Chain!Init
    OBVIOUS
  <2>1. DOMAIN tokens = {}
    BY DEF Init
  <2>2. \A f \in 1 .. MaxTokens : LiveToken[f] = 0
    BY <2>1, HolderNow DEF Works
  <2>3. \A f \in 1 .. MaxTokens : EverIssued[f] = {}
    BY <2>1, Functions
  <2> QED BY <2>2, <2>3, Functions DEF Chain!Init
<1>2. Typed /\ Serial /\ [Next]_vars => [Chain!Next]_(Chain!chain)
  BY StepOnChain
<1> QED BY <1>1, <1>2, AlwaysTyped, AlwaysSerial, PTL DEF Spec, IsTokenChain, Chain!Spec

-----------------------------------------------------------------------------
(* The browser: types.                                                     *)

\* A pair somebody has is on file, and a login begins with its first pair.
Issued ==
    /\ \A t \in Tabs : tab[t].pair <= Len(pairs) /\ tab[t].carried <= Len(pairs)
    /\ disk.pair <= Len(pairs)
    /\ \A n \in DOMAIN pairs : pairs[n].login <= n

Settled == BrowserTypeOK /\ Issued

LEMMA PairsTyped ==
    ASSUME Settled
    PROVE  /\ Len(pairs) \in Nat /\ Len(pairs) <= MaxPairs /\ MaxPairs \in Nat
           /\ DOMAIN pairs = 1 .. Len(pairs)
           /\ \A n \in 1 .. Len(pairs) :
                 /\ pairs[n] \in Pair /\ pairs[n].login \in 1 .. n
                 /\ pairs[n].login \in 1 .. MaxPairs
<1>1. pairs \in Seq(Pair) /\ Len(pairs) <= MaxPairs /\ MaxPairs \in Nat
  BY ClientAssumption DEF Settled, BrowserTypeOK
<1>2. Len(pairs) \in Nat /\ DOMAIN pairs = 1 .. Len(pairs)
  BY <1>1, LenProperties
<1>3. \A n \in 1 .. Len(pairs) : pairs[n] \in Pair
  BY <1>1, <1>2, ElementOfSeq
<1> QED BY <1>1, <1>2, <1>3 DEF Settled, Issued, Pair

LEMMA TabTyped ==
    ASSUME Settled, NEW t \in Tabs
    PROVE  /\ tab[t] \in Tab
           /\ tab[t].pair \in 0 .. Len(pairs) /\ tab[t].carried \in 0 .. Len(pairs)
           /\ tab[t].carried # 0 <=> tab[t].flight \in {"asking", "answered"}
           /\ disk \in Persisted /\ disk.pair \in 0 .. Len(pairs)
<1>1. tab[t] \in Tab /\ disk \in Persisted
  BY DEF Settled, BrowserTypeOK
<1>2. tab[t].pair \in Nat /\ tab[t].carried \in Nat /\ disk.pair \in Nat
  BY <1>1, ClientAssumption DEF Tab, Persisted, Numbers
<1> QED BY <1>1, <1>2, PairsTyped DEF Settled, Issued, BrowserTypeOK

\* A step that writes the store of one tab and issues no pair.
Calm ==
    /\ DOMAIN pairs' = DOMAIN pairs
    /\ \A n \in DOMAIN pairs :
          /\ pairs'[n] \in Pair /\ pairs'[n].login = pairs[n].login
          /\ pairs'[n].refresh = "spent" => pairs[n].refresh = "spent"
          /\ pairs'[n].refresh = "live" => pairs[n].refresh = "live"

LEMMA CalmTyped ==
    ASSUME Settled, Calm, pairs' \in Seq(Pair)
    PROVE  Len(pairs') = Len(pairs) /\ \A n \in DOMAIN pairs' : pairs'[n].login <= n
<1>1. Len(pairs') \in Nat /\ DOMAIN pairs' = 1 .. Len(pairs')
  BY LenProperties
<1>2. Len(pairs') = Len(pairs)
  BY <1>1, PairsTyped DEF Calm
<1> QED BY <1>2 DEF Calm, Settled, Issued

LEMMA SeqOf ==
    ASSUME NEW n \in Nat, NEW S, NEW f, DOMAIN f = 1 .. n, \A k \in 1 .. n : f[k] \in S,
           f = [k \in DOMAIN f |-> f[k]]
    PROVE  f \in Seq(S) /\ Len(f) = n
<1>1. f \in [1 .. n -> S]
  OBVIOUS
<1> QED BY <1>1, LenProperties

LEMMA CallsTyped ==
    ASSUME Settled, NEW c \in Calls
    PROVE  call[c] \in Call /\ IdleCall \in Call /\ call \in [Calls -> Call] /\ 0 \in Numbers
BY ClientAssumption DEF Settled, BrowserTypeOK, IdleCall, Call, Numbers

\* What is left to check of a step that moves one tab.
LEMMA MoveTyped ==
    ASSUME Settled, NEW t \in Tabs, NEW new \in Tab, tab' = [tab EXCEPT ![t] = new],
           new.carried # 0 <=> new.flight \in {"asking", "answered"},
           pairs' \in Seq(Pair), Len(pairs') \in Len(pairs) .. MaxPairs,
           new.pair <= Len(pairs'), new.carried <= Len(pairs'),
           \A n \in DOMAIN pairs' : pairs'[n].login <= n,
           disk' \in Persisted, disk'.pair <= Len(pairs'),
           call' \in [Calls -> Call], mishaps' \subseteq 1 .. MaxPairs
    PROVE  Settled'
<1>1. \A u \in Tabs : tab'[u] = IF u = t THEN new ELSE tab[u]
  BY DEF Settled, BrowserTypeOK
<1>2. tab' \in [Tabs -> Tab]
  BY DEF Settled, BrowserTypeOK
<1>3. \A u \in Tabs : tab'[u].carried # 0 <=> tab'[u].flight \in {"asking", "answered"}
  BY <1>1, TabTyped
<1>4. \A u \in Tabs : tab'[u].pair <= Len(pairs') /\ tab'[u].carried <= Len(pairs')
  <2>1. ASSUME NEW u \in Tabs, u # t PROVE tab'[u].pair <= Len(pairs') /\ tab'[u].carried <= Len(pairs')
    <3>1. tab'[u] = tab[u] /\ tab[u].pair \in 0 .. Len(pairs) /\ tab[u].carried \in 0 .. Len(pairs)
      BY <1>1, <2>1, TabTyped
    <3> QED BY <3>1, PairsTyped
  <2> QED BY <1>1, <2>1
<1>5. Len(pairs') <= MaxPairs
  BY PairsTyped
<1> QED BY <1>2, <1>3, <1>4, <1>5 DEF Settled, BrowserTypeOK, Issued

LEMMA StayTyped ==
    ASSUME Settled, UNCHANGED <<tab, disk, mishaps>>, pairs' \in Seq(Pair), Calm,
           call' \in [Calls -> Call]
    PROVE  Settled'
<1>1. Len(pairs') = Len(pairs) /\ \A n \in DOMAIN pairs' : pairs'[n].login <= n
  BY CalmTyped
<1> QED BY <1>1 DEF Settled, BrowserTypeOK, Issued

\* What an unchanged list of pairs brings.
LEMMA SamePairs ==
    ASSUME Settled, UNCHANGED pairs
    PROVE  /\ Calm /\ pairs' \in Seq(Pair) /\ Len(pairs') \in Len(pairs) .. MaxPairs
           /\ Len(pairs') = Len(pairs) /\ \A n \in DOMAIN pairs' : pairs'[n].login <= n
<1>1. pairs \in Seq(Pair) /\ DOMAIN pairs = 1 .. Len(pairs) /\ Len(pairs) \in Nat
      /\ Len(pairs) <= MaxPairs /\ MaxPairs \in Nat /\ \A n \in DOMAIN pairs : pairs[n] \in Pair
  BY PairsTyped DEF Settled, BrowserTypeOK
<1>2. Len(pairs) \in Len(pairs) .. MaxPairs
  BY <1>1
<1> QED BY <1>1, <1>2 DEF Calm, Settled, Issued

LEMMA LoginTyped ==
    ASSUME Settled, NEW t \in Tabs, SignIn(t)
    PROVE  LET n == Len(pairs) + 1
               new == [tab[t] EXCEPT !.user = TRUE, !.pair = n]
           IN  /\ Settled' /\ n \in 1 .. MaxPairs
               /\ tab' = [tab EXCEPT ![t] = new] /\ disk' = [user |-> TRUE, pair |-> n]
               /\ new.pair = n /\ new.carried = tab[t].carried /\ new.flight = tab[t].flight
               /\ Len(pairs') = n /\ pairs'[n].login = n /\ pairs'[n].refresh = "live"
               /\ \A m \in 1 .. Len(pairs) : pairs'[m] = pairs[m]
               /\ UNCHANGED mishaps
<1> DEFINE n == Len(pairs) + 1
           new == [tab[t] EXCEPT !.user = TRUE, !.pair = n]
           p == [login |-> n, refresh |-> "live", expired |-> FALSE]
<1>1. n \in 1 .. MaxPairs /\ Len(pairs) \in Nat /\ MaxPairs \in Nat /\ Len(pairs) < MaxPairs
  BY PairsTyped DEF SignIn
<1>2. p \in Pair /\ p.login = n /\ p.refresh = "live"
  BY <1>1 DEF Pair
<1>3. pairs' = Append(pairs, p) /\ pairs \in Seq(Pair)
  BY DEF SignIn, Settled, BrowserTypeOK
<1> HIDE DEF p
<1>4. /\ pairs' \in Seq(Pair) /\ Len(pairs') = n /\ pairs'[n] = p
      /\ DOMAIN pairs' = 1 .. n /\ \A m \in 1 .. Len(pairs) : pairs'[m] = pairs[m]
  BY <1>1, <1>2, <1>3, LenProperties
<1>5. tab' = [tab EXCEPT ![t] = new] /\ disk' = [user |-> TRUE, pair |-> n]
  BY DEF SignIn, Save
<1>6. /\ new \in Tab /\ new.pair = n /\ new.carried = tab[t].carried /\ new.flight = tab[t].flight
  <2>1. tab[t] \in Tab /\ n \in Numbers
    BY <1>1, TabTyped DEF Numbers
  <2> HIDE DEF n
  <2> QED BY <2>1 DEF Tab
<1>7. disk' \in Persisted /\ disk'.pair = n
  BY <1>1, <1>5 DEF Persisted, Numbers
<1>8. \A m \in DOMAIN pairs' : pairs'[m].login <= m
  <2>1. \A m \in 1 .. Len(pairs) : pairs[m].login <= m
    BY PairsTyped
  <2>2. \A m \in 1 .. n : m \in 1 .. Len(pairs) \/ m = n
    BY <1>1
  <2> QED BY <1>1, <1>2, <1>4, <2>1, <2>2
<1>9. call' \in [Calls -> Call] /\ mishaps' \subseteq 1 .. MaxPairs /\ UNCHANGED mishaps
  BY DEF SignIn, Settled, BrowserTypeOK
<1>10. tab[t].carried <= n
  BY <1>1, TabTyped
<1>11. Settled'
  <2> HIDE DEF new, n
  <2>1. Len(pairs) <= n /\ n <= MaxPairs
    BY <1>1 DEF n
  <2>2. Len(pairs') \in Len(pairs) .. MaxPairs
    BY <1>1, <1>4, <2>1
  <2>3. new.pair <= Len(pairs') /\ new.carried <= Len(pairs') /\ disk'.pair <= Len(pairs')
    BY <1>1, <1>4, <1>6, <1>7, <1>10
  <2>4. new.carried # 0 <=> new.flight \in {"asking", "answered"}
    BY <1>6, TabTyped
  <2> QED BY <1>4, <1>5, <1>6, <1>7, <1>8, <1>9, <2>2, <2>3, <2>4, MoveTyped
<1> QED BY <1>1, <1>2, <1>4, <1>5, <1>6, <1>9, <1>11

LEMMA RotateTyped ==
    ASSUME Settled, NEW t \in Tabs, Rotate(t)
    PROVE  LET n == tab[t].carried
               m == Len(pairs) + 1
               new == [tab[t] EXCEPT !.flight = "answered", !.carried = m]
           IN  /\ Settled' /\ n \in 1 .. Len(pairs) /\ m \in 1 .. MaxPairs
               /\ tab[t].flight = "asking"
               /\ tab' = [tab EXCEPT ![t] = new] /\ UNCHANGED <<disk, mishaps>>
               /\ new.pair = tab[t].pair /\ new.carried = m /\ new.flight = "answered"
               /\ Len(pairs') = m /\ pairs'[m].login = pairs[n].login
               /\ pairs'[m].refresh = "live" /\ pairs'[n].refresh = "spent"
               /\ \A k \in 1 .. Len(pairs) :
                     /\ pairs'[k].login = pairs[k].login
                     /\ k # n => pairs'[k] = pairs[k]
<1> DEFINE n == tab[t].carried
           m == Len(pairs) + 1
           new == [tab[t] EXCEPT !.flight = "answered", !.carried = m]
           spent == [pairs[n] EXCEPT !.refresh = "spent"]
           old == [pairs EXCEPT ![n] = spent]
           p == [login |-> LoginOf(n), refresh |-> "live", expired |-> FALSE]
<1>1. /\ m \in 1 .. MaxPairs /\ Len(pairs) \in Nat /\ MaxPairs \in Nat /\ Len(pairs) < MaxPairs
      /\ n \in 1 .. Len(pairs) /\ tab[t].flight = "asking" /\ DOMAIN pairs = 1 .. Len(pairs)
  BY PairsTyped, TabTyped DEF Rotate
<1>2. /\ spent \in Pair /\ spent.login = pairs[n].login /\ spent.refresh = "spent"
      /\ pairs[n].login \in 1 .. MaxPairs /\ pairs[n].login <= n
  <2>1. pairs[n] \in Pair /\ pairs[n].login \in 1 .. MaxPairs /\ pairs[n].login \in 1 .. n
    BY <1>1, PairsTyped
  <2> HIDE DEF n
  <2> QED BY <2>1 DEF Pair
<1>3. p \in Pair /\ p.login = pairs[n].login /\ p.refresh = "live"
  BY <1>2 DEF Pair, LoginOf
<1>4. pairs' = Append(old, p) /\ pairs \in Seq(Pair)
  BY DEF Rotate, SpentPair, Settled, BrowserTypeOK
<1> HIDE DEF p, spent
<1>5. /\ old \in Seq(Pair) /\ Len(old) = Len(pairs) /\ old[n].refresh = "spent"
      /\ \A k \in 1 .. Len(pairs) : old[k].login = pairs[k].login /\ (k # n => old[k] = pairs[k])
  <2> HIDE DEF n
  <2>1. DOMAIN old = 1 .. Len(pairs) /\ \A k \in 1 .. Len(pairs) : old[k] = IF k = n THEN spent ELSE pairs[k]
    BY <1>1
  <2>2. \A k \in 1 .. Len(pairs) : old[k] \in Pair
    BY <1>2, <2>1, PairsTyped
  <2>3. old = [k \in DOMAIN old |-> old[k]]
    BY <1>4
  <2> HIDE DEF old
  <2>4. old \in Seq(Pair) /\ Len(old) = Len(pairs)
    BY <1>1, <2>1, <2>2, <2>3, SeqOf
  <2> QED BY <1>1, <1>2, <2>1, <2>4
<1> HIDE DEF old
<1>6. /\ pairs' \in Seq(Pair) /\ Len(pairs') = m /\ pairs'[m] = p
      /\ DOMAIN pairs' = 1 .. m /\ \A k \in 1 .. Len(pairs) : pairs'[k] = old[k]
  BY <1>1, <1>3, <1>4, <1>5, LenProperties
<1>7. tab' = [tab EXCEPT ![t] = new] /\ UNCHANGED <<disk, mishaps, call>>
  BY DEF Rotate
<1>8. new \in Tab /\ new.pair = tab[t].pair /\ new.carried = m /\ new.flight = "answered"
  <2>1. tab[t] \in Tab /\ m \in Numbers
    BY <1>1, TabTyped DEF Numbers
  <2> HIDE DEF m
  <2> QED BY <2>1 DEF Tab, Flights
<1>9. \A k \in DOMAIN pairs' : pairs'[k].login <= k
  <2>1. \A k \in 1 .. Len(pairs) : pairs[k].login <= k
    BY PairsTyped
  <2>2. \A k \in 1 .. m : k \in 1 .. Len(pairs) \/ k = m
    BY <1>1
  <2>3. pairs[n].login <= m
    BY <1>1, <1>2
  <2> QED BY <1>3, <1>5, <1>6, <2>1, <2>2, <2>3
<1>10. tab[t].pair <= m /\ disk.pair <= m
  BY <1>1, TabTyped
<1>11. Settled'
  <2>1. Len(pairs') \in Len(pairs) .. MaxPairs /\ m # 0
    BY <1>1, <1>6
  <2>2. disk' \in Persisted /\ call' \in [Calls -> Call] /\ mishaps' \subseteq 1 .. MaxPairs /\ disk'.pair <= m
    BY <1>7, <1>10 DEF Settled, BrowserTypeOK
  <2>3. m <= m
    BY <1>1
  <2> HIDE DEF new, m
  <2> QED BY <1>6, <1>7, <1>8, <1>9, <1>10, <2>1, <2>2, <2>3, MoveTyped
<1> QED BY <1>1, <1>3, <1>5, <1>6, <1>7, <1>8, <1>11

LEMMA CalmMove ==
    ASSUME Settled, NEW t \in Tabs, NEW new \in Tab, tab' = [tab EXCEPT ![t] = new],
           new.carried # 0 <=> new.flight \in {"asking", "answered"},
           pairs' \in Seq(Pair), Calm,
           new.pair \in 0 .. Len(pairs), new.carried \in 0 .. Len(pairs),
           disk' \in Persisted, disk'.pair \in 0 .. Len(pairs),
           call' \in [Calls -> Call], mishaps' \subseteq 1 .. MaxPairs
    PROVE  Settled' /\ \A u \in Tabs : tab'[u] = IF u = t THEN new ELSE tab[u]
<1>1. Len(pairs') = Len(pairs) /\ \A n \in DOMAIN pairs' : pairs'[n].login <= n
  BY CalmTyped
<1>2. Len(pairs') \in Len(pairs) .. MaxPairs
  BY <1>1, PairsTyped
<1>3. new.pair <= Len(pairs') /\ new.carried <= Len(pairs') /\ disk'.pair <= Len(pairs')
  BY <1>1, PairsTyped
<1>4. Settled'
  BY <1>1, <1>2, <1>3, MoveTyped
<1> QED BY <1>4 DEF Settled, BrowserTypeOK

\* Revoking refresh tokens is calm.
LEMMA RevokingCalm ==
    ASSUME Settled, NEW R,
           pairs' = [n \in DOMAIN pairs |-> IF n \in R THEN [pairs[n] EXCEPT !.refresh = "revoked"]
                                           ELSE pairs[n]]
    PROVE  Calm /\ pairs' \in Seq(Pair)
<1>1. \A n \in DOMAIN pairs : [pairs[n] EXCEPT !.refresh = "revoked"] \in Pair
                              /\ [pairs[n] EXCEPT !.refresh = "revoked"].login = pairs[n].login
                              /\ [pairs[n] EXCEPT !.refresh = "revoked"].refresh = "revoked"
  BY PairsTyped DEF Pair
<1>2. Calm
  BY <1>1, PairsTyped DEF Calm
<1>3. pairs' = [k \in DOMAIN pairs' |-> pairs'[k]] /\ DOMAIN pairs' = 1 .. Len(pairs)
      /\ \A k \in 1 .. Len(pairs) : pairs'[k] \in Pair
  BY <1>2, PairsTyped DEF Calm
<1> QED BY <1>2, <1>3, PairsTyped, SeqOf

LEMMA SendTyped ==
    ASSUME Settled, NEW c \in Calls, NEW t \in Tabs, NEW logout \in BOOLEAN, Send(c, t, logout)
    PROVE  Settled' /\ UNCHANGED <<tab, disk, pairs, mishaps>>
<1> DEFINE new == [stage |-> "sent", logout |-> logout, tab |-> {t}, header |-> tab[t].pair,
                   body |-> IF logout THEN tab[t].pair ELSE 0]
<1>1. UNCHANGED <<tab, disk, pairs, mishaps>> /\ call' = [call EXCEPT ![c] = new]
  BY DEF Send
<1>2. new \in Call
  <2>1. tab[t].pair \in Numbers /\ 0 \in Numbers
    BY TabTyped, CallsTyped DEF Tab
  <2> QED BY <2>1 DEF Call
<1>3. call' \in [Calls -> Call]
  BY <1>1, <1>2, CallsTyped
<1> QED BY <1>1, <1>3, SamePairs, StayTyped

LEMMA JoinTyped ==
    ASSUME Settled, NEW c \in Calls, NEW t \in Tabs, JoinRefresh(c, t)
    PROVE  Settled' /\ UNCHANGED <<tab, disk, pairs, mishaps>>
<1> DEFINE new == [call[c] EXCEPT !.stage = "waiting", !.header = 0]
<1>1. UNCHANGED <<tab, disk, pairs, mishaps>> /\ call' = [call EXCEPT ![c] = new]
  BY CallsTyped DEF JoinRefresh, Refused
<1>2. new \in Call
  BY CallsTyped DEF Call
<1>3. call' \in [Calls -> Call]
  BY <1>1, <1>2, CallsTyped
<1> QED BY <1>1, <1>3, SamePairs, StayTyped

LEMMA ExpireTyped ==
    ASSUME Settled, NEW n \in DOMAIN pairs, Expire(n)
    PROVE  Settled' /\ Calm /\ UNCHANGED <<tab, disk, mishaps>>
<1> DEFINE new == [pairs[n] EXCEPT !.expired = TRUE]
<1>1. pairs' = [pairs EXCEPT ![n] = new] /\ UNCHANGED <<tab, disk, call, mishaps>>
  BY DEF Expire
<1>2. new \in Pair /\ new.login = pairs[n].login /\ new.refresh = pairs[n].refresh
  BY PairsTyped DEF Pair
<1> HIDE DEF new
<1>3. Calm
  BY <1>1, <1>2, PairsTyped DEF Calm
<1>4. pairs' = [k \in DOMAIN pairs' |-> pairs'[k]] /\ DOMAIN pairs' = 1 .. Len(pairs)
      /\ \A k \in 1 .. Len(pairs) : pairs'[k] \in Pair
  BY <1>1, <1>3, PairsTyped DEF Calm
<1>5. pairs' \in Seq(Pair)
  BY <1>4, PairsTyped, SeqOf
<1>6. call' \in [Calls -> Call]
  BY <1>1 DEF Settled, BrowserTypeOK
<1> QED BY <1>1, <1>3, <1>5, <1>6, StayTyped

\* A request that ends: its tab keeps its store or, after a logout, clears it.
Dropped(t) ==
    /\ tab'[t].pair \in {0, tab[t].pair} /\ tab'[t].carried = tab[t].carried
    /\ tab'[t].flight = "answered" <=> tab[t].flight = "answered"
    /\ tab'[t].flight = "asking" <=> tab[t].flight = "asking"
    /\ \A u \in Tabs \ {t} : tab'[u] = tab[u]
    /\ disk' = disk \/ disk'.pair = 0
    /\ UNCHANGED mishaps

LEMMA EmptyTyped ==
    ASSUME Settled, NEW t \in Tabs
    PROVE  /\ Empty \in Persisted /\ Empty.pair = 0
           /\ [tab[t] EXCEPT !.user = FALSE, !.pair = 0] \in Tab
           /\ Loaded(Empty) \in Tab
<1>1. 0 \in Numbers
  BY ClientAssumption DEF Numbers
<1>2. Empty \in Persisted /\ Empty.pair = 0 /\ Empty.user = FALSE
  BY <1>1 DEF Empty, Persisted
<1>3. Loaded(Empty) \in Tab
  BY <1>1, <1>2 DEF Loaded, Tab, Flights
<1>4. [tab[t] EXCEPT !.user = FALSE, !.pair = 0] \in Tab
  BY <1>1, TabTyped DEF Tab
<1> QED BY <1>2, <1>3, <1>4

LEMMA SettleTyped ==
    ASSUME Settled, NEW c \in Calls, NEW t \in Tabs, Settle(c, t), Calm, pairs' \in Seq(Pair),
           UNCHANGED mishaps
    PROVE  Settled' /\ Dropped(t)
<1>1. call' \in [Calls -> Call] /\ mishaps' \subseteq 1 .. MaxPairs
  BY CallsTyped DEF Settle, Settled, BrowserTypeOK
<1>2. CASE UNCHANGED <<tab, disk>>
  <2>1. Settled'
    BY <1>1, <1>2, StayTyped
  <2> QED BY <1>2, <2>1 DEF Dropped
<1>3. CASE Save(t, Empty)
  <2> DEFINE new == [tab[t] EXCEPT !.user = FALSE, !.pair = 0]
  <2>1. tab' = [tab EXCEPT ![t] = new] /\ disk' = Empty
    BY <1>3 DEF Save, Empty
  <2>2. new \in Tab /\ new.pair = 0 /\ new.carried = tab[t].carried /\ new.flight = tab[t].flight
    BY EmptyTyped, TabTyped DEF Tab
  <2>3. 0 \in 0 .. Len(pairs)
    BY PairsTyped
  <2> HIDE DEF new
  <2>a. /\ new.carried # 0 <=> new.flight \in {"asking", "answered"}
        /\ new.pair \in 0 .. Len(pairs) /\ new.carried \in 0 .. Len(pairs)
    BY <2>2, <2>3, TabTyped
  <2>b. disk' \in Persisted /\ disk'.pair \in 0 .. Len(pairs)
    BY <2>1, <2>3, EmptyTyped
  <2>4. Settled' /\ \A u \in Tabs : tab'[u] = IF u = t THEN new ELSE tab[u]
    BY <1>1, <2>1, <2>2, <2>a, <2>b, CalmMove
  <2> QED BY <2>1, <2>2, <2>4, EmptyTyped DEF Dropped
<1> QED BY <1>2, <1>3 DEF Settle

LEMMA AnswerTyped ==
    ASSUME Settled, NEW c \in Calls, NEW t \in Tabs, Accepted(c, t) \/ Rejected(c, t)
    PROVE  Settled' /\ Calm /\ Dropped(t)
<1>1. CASE Accepted(c, t)
  <2> DEFINE R == {n \in DOMAIN pairs : n = call[c].body /\ pairs[n].refresh = "live"}
  <2>1. pairs' = [n \in DOMAIN pairs |-> IF n \in R THEN [pairs[n] EXCEPT !.refresh = "revoked"]
                                         ELSE pairs[n]]
    BY <1>1 DEF Accepted
  <2>2. Calm /\ pairs' \in Seq(Pair)
    BY <2>1, RevokingCalm
  <2> QED BY <1>1, <2>2, SettleTyped DEF Accepted
<1>2. CASE Rejected(c, t)
  BY <1>2, SamePairs, SettleTyped DEF Rejected
<1> QED BY <1>1, <1>2

LEMMA GiveUpTyped ==
    ASSUME Settled, NEW c \in Calls, NEW t \in Tabs, GiveUp(c, t)
    PROVE  Settled' /\ Calm /\ Dropped(t)
<1> DEFINE base == IF call[c].logout THEN Loaded(Empty) ELSE tab[t]
           new == [base EXCEPT !.flight = "stuck"]
<1>1. /\ tab' = [tab EXCEPT ![t] = new] /\ UNCHANGED <<pairs, mishaps>>
      /\ call' = [call EXCEPT ![c] = IdleCall] /\ disk' = (IF call[c].logout THEN Empty ELSE disk)
      /\ tab[t].flight \in {"stuck", "none"}
  BY DEF GiveUp, Refused, MustAsk
<1>2. /\ base \in Tab /\ base.pair \in {0, tab[t].pair} /\ base.carried = 0 /\ tab[t].carried = 0
  BY <1>1, EmptyTyped, TabTyped DEF Loaded, Empty
<1> HIDE DEF base
<1>3. new \in Tab /\ new.pair = base.pair /\ new.carried = 0 /\ new.flight = "stuck"
  BY <1>2 DEF Tab, Flights
<1> HIDE DEF new
<1>4. disk' \in Persisted /\ (disk' = disk \/ disk'.pair = 0) /\ disk'.pair \in 0 .. Len(pairs)
      /\ new.pair \in 0 .. Len(pairs) /\ 0 \in 0 .. Len(pairs)
  BY <1>1, <1>2, <1>3, EmptyTyped, TabTyped, PairsTyped
<1>5. call' \in [Calls -> Call] /\ mishaps' \subseteq 1 .. MaxPairs
  BY <1>1, CallsTyped DEF Settled, BrowserTypeOK
<1>6. Settled' /\ \A u \in Tabs : tab'[u] = IF u = t THEN new ELSE tab[u]
  BY <1>1, <1>3, <1>4, <1>5, SamePairs, CalmMove
<1> QED BY <1>1, <1>2, <1>3, <1>4, <1>6, SamePairs DEF Dropped

LEMMA StartTyped ==
    ASSUME Settled, NEW c \in Calls, NEW t \in Tabs, StartRefresh(c, t)
    PROVE  /\ Settled' /\ Calm /\ UNCHANGED <<disk, mishaps>>
           /\ tab[t].flight = "none" /\ tab'[t].flight = "asking"
           /\ tab'[t].pair = tab[t].pair /\ tab'[t].carried = tab[t].pair
           /\ \A u \in Tabs \ {t} : tab'[u] = tab[u]
<1> DEFINE new == [tab[t] EXCEPT !.flight = "asking", !.carried = tab[t].pair]
           row == [call[c] EXCEPT !.stage = "waiting", !.header = 0]
<1>1. /\ tab' = [tab EXCEPT ![t] = new] /\ UNCHANGED <<disk, pairs, mishaps>>
      /\ call' = [call EXCEPT ![c] = row] /\ tab[t].flight = "none" /\ tab[t].pair # 0
  BY DEF StartRefresh, Refused, MustAsk
<1>2. /\ new \in Tab /\ new.pair = tab[t].pair /\ new.carried = tab[t].pair
      /\ new.flight = "asking"
  BY TabTyped DEF Tab, Flights
<1>3. row \in Call
  BY CallsTyped DEF Call
<1> HIDE DEF row
<1>4. call' \in [Calls -> Call] /\ mishaps' \subseteq 1 .. MaxPairs
  BY <1>1, <1>3, CallsTyped DEF Settled, BrowserTypeOK
<1> HIDE DEF new
<1>5. Settled' /\ \A u \in Tabs : tab'[u] = IF u = t THEN new ELSE tab[u]
  BY <1>1, <1>2, <1>4, SamePairs, TabTyped, CalmMove
<1> QED BY <1>1, <1>2, <1>5, SamePairs

\* A refresh that comes to nothing.
LEMMA FailedTyped ==
    ASSUME Settled, NEW t \in Tabs, tab' = [tab EXCEPT ![t].flight = "failed", ![t].carried = 0],
           UNCHANGED <<disk, call>>, Calm, pairs' \in Seq(Pair), mishaps' \subseteq 1 .. MaxPairs
    PROVE  /\ Settled' /\ tab'[t].flight = "failed" /\ tab'[t].carried = 0
           /\ tab'[t].pair = tab[t].pair /\ \A u \in Tabs \ {t} : tab'[u] = tab[u]
<1> DEFINE new == [tab[t] EXCEPT !.flight = "failed", !.carried = 0]
<1>1. tab' = [tab EXCEPT ![t] = new]
  OBVIOUS
<1>2. 0 \in Numbers /\ 0 \in 0 .. Len(pairs)
  BY PairsTyped DEF Numbers
<1>3. new \in Tab /\ new.pair = tab[t].pair /\ new.carried = 0 /\ new.flight = "failed"
  BY <1>2, TabTyped DEF Tab, Flights
<1>4. call' \in [Calls -> Call]
  BY DEF Settled, BrowserTypeOK
<1> HIDE DEF new
<1>5. /\ disk' \in Persisted /\ disk'.pair \in 0 .. Len(pairs) /\ new.pair \in 0 .. Len(pairs)
      /\ new.carried # 0 <=> new.flight \in {"asking", "answered"}
  BY <1>3, TabTyped
<1>6. Settled' /\ \A u \in Tabs : tab'[u] = IF u = t THEN new ELSE tab[u]
  BY <1>1, <1>2, <1>3, <1>4, <1>5, CalmMove
<1> QED BY <1>3, <1>6

LEMMA RefuseTyped ==
    ASSUME Settled, NEW t \in Tabs, Refuse(t)
    PROVE  /\ Settled' /\ Calm /\ UNCHANGED <<disk, mishaps>>
           /\ tab[t].flight = "asking" /\ tab'[t].flight = "failed" /\ tab'[t].carried = 0
           /\ tab'[t].pair = tab[t].pair /\ \A u \in Tabs \ {t} : tab'[u] = tab[u]
<1> DEFINE n == tab[t].carried
           R == {m \in DOMAIN pairs : IsReuse(t) /\ LoginOf(m) = LoginOf(n) /\ pairs[m].refresh = "live"}
<1>1. pairs' = [m \in DOMAIN pairs |-> IF m \in R THEN [pairs[m] EXCEPT !.refresh = "revoked"]
                                       ELSE pairs[m]]
  BY DEF Refuse
<1> HIDE DEF R
<1>2. Calm /\ pairs' \in Seq(Pair)
  BY <1>1, RevokingCalm
<1>3. mishaps' \subseteq 1 .. MaxPairs
  BY DEF Refuse, Settled, BrowserTypeOK
<1> QED BY <1>2, <1>3, FailedTyped DEF Refuse

LEMMA LoginsTyped ==
    ASSUME Settled
    PROVE  \A n \in 0 .. Len(pairs) : n # 0 => LoginOf(n) \in 1 .. MaxPairs
BY PairsTyped DEF LoginOf

LEMMA LoseTyped ==
    ASSUME Settled, NEW t \in Tabs, LoseRefresh(t)
    PROVE  /\ Settled' /\ Calm /\ UNCHANGED disk /\ mishaps \subseteq mishaps'
           /\ tab[t].flight = "answered" => LoginOf(tab[t].carried) \in mishaps'
           /\ tab'[t].flight = "failed" /\ tab'[t].carried = 0
           /\ tab'[t].pair = tab[t].pair /\ \A u \in Tabs \ {t} : tab'[u] = tab[u]
<1>1. /\ mishaps' = mishaps \cup (IF tab[t].flight = "answered" THEN {LoginOf(tab[t].carried)} ELSE {})
      /\ UNCHANGED <<disk, call, pairs>>
      /\ tab' = [tab EXCEPT  ![t].flight = "failed", ![t].carried = 0]
  BY DEF LoseRefresh
<1>2. tab[t].flight = "answered" => LoginOf(tab[t].carried) \in 1 .. MaxPairs
  BY TabTyped, LoginsTyped
<1>3. mishaps' \subseteq 1 .. MaxPairs
  BY <1>1, <1>2 DEF Settled, BrowserTypeOK
<1> QED BY <1>1, <1>3, SamePairs, FailedTyped

LEMMA TakeTyped ==
    ASSUME Settled, NEW t \in Tabs, TakeTokens(t)
    PROVE  /\ Settled' /\ Calm /\ UNCHANGED mishaps /\ disk'.pair = tab[t].carried
           /\ tab[t].flight = "answered" /\ tab'[t].flight = "none" /\ tab'[t].carried = 0
           /\ tab'[t].pair = tab[t].carried /\ \A u \in Tabs \ {t} : tab'[u] = tab[u]
<1> DEFINE n == tab[t].carried
           new == [Cleared(t) EXCEPT !.pair = n]
<1>1. /\ tab' = [tab EXCEPT ![t] = new] /\ disk' = [user |-> tab[t].user, pair |-> n]
      /\ UNCHANGED <<pairs, mishaps>> /\ tab[t].flight = "answered"
  BY DEF TakeTokens
<1>2. /\ n \in Numbers /\ n \in 0 .. Len(pairs) /\ 0 \in Numbers /\ 0 \in 0 .. Len(pairs)
      /\ tab[t].user \in BOOLEAN
  BY TabTyped, PairsTyped DEF Tab, Numbers
<1>3. disk' \in Persisted /\ disk'.pair = n
  BY <1>1, <1>2 DEF Persisted
<1>4. new \in Tab /\ new.pair = n /\ new.carried = 0 /\ new.flight = "none"
  <2> HIDE DEF n
  <2> QED BY <1>2, TabTyped DEF Cleared, Tab, Flights
<1>5. call' \in [Calls -> Call] /\ mishaps' \subseteq 1 .. MaxPairs
  <2>1. \A c \in Calls : [call[c] EXCEPT !.stage = "resent", !.header = n] \in Call
    <3> HIDE DEF n
    <3> QED BY <1>2, CallsTyped DEF Call
  <2>2. call' = [c \in Calls |-> IF c \in Waiting(t)
                                 THEN [call[c] EXCEPT !.stage = "resent", !.header = n]
                                 ELSE call[c]]
    BY DEF TakeTokens
  <2> QED BY <1>1, <2>1, <2>2, CallsTyped DEF Settled, BrowserTypeOK
<1> HIDE DEF new
<1>6. Settled' /\ \A u \in Tabs : tab'[u] = IF u = t THEN new ELSE tab[u]
  BY <1>1, <1>2, <1>3, <1>4, <1>5, SamePairs, CalmMove
<1> QED BY <1>1, <1>3, <1>4, <1>6, SamePairs

LEMMA SignOutTyped ==
    ASSUME Settled, NEW t \in Tabs, SignOut(t)
    PROVE  /\ Settled' /\ Calm /\ Dropped(t)
<1> DEFINE new == [Cleared(t) EXCEPT !.user = FALSE, !.pair = 0]
<1>1. /\ tab' = [tab EXCEPT ![t] = new] /\ disk' = Empty /\ UNCHANGED <<pairs, mishaps>>
      /\ tab[t].flight = "failed" /\ call' = Rejects(t)
  BY DEF SignOut
<1>2. 0 \in Numbers /\ 0 \in 0 .. Len(pairs) /\ tab[t].carried = 0
  BY <1>1, TabTyped, PairsTyped DEF Numbers
<1>3. new \in Tab /\ new.pair = 0 /\ new.carried = 0 /\ new.flight = "none"
  BY <1>2, TabTyped DEF Cleared, Tab, Flights
<1>4. call' \in [Calls -> Call] /\ mishaps' \subseteq 1 .. MaxPairs
  BY <1>1, CallsTyped DEF Rejects, Settled, BrowserTypeOK
<1> HIDE DEF new
<1>5. Settled' /\ \A u \in Tabs : tab'[u] = IF u = t THEN new ELSE tab[u]
  BY <1>1, <1>2, <1>3, <1>4, SamePairs, EmptyTyped, CalmMove
<1> QED BY <1>1, <1>2, <1>3, <1>5, SamePairs, EmptyTyped DEF Dropped

\* A reload takes the store from disk, and puts down what it lost and what it copied.
LEMMA ReloadTyped ==
    ASSUME Settled, NEW t \in Tabs, Reload(t)
    PROVE  /\ Settled' /\ Calm /\ UNCHANGED disk /\ mishaps \subseteq mishaps'
           /\ tab[t].carried # 0 => LoginOf(tab[t].carried) \in mishaps'
           /\ disk.pair # 0 => \A u \in Tabs \ {t} :
                 LoginOf(disk.pair) \in Holds(u) => LoginOf(disk.pair) \in mishaps'
           /\ tab'[t].flight = "none" /\ tab'[t].carried = 0
           /\ tab'[t].pair = disk.pair /\ \A u \in Tabs \ {t} : tab'[u] = tab[u]
<1> DEFINE new == Loaded(disk)
           all == UNION {Holds(u) : u \in Tabs \ {t}}
           copied == {l \in all : disk.pair # 0 /\ l = LoginOf(disk.pair)}
           lost == IF tab[t].carried # 0 THEN {LoginOf(tab[t].carried)} ELSE {}
<1>1. /\ tab' = [tab EXCEPT ![t] = new] /\ UNCHANGED <<disk, pairs>>
      /\ mishaps' = mishaps \cup copied \cup lost
      /\ call' = [c \in Calls |-> IF Of(c, t) THEN IdleCall ELSE call[c]]
  BY DEF Reload
<1>2. 0 \in Numbers /\ 0 \in 0 .. Len(pairs) /\ disk \in Persisted /\ disk.pair \in 0 .. Len(pairs)
  BY TabTyped, PairsTyped DEF Numbers
<1>3. new \in Tab /\ new.pair = disk.pair /\ new.carried = 0 /\ new.flight = "none"
  BY <1>2 DEF Loaded, Tab, Persisted, Flights
<1>4. copied \subseteq 1 .. MaxPairs /\ lost \subseteq 1 .. MaxPairs
  BY <1>2, TabTyped, LoginsTyped
<1>5. \A u \in Tabs \ {t} : disk.pair # 0 /\ LoginOf(disk.pair) \in Holds(u)
                             => LoginOf(disk.pair) \in copied
  OBVIOUS
<1>6. tab[t].carried # 0 => LoginOf(tab[t].carried) \in lost
  OBVIOUS
<1> HIDE DEF copied, lost, new
<1>7. call' \in [Calls -> Call] /\ mishaps' \subseteq 1 .. MaxPairs
  BY <1>1, <1>4, CallsTyped DEF Settled, BrowserTypeOK
<1>8. Settled' /\ \A u \in Tabs : tab'[u] = IF u = t THEN new ELSE tab[u]
  BY <1>1, <1>2, <1>3, <1>7, SamePairs, CalmMove
<1> QED BY <1>1, <1>3, <1>5, <1>6, <1>8, SamePairs

LEMMA StepSettled == Settled /\ [BrowserNext]_browserVars => Settled'
<1> SUFFICES ASSUME Settled, [BrowserNext]_browserVars PROVE Settled'
  OBVIOUS
<1>1. ASSUME NEW t \in Tabs, SignIn(t) \/ Reload(t) \/ Exchanges(t) PROVE Settled'
  BY <1>1, LoginTyped, ReloadTyped, RotateTyped, RefuseTyped, LoseTyped, TakeTyped, SignOutTyped
     DEF Exchanges
<1>2. ASSUME NEW c \in Calls, NEW t \in Tabs, Settles(c, t) PROVE Settled'
  BY <1>2, AnswerTyped, JoinTyped, StartTyped, GiveUpTyped DEF Settles
<1>3. CASE UNCHANGED browserVars
  BY <1>3 DEF browserVars, Settled, BrowserTypeOK, Issued
<1> QED BY <1>1, <1>2, <1>3, SendTyped, ExpireTyped DEF BrowserNext

LEMMA InitSettled == BrowserInit => Settled
<1> SUFFICES ASSUME BrowserInit PROVE Settled
  OBVIOUS
<1>1. 0 \in Numbers
  BY ClientAssumption DEF Numbers
<1>2. Empty \in Persisted /\ Loaded(Empty) \in Tab /\ Empty.pair = 0
      /\ Loaded(Empty).pair = 0 /\ Loaded(Empty).carried = 0 /\ Loaded(Empty).flight = "none"
  BY <1>1 DEF Empty, Persisted, Loaded, Tab, Flights
<1>3. IdleCall \in Call
  BY <1>1 DEF IdleCall, Call
<1>4. pairs \in Seq(Pair) /\ Len(pairs) = 0 /\ DOMAIN pairs = {} /\ 0 <= MaxPairs
  BY ClientAssumption DEF BrowserInit
<1>5. BrowserTypeOK
  BY <1>2, <1>3, <1>4 DEF BrowserInit, BrowserTypeOK
<1> QED BY <1>2, <1>4, <1>5 DEF BrowserInit, Settled, Issued

-----------------------------------------------------------------------------
(* The browser: who holds which login, and which pairs are spent.          *)

Unspent(n) == pairs[n].refresh # "spent" \/ LoginOf(n) \in mishaps

\* The answer that renews a login is on its way to the tab.
Renewing(t, login) == tab[t].flight = "answered" /\ LoginOf(tab[t].carried) = login

FreshRefresh(t) == tab[t].carried # 0 => Unspent(tab[t].carried)
FreshStore(t) ==
    tab[t].pair # 0 => Unspent(tab[t].pair) \/ Renewing(t, LoginOf(tab[t].pair))
FreshDisk ==
    disk.pair # 0 => Unspent(disk.pair) \/ \E t \in Tabs : Renewing(t, LoginOf(disk.pair))

\* A login without a mishap is in one tab; what that tab presents is unspent, and what a
\* store has is unspent too, or about to be replaced.
OneHolder == \A t, u \in Tabs : t # u => Holds(t) \cap Holds(u) \subseteq mishaps

FreshPairs ==
    /\ OneHolder
    /\ \A t \in Tabs : FreshRefresh(t) /\ FreshStore(t)
    /\ FreshDisk

\* After a step of tab t: the pairs on file keep their login, and those that it spent are of
\* the login that t is renewing.
PairsKept(t) ==
    \A n \in 1 .. Len(pairs) :
        /\ pairs'[n].login = pairs[n].login
        /\ pairs'[n].refresh = "spent" =>
              \/ pairs[n].refresh = "spent"
              \/ tab'[t].flight = "answered" /\ tab'[t].carried # 0
                 /\ pairs'[tab'[t].carried].login = pairs[n].login

LEMMA CalmKept ==
    ASSUME Settled, Calm, NEW t \in Tabs
    PROVE  PairsKept(t)
BY PairsTyped DEF Calm, PairsKept

\* What the other tabs hold and are given does not change.
LEMMA OthersKeep ==
    ASSUME Settled, NEW t \in Tabs, PairsKept(t), NEW u \in Tabs, tab'[u] = tab[u]
    PROVE  Holds(u)' = Holds(u) /\ \A l : Renewing(u, l) => Renewing(u, l)'
<1>1. \A n \in {tab[u].pair, tab[u].carried} \ {0} : pairs'[n].login = pairs[n].login
  BY TabTyped, PairsTyped DEF PairsKept
<1>2. Holds(u)' = Holds(u)
  BY <1>1 DEF Holds
<1>3. ASSUME NEW l, Renewing(u, l) PROVE Renewing(u, l)'
  <2>1. tab[u].carried # 0 /\ tab'[u].flight = "answered" /\ pairs[tab[u].carried].login = l
    BY <1>3, TabTyped DEF Renewing, LoginOf
  <2>2. pairs'[tab'[u].carried].login = l
    BY <1>1, <2>1
  <2> QED BY <2>1, <2>2 DEF Renewing, LoginOf
<1> QED BY <1>2, <1>3

\* A pair of another tab is still unspent, for two tabs hold one login only after a mishap.
LEMMA OthersUnspent ==
    ASSUME Settled, NEW t \in Tabs, PairsKept(t), mishaps \subseteq mishaps',
           NEW u \in Tabs, tab'[u] = tab[u], Holds(t)' \cap Holds(u) \subseteq mishaps',
           NEW n, n \in {tab[u].pair, tab[u].carried}, n # 0, Unspent(n)
    PROVE  Unspent(n)'
<1>1. n \in 1 .. Len(pairs) /\ pairs[n].login \in Holds(u)
  BY TabTyped DEF Holds
<1>2. pairs'[n].login = pairs[n].login
  BY <1>1 DEF PairsKept
<1>3. CASE pairs'[n].refresh # "spent"
  BY <1>3 DEF Unspent
<1>4. CASE pairs[n].refresh = "spent"
  BY <1>2, <1>4 DEF Unspent, LoginOf
<1>5. CASE tab'[t].carried # 0 /\ pairs'[tab'[t].carried].login = pairs[n].login
  <2>1. pairs[n].login \in Holds(t)'
    BY <1>5 DEF Holds
  <2> QED BY <1>1, <1>2, <2>1 DEF Unspent, LoginOf
<1> QED BY <1>1, <1>3, <1>4, <1>5 DEF PairsKept

\* What is left to check of a step of one tab.
LEMMA StepFresh ==
    ASSUME Settled, FreshPairs, NEW t \in Tabs, PairsKept(t), mishaps \subseteq mishaps',
           \A u \in Tabs \ {t} : tab'[u] = tab[u],
           \A u \in Tabs \ {t} : Holds(t)' \cap Holds(u) \subseteq mishaps',
           FreshRefresh(t)', FreshStore(t)', FreshDisk'
    PROVE  FreshPairs'
<1>1. \A u \in Tabs \ {t} : Holds(u)' = Holds(u)
  BY OthersKeep
<1>2. OneHolder'
  BY <1>1 DEF FreshPairs, OneHolder
<1>3. ASSUME NEW u \in Tabs \ {t} PROVE FreshRefresh(u)'
  BY OthersUnspent DEF FreshPairs, FreshRefresh
<1>4. ASSUME NEW u \in Tabs \ {t} PROVE FreshStore(u)'
  <2>1. CASE tab[u].pair = 0
    BY <2>1 DEF FreshStore
  <2>2. CASE tab[u].pair # 0 /\ Unspent(tab[u].pair)
    BY <2>2, OthersUnspent DEF FreshStore
  <2>3. CASE tab[u].pair # 0 /\ Renewing(u, LoginOf(tab[u].pair))
    <3> DEFINE n == tab[u].pair
    <3>1. n \in 1 .. Len(pairs)
      BY <2>3, TabTyped
    <3>2. PICK l : l = pairs[n].login
      OBVIOUS
    <3>3. Renewing(u, l)' /\ tab'[u].pair = n
      BY <2>3, <3>2, OthersKeep DEF LoginOf
    <3>4. pairs'[n].login = l
      BY <3>1, <3>2 DEF PairsKept
    <3> QED BY <3>3, <3>4 DEF Renewing, LoginOf, FreshStore
  <2> QED BY <2>1, <2>2, <2>3 DEF FreshPairs, FreshStore
<1> QED BY <1>2, <1>3, <1>4 DEF FreshPairs

\* The store on disk, when the step does not write it: the answer that would have replaced
\* it is still under way, or lost.
LEMMA DiskFresh ==
    ASSUME Settled, FreshPairs, NEW t \in Tabs, PairsKept(t), mishaps \subseteq mishaps',
           \A u \in Tabs \ {t} : tab'[u] = tab[u], disk' = disk,
           \A l : Renewing(t, l) => Renewing(t, l)' \/ l \in mishaps'
    PROVE  FreshDisk'
<1> DEFINE n == disk.pair
<1>1. SUFFICES ASSUME n # 0
               PROVE  FreshDisk'
  BY DEF FreshDisk
<1>2. n \in 1 .. Len(pairs)
  BY <1>1, TabTyped
<1>3. PICK l : l = pairs[n].login
  OBVIOUS
<1>4. pairs'[n].login = l
  BY <1>2, <1>3 DEF PairsKept
<1>5. CASE \E u \in Tabs : Renewing(u, l)
  <2>1. l \in mishaps' \/ \E u \in Tabs : Renewing(u, l)'
    BY <1>5, OthersKeep
  <2> QED BY <1>4, <2>1 DEF FreshDisk, Unspent, LoginOf, Renewing
<1>6. CASE Unspent(n)
  <2>1. CASE pairs[n].refresh = "spent"
    BY <1>3, <1>4, <1>6, <2>1 DEF Unspent, LoginOf, FreshDisk
  <2>2. CASE pairs'[n].refresh # "spent"
    BY <2>2 DEF Unspent, FreshDisk
  <2>3. CASE tab'[t].flight = "answered" /\ pairs'[tab'[t].carried].login = l
    BY <1>4, <2>3 DEF FreshDisk, Renewing, LoginOf
  <2> QED BY <1>2, <1>3, <2>1, <2>2, <2>3 DEF PairsKept
<1> QED BY <1>1, <1>3, <1>5, <1>6 DEF FreshPairs, FreshDisk, LoginOf

\* A tab that is given no new pair holds no new login.
LEMMA HoldsNoMore ==
    ASSUME Settled, FreshPairs, NEW t \in Tabs, PairsKept(t), mishaps \subseteq mishaps',
           tab'[t].pair \in {0, tab[t].pair, tab[t].carried},
           tab'[t].carried \in {0, tab[t].pair, tab[t].carried}
    PROVE  \A u \in Tabs \ {t} : Holds(t)' \cap Holds(u) \subseteq mishaps'
<1>1. \A n \in {tab[t].pair, tab[t].carried} \ {0} : pairs'[n].login = pairs[n].login
  BY TabTyped, PairsTyped DEF PairsKept
<1>2. Holds(t)' \subseteq Holds(t)
  BY <1>1 DEF Holds
<1> QED BY <1>2 DEF FreshPairs, OneHolder

\* A pair on file that was unspent still is, when the step spends nothing.
LEMMA CalmUnspent ==
    ASSUME Settled, Calm, mishaps \subseteq mishaps', NEW n \in 1 .. Len(pairs), Unspent(n)
    PROVE  Unspent(n)'
BY PairsTyped DEF Calm, Unspent, LoginOf

LEMMA StoreFresh ==
    ASSUME Settled, FreshPairs, Calm, mishaps \subseteq mishaps', NEW t \in Tabs,
           tab'[t].pair = tab[t].pair,
           \A l : Renewing(t, l) => Renewing(t, l)' \/ l \in mishaps'
    PROVE  FreshStore(t)'
<1> DEFINE n == tab[t].pair
<1>1. CASE n = 0
  BY <1>1 DEF FreshStore
<1>2. CASE n # 0 /\ Unspent(n)
  BY <1>2, TabTyped, CalmUnspent DEF FreshStore
<1>3. CASE n # 0 /\ Renewing(t, LoginOf(n))
  <2>1. n \in 1 .. Len(pairs)
    BY <1>3, TabTyped
  <2>2. PICK l : l = pairs[n].login
    OBVIOUS
  <2>3. (Renewing(t, l)' \/ l \in mishaps') /\ pairs'[n].login = l
    BY <1>3, <2>1, <2>2, PairsTyped DEF LoginOf, Calm
  <2> QED BY <2>3 DEF FreshStore, Renewing, Unspent, LoginOf
<1> QED BY <1>1, <1>2, <1>3 DEF FreshPairs, FreshStore

LEMMA DroppedFresh ==
    ASSUME Settled, FreshPairs, NEW t \in Tabs, Calm, Dropped(t)
    PROVE  FreshPairs'
<1>1. PairsKept(t) /\ mishaps \subseteq mishaps'
  BY CalmKept DEF Dropped
<1>2. \A l : Renewing(t, l) => Renewing(t, l)'
  <2>1. SUFFICES ASSUME NEW l, Renewing(t, l) PROVE Renewing(t, l)'
    OBVIOUS
  <2>2. tab[t].carried \in 1 .. Len(pairs)
    BY <2>1, TabTyped DEF Renewing
  <2> QED BY <2>1, <2>2, PairsTyped DEF Renewing, LoginOf, Dropped, Calm
<1>3. FreshRefresh(t)'
  BY <1>1, TabTyped, CalmUnspent DEF FreshPairs, FreshRefresh, Dropped
<1>4. FreshStore(t)'
  <2>1. CASE tab'[t].pair = 0
    BY <2>1 DEF FreshStore
  <2>2. CASE tab'[t].pair = tab[t].pair
    BY <1>1, <1>2, <2>2, StoreFresh
  <2> QED BY <2>1, <2>2 DEF Dropped
<1>5. FreshDisk'
  <2>1. CASE disk'.pair = 0
    BY <2>1 DEF FreshDisk
  <2>2. CASE disk' = disk
    BY <1>1, <1>2, <2>2, DiskFresh DEF Dropped
  <2> QED BY <2>1, <2>2 DEF Dropped
<1>6. \A u \in Tabs \ {t} : Holds(t)' \cap Holds(u) \subseteq mishaps'
  BY <1>1, HoldsNoMore DEF Dropped
<1> QED BY <1>1, <1>3, <1>4, <1>5, <1>6, StepFresh DEF Dropped

\* A step that leaves every store alone and spends nothing.
LEMMA StillFresh ==
    ASSUME Settled, FreshPairs, Calm, UNCHANGED <<tab, disk, mishaps>>
    PROVE  FreshPairs'
<1>1. \A t \in Tabs : PairsKept(t)
  BY CalmKept
<1>2. \A t \in Tabs : Holds(t)' = Holds(t) /\ \A l : Renewing(t, l) => Renewing(t, l)'
  BY <1>1, OthersKeep
<1>3. \A t \in Tabs : FreshStore(t)'
  BY <1>2, StoreFresh
<1>4. \A t \in Tabs : FreshRefresh(t)'
  BY TabTyped, CalmUnspent DEF FreshPairs, FreshRefresh
<1>5. FreshDisk'
  <2>1. CASE Tabs = {}
    <3>1. disk.pair # 0 => Unspent(disk.pair)
      BY <2>1 DEF FreshPairs, FreshDisk
    <3>2. disk.pair # 0 => disk.pair \in 1 .. Len(pairs)
      BY DEF Settled, Issued, BrowserTypeOK, Persisted, Numbers
    <3> QED BY <3>1, <3>2, CalmUnspent DEF FreshDisk
  <2>2. CASE \E t \in Tabs : TRUE
    BY <1>1, <1>2, <2>2, DiskFresh
  <2> QED BY <2>1, <2>2
<1> QED BY <1>2, <1>3, <1>4, <1>5 DEF FreshPairs, OneHolder

\* A refresh begins with the pair of the store, which is unspent: no answer is under way
\* that could have renewed it.
LEMMA StartFresh ==
    ASSUME Settled, FreshPairs, NEW c \in Calls, NEW t \in Tabs, StartRefresh(c, t)
    PROVE  FreshPairs'
<1>1. /\ Calm /\ UNCHANGED <<disk, mishaps>> /\ tab[t].flight = "none"
      /\ tab'[t].pair = tab[t].pair /\ tab'[t].carried = tab[t].pair
      /\ \A u \in Tabs \ {t} : tab'[u] = tab[u]
  BY StartTyped
<1>2. PairsKept(t) /\ \A l : ~Renewing(t, l)
  BY <1>1, CalmKept DEF Renewing
<1>3. tab[t].pair # 0 => Unspent(tab[t].pair)
  BY <1>2 DEF FreshPairs, FreshStore
<1>4. FreshRefresh(t)'
  BY <1>1, <1>3, TabTyped, CalmUnspent DEF FreshRefresh
<1>5. FreshStore(t)' /\ FreshDisk'
  BY <1>1, <1>2, StoreFresh, DiskFresh
<1>6. \A u \in Tabs \ {t} : Holds(t)' \cap Holds(u) \subseteq mishaps'
  BY <1>1, <1>2, HoldsNoMore
<1> QED BY <1>1, <1>2, <1>4, <1>5, <1>6, StepFresh

\* A refresh ends without tokens: if an answer was under way, its login has had its mishap.
LEMMA FailedFresh ==
    ASSUME Settled, FreshPairs, NEW t \in Tabs, Refuse(t) \/ LoseRefresh(t)
    PROVE  FreshPairs'
<1>1. /\ Calm /\ UNCHANGED disk /\ mishaps \subseteq mishaps'
      /\ tab[t].flight = "answered" => LoginOf(tab[t].carried) \in mishaps'
      /\ tab'[t].pair = tab[t].pair /\ tab'[t].carried = 0
      /\ \A u \in Tabs \ {t} : tab'[u] = tab[u]
  BY RefuseTyped, LoseTyped
<1>2. PairsKept(t) /\ \A l : Renewing(t, l) => l \in mishaps'
  BY <1>1, CalmKept DEF Renewing
<1>3. FreshStore(t)' /\ FreshDisk' /\ FreshRefresh(t)'
  BY <1>1, <1>2, StoreFresh, DiskFresh DEF FreshRefresh
<1>4. \A u \in Tabs \ {t} : Holds(t)' \cap Holds(u) \subseteq mishaps'
  BY <1>1, <1>2, HoldsNoMore
<1> QED BY <1>1, <1>2, <1>3, <1>4, StepFresh

\* The tokens that are stored are the ones the server has just made.
LEMMA TakeFresh ==
    ASSUME Settled, FreshPairs, NEW t \in Tabs, TakeTokens(t)
    PROVE  FreshPairs'
<1>1. PICK n : n = tab[t].carried
  OBVIOUS
<1>2. /\ Calm /\ UNCHANGED mishaps /\ disk'.pair = n /\ tab[t].flight = "answered"
      /\ tab'[t].pair = n /\ tab'[t].carried = 0 /\ \A u \in Tabs \ {t} : tab'[u] = tab[u]
  BY <1>1, TakeTyped
<1>3. PairsKept(t) /\ n \in 1 .. Len(pairs)
  BY <1>1, <1>2, CalmKept, TabTyped
<1>4. Unspent(n)
  BY <1>1, <1>3 DEF FreshPairs, FreshRefresh
<1>5. Unspent(n)'
  BY <1>2, <1>3, <1>4, CalmUnspent
<1>6. FreshStore(t)' /\ FreshDisk' /\ FreshRefresh(t)'
  BY <1>2, <1>5 DEF FreshStore, FreshDisk, FreshRefresh, Unspent, LoginOf
<1>7. \A u \in Tabs \ {t} : Holds(t)' \cap Holds(u) \subseteq mishaps'
  BY <1>1, <1>2, <1>3, HoldsNoMore
<1> QED BY <1>2, <1>3, <1>6, <1>7, StepFresh

\* A tab that takes the store from disk: the answer it gave up is a mishap of its login, and
\* so is a copy of what another tab has.
LEMMA ReloadFresh ==
    ASSUME Settled, FreshPairs, NEW t \in Tabs, Reload(t)
    PROVE  FreshPairs'
<1>1. PICK n : n = disk.pair
  OBVIOUS
<1>2. /\ Calm /\ UNCHANGED disk /\ mishaps \subseteq mishaps'
      /\ tab[t].carried # 0 => LoginOf(tab[t].carried) \in mishaps'
      /\ n # 0 => \A u \in Tabs \ {t} : LoginOf(n) \in Holds(u) => LoginOf(n) \in mishaps'
      /\ tab'[t].flight = "none" /\ tab'[t].carried = 0
      /\ tab'[t].pair = n /\ \A u \in Tabs \ {t} : tab'[u] = tab[u]
  BY <1>1, ReloadTyped
<1>3. PairsKept(t) /\ n \in 0 .. Len(pairs)
  BY <1>1, <1>2, CalmKept, TabTyped
<1>4. \A l : Renewing(t, l) => l \in mishaps'
  BY <1>2, TabTyped DEF Renewing
<1>5. FreshDisk' /\ FreshRefresh(t)'
  BY <1>2, <1>3, <1>4, DiskFresh DEF FreshRefresh
<1>6. n # 0 => pairs'[n].login = LoginOf(n)
  BY <1>3, PairsTyped DEF PairsKept, LoginOf
<1>7. \A u \in Tabs \ {t} : Holds(t)' \cap Holds(u) \subseteq mishaps'
  <2>1. Holds(t)' \subseteq IF n = 0 THEN {} ELSE {LoginOf(n)}
    BY <1>2, <1>6 DEF Holds
  <2> QED BY <1>2, <2>1
<1>8. FreshStore(t)'
  <2>1. CASE n = 0
    BY <1>2, <2>1 DEF FreshStore
  <2>2. CASE n # 0 /\ Unspent(n)
    <3>1. Unspent(n)'
      BY <1>2, <1>3, <2>2, CalmUnspent
    <3> QED BY <1>2, <3>1 DEF FreshStore, Unspent, LoginOf
  <2>3. CASE n # 0 /\ \E u \in Tabs : Renewing(u, LoginOf(n))
    <3>1. PICK u \in Tabs : Renewing(u, LoginOf(n))
      BY <2>3
    <3>2. LoginOf(n) \in Holds(u)
      BY <3>1, TabTyped DEF Renewing, Holds, LoginOf
    <3>3. LoginOf(n) \in mishaps'
      BY <1>2, <1>4, <2>3, <3>1, <3>2
    <3> QED BY <1>2, <1>6, <2>3, <3>3 DEF FreshStore, Unspent, LoginOf
  <2> QED BY <1>1, <2>1, <2>2, <2>3 DEF FreshPairs, FreshDisk
<1> QED BY <1>2, <1>3, <1>5, <1>7, <1>8, StepFresh

\* A login begins with a pair nobody has: its number is its first pair's.
LEMMA LoginFresh ==
    ASSUME Settled, FreshPairs, NEW t \in Tabs, SignIn(t)
    PROVE  FreshPairs'
<1>1. PICK n : n = Len(pairs) + 1
  OBVIOUS
<1>2. /\ n \in 1 .. MaxPairs /\ Len(pairs) \in Nat /\ n # 0 /\ UNCHANGED mishaps
      /\ tab'[t].pair = n /\ tab'[t].carried = tab[t].carried
      /\ \A u \in Tabs \ {t} : tab'[u] = tab[u]
      /\ disk'.pair = n /\ pairs'[n].login = n /\ pairs'[n].refresh = "live"
      /\ \A m \in 1 .. Len(pairs) : pairs'[m] = pairs[m]
  <2> DEFINE new == [tab[t] EXCEPT !.user = TRUE, !.pair = Len(pairs) + 1]
  <2>1. /\ Len(pairs) + 1 \in 1 .. MaxPairs /\ UNCHANGED mishaps
        /\ tab' = [tab EXCEPT ![t] = new] /\ disk' = [user |-> TRUE, pair |-> n]
        /\ new.pair = Len(pairs) + 1 /\ new.carried = tab[t].carried
        /\ pairs'[n].login = n /\ pairs'[n].refresh = "live"
        /\ \A m \in 1 .. Len(pairs) : pairs'[m] = pairs[m]
    BY <1>1, LoginTyped
  <2> HIDE DEF new
  <2>2. \A u \in Tabs : tab'[u] = IF u = t THEN new ELSE tab[u]
    BY <2>1 DEF Settled, BrowserTypeOK
  <2> QED BY <1>1, <2>1, <2>2, PairsTyped
<1>3. PairsKept(t)
  BY <1>2 DEF PairsKept
<1>4. FreshRefresh(t)'
  BY <1>2, TabTyped DEF FreshPairs, FreshRefresh, Unspent, LoginOf
<1>5. FreshStore(t)' /\ FreshDisk'
  BY <1>2 DEF FreshStore, FreshDisk, Unspent, LoginOf
<1>6. ASSUME NEW u \in Tabs \ {t} PROVE Holds(t)' \cap Holds(u) \subseteq mishaps'
  <2>1. Holds(t)' \subseteq {n} \cup {pairs[m].login : m \in {tab[t].carried} \ {0}}
    BY <1>2, TabTyped DEF Holds
  <2>2. n \notin Holds(u)
    <3>1. \A m \in {tab[u].pair, tab[u].carried} \ {0} :
             pairs[m].login \in 1 .. m /\ m \in 1 .. Len(pairs)
      BY TabTyped, PairsTyped
    <3>2. \A m \in 1 .. Len(pairs) : n \notin 1 .. m
      BY <1>1, <1>2
    <3> QED BY <3>1, <3>2 DEF Holds
  <2>3. {pairs[m].login : m \in {tab[t].carried} \ {0}} \subseteq Holds(t)
    BY DEF Holds
  <2> QED BY <1>2, <2>1, <2>2, <2>3 DEF FreshPairs, OneHolder
<1> QED BY <1>2, <1>3, <1>4, <1>5, <1>6, StepFresh

\* The pair that is spent is the one the tab presented; the answer renews its login.
LEMMA RotateFresh ==
    ASSUME Settled, FreshPairs, NEW t \in Tabs, Rotate(t)
    PROVE  FreshPairs'
<1>1. PICK n, m : n = tab[t].carried /\ m = Len(pairs) + 1
  OBVIOUS
<1>2. /\ n \in 1 .. Len(pairs) /\ m \in 1 .. MaxPairs /\ m # 0 /\ tab[t].flight = "asking"
      /\ tab'[t].pair = tab[t].pair /\ tab'[t].carried = m /\ tab'[t].flight = "answered"
      /\ \A u \in Tabs \ {t} : tab'[u] = tab[u]
      /\ UNCHANGED <<disk, mishaps>>
      /\ pairs'[m].login = pairs[n].login /\ pairs'[m].refresh = "live"
      /\ \A k \in 1 .. Len(pairs) :
            pairs'[k].login = pairs[k].login /\ (k # n => pairs'[k] = pairs[k])
  BY <1>1, RotateTyped DEF Settled, BrowserTypeOK
<1>3. PairsKept(t)
  BY <1>2 DEF PairsKept
<1>4. FreshRefresh(t)' /\ FreshDisk'
  <2>1. \A l : ~Renewing(t, l)
    BY <1>2 DEF Renewing
  <2>2. FreshDisk'
    BY <1>2, <1>3, <2>1, DiskFresh
  <2> QED BY <1>2, <2>2 DEF FreshRefresh, Unspent
<1>5. FreshStore(t)'
  <2>1. PICK k : k = tab[t].pair
    OBVIOUS
  <2>2. CASE k = 0
    BY <1>2, <2>1, <2>2 DEF FreshStore
  <2>3. CASE k = n /\ k # 0
    BY <1>2, <2>1, <2>3 DEF FreshStore, Renewing, LoginOf
  <2>4. CASE k # n /\ k # 0
    <3>1. Unspent(k) /\ pairs'[k] = pairs[k]
      BY <1>2, <2>1, <2>4, TabTyped DEF FreshPairs, FreshStore, Renewing
    <3> QED BY <1>2, <2>1, <3>1 DEF FreshStore, Unspent, LoginOf
  <2> QED BY <2>2, <2>3, <2>4
<1>6. \A u \in Tabs \ {t} : Holds(t)' \cap Holds(u) \subseteq mishaps'
  <2>1. Holds(t)' \subseteq Holds(t)
    <3>1. \A k \in {tab[t].pair} \ {0} : pairs'[k].login = pairs[k].login
      BY <1>2, TabTyped
    <3> QED BY <1>1, <1>2, <3>1 DEF Holds
  <2> QED BY <1>2, <2>1 DEF FreshPairs, OneHolder
<1> QED BY <1>2, <1>3, <1>4, <1>5, <1>6, StepFresh

LEMMA NextFresh == Settled /\ FreshPairs /\ [BrowserNext]_browserVars => FreshPairs'
<1> SUFFICES ASSUME Settled, FreshPairs, [BrowserNext]_browserVars PROVE FreshPairs'
  OBVIOUS
<1>1. ASSUME NEW t \in Tabs, SignIn(t) \/ Reload(t) \/ Exchanges(t) PROVE FreshPairs'
  BY <1>1, LoginFresh, ReloadFresh, RotateFresh, FailedFresh, TakeFresh, SignOutTyped, DroppedFresh
     DEF Exchanges
<1>2. ASSUME NEW c \in Calls, NEW t \in Tabs, Settles(c, t) PROVE FreshPairs'
  BY <1>2, AnswerTyped, GiveUpTyped, DroppedFresh, StartFresh, JoinTyped, SamePairs, StillFresh
     DEF Settles
<1>3. ASSUME NEW c \in Calls, NEW t \in Tabs, NEW logout \in BOOLEAN, Send(c, t, logout)
      PROVE  FreshPairs'
  BY <1>3, SendTyped, SamePairs, StillFresh
<1>4. ASSUME NEW n \in DOMAIN pairs, Expire(n) PROVE FreshPairs'
  BY <1>4, ExpireTyped, StillFresh
<1>5. CASE UNCHANGED browserVars
  BY <1>5, SamePairs, StillFresh DEF browserVars
<1> QED BY <1>1, <1>2, <1>3, <1>4, <1>5 DEF BrowserNext

LEMMA InitFresh == BrowserInit => FreshPairs
BY DEF BrowserInit, Loaded, Empty, FreshPairs, OneHolder, Holds, FreshRefresh, FreshStore, FreshDisk

LEMMA FreshAlways == BrowserSpec => [](Settled /\ FreshPairs)
BY InitSettled, InitFresh, StepSettled, NextFresh, PTL DEF BrowserSpec

\* Every state of the tabs, their requests and the pairs is of its type, for any number of
\* tabs and requests.
THEOREM BrowserTypesCorrect == BrowserSpec => []BrowserTypeOK
<1>1. Settled => BrowserTypeOK
  BY DEF Settled
<1> QED BY <1>1, FreshAlways, PTL

LEMMA UnspentIsPresented == Settled /\ FreshPairs => NoFalseReuse
<1> SUFFICES ASSUME Settled, FreshPairs, NEW t \in Tabs, tab[t].flight = "asking", IsReuse(t)
             PROVE  LoginOf(tab[t].carried) \in mishaps
  BY DEF NoFalseReuse
<1> QED BY TabTyped DEF FreshPairs, FreshRefresh, Unspent, IsReuse

\* However many tabs and requests there are and however they interleave, the server finds a
\* spent token in a refresh (refreshAccessToken in api-client.ts) only after the answer to an
\* earlier one was lost or a second tab took the login from localStorage.
THEOREM OnlyMishapsEndLogins == BrowserSpec => []NoFalseReuse
BY FreshAlways, UnspentIsPresented, PTL

-----------------------------------------------------------------------------
(* The browser: the chain of each login.                                   *)

PairWorks(rows, l, n) == n \in DOMAIN rows /\ rows[n].login = l /\ rows[n].refresh = "live"

OneLivePair ==
    \A j, k \in DOMAIN pairs :
        /\ pairs[j].login = pairs[k].login
        /\ pairs[j].refresh = "live" /\ pairs[k].refresh = "live"
        => j = k

LEMMA PairChosen ==
    ASSUME NEW rows, NEW l, NEW h, NEW of, of = {n \in DOMAIN rows : rows[n].login = l},
           h = IF \E n \in of : rows[n].refresh = "live"
               THEN CHOOSE n \in of : rows[n].refresh = "live" ELSE 0
    PROVE  PairWorks(rows, l, h) \/ (h = 0 /\ \A n : ~PairWorks(rows, l, n))
<1>1. CASE \E n \in of : rows[n].refresh = "live"
  <2>1. PICK n \in of : rows[n].refresh = "live"
    BY <1>1
  <2>2. h = CHOOSE k \in of : rows[k].refresh = "live"
    BY <1>1
  <2>3. h \in of /\ rows[h].refresh = "live"
    BY <2>1, <2>2, Zenon
  <2> QED BY <2>3 DEF PairWorks
<1>2. CASE \A n \in of : rows[n].refresh # "live"
  BY <1>2 DEF PairWorks
<1> QED BY <1>1, <1>2

LEMMA PairNow ==
    ASSUME NEW l \in 1 .. MaxPairs
    PROVE  \/ PairWorks(pairs, l, LivePair[l])
           \/ LivePair[l] = 0 /\ \A n : ~PairWorks(pairs, l, n)
<1> DEFINE of == {n \in DOMAIN pairs : pairs[n].login = l}
<1>1. LivePair[l] = IF \E n \in of : pairs[n].refresh = "live"
                    THEN CHOOSE n \in of : pairs[n].refresh = "live" ELSE 0
  BY Zenon DEF LivePair, PairsOf, LoginOf
<1> HIDE DEF of
<1>2. of = {n \in DOMAIN pairs : pairs[n].login = l}
  BY DEF of
<1> QED BY <1>1, <1>2, PairChosen

LEMMA PairNext ==
    ASSUME NEW l \in 1 .. MaxPairs
    PROVE  \/ PairWorks(pairs', l, LivePair'[l])
           \/ LivePair'[l] = 0 /\ \A n : ~PairWorks(pairs', l, n)
<1> DEFINE of == {n \in DOMAIN pairs' : pairs'[n].login = l}
<1>1. LivePair'[l] = IF \E n \in of : pairs'[n].refresh = "live"
                     THEN CHOOSE n \in of : pairs'[n].refresh = "live" ELSE 0
  BY Zenon DEF LivePair, PairsOf, LoginOf
<1> HIDE DEF of
<1>2. of = {n \in DOMAIN pairs' : pairs'[n].login = l}
  BY DEF of
<1> QED BY <1>1, <1>2, PairChosen

LEMMA PairFunctions ==
    /\ LivePair = [l \in 1 .. MaxPairs |-> LivePair[l]]
    /\ LivePair' = [l \in 1 .. MaxPairs |-> LivePair'[l]]
    /\ EverPaired = [l \in 1 .. MaxPairs |-> EverPaired[l]]
    /\ EverPaired' = [l \in 1 .. MaxPairs |-> EverPaired'[l]]
    /\ \A l \in 1 .. MaxPairs :
          /\ EverPaired[l] = {n \in DOMAIN pairs : pairs[n].login = l}
          /\ EverPaired'[l] = {n \in DOMAIN pairs' : pairs'[n].login = l}
<1>1. LivePair = [l \in 1 .. MaxPairs |-> LivePair[l]]
  BY Zenon DEF LivePair, PairsOf, LoginOf
<1>2. LivePair' = [l \in 1 .. MaxPairs |-> LivePair'[l]]
  BY Zenon DEF LivePair, PairsOf, LoginOf
<1>3. EverPaired = [l \in 1 .. MaxPairs |-> EverPaired[l]]
  BY Zenon DEF EverPaired, PairsOf, LoginOf
<1>4. EverPaired' = [l \in 1 .. MaxPairs |-> EverPaired'[l]]
  BY Zenon DEF EverPaired, PairsOf, LoginOf
<1>5. ASSUME NEW l \in 1 .. MaxPairs
      PROVE  /\ EverPaired[l] = {n \in DOMAIN pairs : pairs[n].login = l}
             /\ EverPaired'[l] = {n \in DOMAIN pairs' : pairs'[n].login = l}
  BY Zenon DEF EverPaired, PairsOf, LoginOf
<1> QED BY <1>1, <1>2, <1>3, <1>4, <1>5

\* What works of a login is the pair that holds its chain.
LEMMA OnlyPair ==
    ASSUME OneLivePair, NEW l, NEW j, NEW k, PairWorks(pairs, l, j), PairWorks(pairs, l, k)
    PROVE  j = k
BY DEF OneLivePair, PairWorks

\* A step that adds pair n to login c, and after which no other pair of c works.
LEMMA PairHandedOn ==
    ASSUME Settled, Settled', OneLivePair, NEW c \in 1 .. MaxPairs, NEW n,
           n = Len(pairs) + 1, Len(pairs') = n,
           pairs'[n].login = c, pairs'[n].refresh = "live",
           \A m \in DOMAIN pairs :
              /\ pairs'[m].login = pairs[m].login
              /\ pairs[m].login = c => pairs'[m].refresh # "live"
              /\ pairs[m].login # c => pairs'[m] = pairs[m],
           LivePair[c] = 0 => \A m \in DOMAIN pairs : pairs[m].login # c
    PROVE  OneLivePair' /\ LoginChain!Next
<1>1. /\ DOMAIN pairs = 1 .. Len(pairs) /\ DOMAIN pairs' = 1 .. n /\ Len(pairs) \in Nat
      /\ n # 0 /\ n \notin DOMAIN pairs
      /\ \A m : m \in DOMAIN pairs' <=> m \in DOMAIN pairs \/ m = n
  <2>1. DOMAIN pairs = 1 .. Len(pairs) /\ Len(pairs) \in Nat
    BY PairsTyped
  <2>2. DOMAIN pairs' = 1 .. n
    BY PairsTyped
  <2> QED BY <2>1, <2>2
<1>2. ASSUME NEW l, NEW m
      PROVE  PairWorks(pairs', l, m) <=> (PairWorks(pairs, l, m) /\ l # c) \/ (l = c /\ m = n)
  BY <1>1 DEF PairWorks
<1>3. OneLivePair'
  <2>1. SUFFICES ASSUME NEW j \in DOMAIN pairs', NEW k \in DOMAIN pairs',
                        pairs'[j].login = pairs'[k].login,
                        pairs'[j].refresh = "live", pairs'[k].refresh = "live"
                 PROVE  j = k
    BY DEF OneLivePair
  <2>2. PICK l : l = pairs'[j].login
    OBVIOUS
  <2>3. PairWorks(pairs', l, j) /\ PairWorks(pairs', l, k)
    BY <2>1, <2>2 DEF PairWorks
  <2> QED BY <1>2, <2>3, OnlyPair
<1>4. ASSUME NEW l \in 1 .. MaxPairs PROVE LivePair'[l] = IF l = c THEN n ELSE LivePair[l]
  BY <1>2, PairNow, PairNext, OnlyPair
<1>5. ASSUME NEW l \in 1 .. MaxPairs
      PROVE  EverPaired'[l] = IF l = c THEN EverPaired[c] \cup {n} ELSE EverPaired[l]
  <2>1. /\ EverPaired[l] = {m \in DOMAIN pairs : pairs[m].login = l}
        /\ EverPaired'[l] = {m \in DOMAIN pairs' : pairs'[m].login = l}
    BY PairFunctions
  <2>2. \A m : m \in EverPaired'[l] <=> m \in EverPaired[l] \/ (l = c /\ m = n)
    BY <1>1, <2>1
  <2> QED BY <2>2
<1>6. LivePair' = [LivePair EXCEPT ![c] = n]
  BY <1>4, OneEntry, PairFunctions
<1>7. EverPaired' = [EverPaired EXCEPT ![c] = @ \cup {n}]
  BY <1>5, OneEntry, PairFunctions
<1>8. n \notin EverPaired[c] \cup {0} /\ (LivePair[c] = 0 => EverPaired[c] = {})
  BY <1>1, PairFunctions
<1>9. LivePair'[c] = n
  BY <1>4
<1>10. LoginChain!HandOn(c, LivePair'[c])
  BY <1>6, <1>7, <1>8, <1>9 DEF LoginChain!HandOn
<1> QED BY <1>3, <1>10, Zenon DEF LoginChain!Next

LEMMA SignInHandsOn ==
    ASSUME Settled, OneLivePair, NEW t \in Tabs, SignIn(t)
    PROVE  OneLivePair' /\ LoginChain!Next
<1>1. PICK n : n = Len(pairs) + 1
  OBVIOUS
<1>2. /\ Settled' /\ n \in 1 .. MaxPairs /\ Len(pairs') = n
      /\ pairs'[n].login = n /\ pairs'[n].refresh = "live"
      /\ \A m \in 1 .. Len(pairs) : pairs'[m] = pairs[m]
  BY <1>1, LoginTyped
<1>3. /\ DOMAIN pairs = 1 .. Len(pairs) /\ Len(pairs) \in Nat
      /\ \A m \in DOMAIN pairs : pairs[m].login \in 1 .. m
  BY PairsTyped
<1>4. \A m \in DOMAIN pairs : pairs[m].login # n
  BY <1>1, <1>3
<1> QED BY <1>1, <1>2, <1>3, <1>4, PairHandedOn

LEMMA RotateHandsOn ==
    ASSUME Settled, OneLivePair, NEW t \in Tabs, Rotate(t)
    PROVE  OneLivePair' /\ LoginChain!Next
<1>1. PICK k, n : k = tab[t].carried /\ n = Len(pairs) + 1
  OBVIOUS
<1>2. /\ Settled' /\ k \in 1 .. Len(pairs) /\ Len(pairs') = n
      /\ pairs'[n].login = pairs[k].login /\ pairs'[n].refresh = "live"
      /\ pairs'[k].refresh = "spent"
      /\ \A m \in 1 .. Len(pairs) :
            pairs'[m].login = pairs[m].login /\ (m # k => pairs'[m] = pairs[m])
  BY <1>1, RotateTyped
<1>3. DOMAIN pairs = 1 .. Len(pairs) /\ pairs[k].login \in 1 .. MaxPairs
  BY <1>2, PairsTyped
<1>4. PICK c \in 1 .. MaxPairs : c = pairs[k].login
  BY <1>3
<1>5. PairWorks(pairs, c, k)
  BY <1>1, <1>2, <1>3, <1>4 DEF Rotate, PairWorks
<1>6. ASSUME NEW m \in DOMAIN pairs, pairs[m].login = c PROVE pairs'[m].refresh # "live"
  <2>1. CASE m = k
    BY <1>2, <2>1
  <2>2. CASE m # k
    <3>1. ~PairWorks(pairs, c, m)
      BY <1>5, <2>2, OnlyPair
    <3> QED BY <1>2, <1>3, <1>6, <2>2, <3>1 DEF PairWorks
  <2> QED BY <2>1, <2>2
<1>7. LivePair[c] # 0
  BY <1>2, <1>5, PairNow, OnlyPair
<1> QED BY <1>1, <1>2, <1>3, <1>4, <1>6, <1>7, PairHandedOn

\* Every other step can only end chains.
LEMMA CalmEnds ==
    ASSUME Settled, OneLivePair, Calm
    PROVE  OneLivePair' /\ LoginChain!Next
<1> DEFINE ended == {l \in 1 .. MaxPairs : LivePair'[l] = 0}
<1>1. \A l, n : PairWorks(pairs', l, n) => PairWorks(pairs, l, n)
  BY DEF Calm, PairWorks
<1>2. OneLivePair'
  BY DEF Calm, OneLivePair
<1>3. ASSUME NEW l \in 1 .. MaxPairs PROVE LivePair'[l] = IF l \in ended THEN 0 ELSE LivePair[l]
  BY <1>1, PairNow, PairNext, OnlyPair
<1>4. EverPaired' = EverPaired
  <2>1. ASSUME NEW l \in 1 .. MaxPairs PROVE EverPaired'[l] = EverPaired[l]
    <3>1. /\ EverPaired[l] = {n \in DOMAIN pairs : pairs[n].login = l}
          /\ EverPaired'[l] = {n \in DOMAIN pairs' : pairs'[n].login = l}
      BY PairFunctions
    <3> QED BY <3>1 DEF Calm
  <2> QED BY <2>1, PairFunctions
<1>5. LivePair' = [l \in 1 .. MaxPairs |-> IF l \in ended THEN 0 ELSE LivePair[l]]
  <2> HIDE DEF ended
  <2> QED BY <1>3, PairFunctions
<1>6. ended \in SUBSET (1 .. MaxPairs)
  OBVIOUS
<1> HIDE DEF ended
<1>7. LoginChain!End(ended)
  BY <1>4, <1>5 DEF LoginChain!End
<1> QED BY <1>2, <1>6, <1>7, Zenon DEF LoginChain!Next

LEMMA StepHandsOn ==
    ASSUME Settled, OneLivePair, [BrowserNext]_browserVars
    PROVE  OneLivePair' /\ LoginChain!Next
<1>1. ASSUME NEW t \in Tabs, SignIn(t) \/ Reload(t) \/ Exchanges(t)
      PROVE  OneLivePair' /\ LoginChain!Next
  BY <1>1, SignInHandsOn, RotateHandsOn, CalmEnds, ReloadTyped, RefuseTyped, LoseTyped,
     TakeTyped, SignOutTyped DEF Exchanges
<1>2. ASSUME NEW c \in Calls, NEW t \in Tabs, Settles(c, t)
      PROVE  OneLivePair' /\ LoginChain!Next
  BY <1>2, AnswerTyped, JoinTyped, SamePairs, StartTyped, GiveUpTyped, CalmEnds DEF Settles
<1>3. ASSUME NEW c \in Calls, NEW t \in Tabs, NEW logout \in BOOLEAN, Send(c, t, logout)
      PROVE  OneLivePair' /\ LoginChain!Next
  BY <1>3, SendTyped, SamePairs, CalmEnds
<1>4. ASSUME NEW n \in DOMAIN pairs, Expire(n) PROVE OneLivePair' /\ LoginChain!Next
  BY <1>4, ExpireTyped, CalmEnds
<1>5. CASE UNCHANGED browserVars
  BY <1>5, SamePairs, CalmEnds DEF browserVars
<1> QED BY <1>1, <1>2, <1>3, <1>4, <1>5 DEF BrowserNext

\* The server of ClientRefresh, whose requests are served one at a time, keeps the promise of
\* TokenChain that RefreshTokens keeps under that condition: what the client is shown to do is
\* shown against such a server (TokensService, AuthService.logout).
THEOREM BrowserServerImplementsTokenChain == BrowserSpec => LoginsAreTokenChains
<1>1. BrowserInit => OneLivePair /\ LoginChain!Init
  <2> SUFFICES ASSUME BrowserInit PROVE OneLivePair /\ LoginChain!Init
    OBVIOUS
  <2>1. DOMAIN pairs = {}
    BY DEF BrowserInit
  <2>2. \A l \in 1 .. MaxPairs : LivePair[l] = 0
    BY <2>1, PairNow DEF PairWorks
  <2>3. \A l \in 1 .. MaxPairs : EverPaired[l] = {}
    BY <2>1, PairFunctions
  <2> QED BY <2>1, <2>2, <2>3, PairFunctions DEF LoginChain!Init, OneLivePair
<1>2. Settled /\ OneLivePair /\ [BrowserNext]_browserVars
      => OneLivePair' /\ [LoginChain!Next]_(LoginChain!chain)
  BY StepHandsOn
<1> QED BY <1>1, <1>2, FreshAlways, PTL DEF BrowserSpec, LoginsAreTokenChains, LoginChain!Spec
=============================================================================

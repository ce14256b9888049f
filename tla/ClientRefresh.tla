---------------------------- MODULE ClientRefresh ----------------------------
(***************************************************************************)
(* The browser's side of the tokens: the store each tab keeps and persists *)
(* (auth-store.ts), the API client that answers a 401 with one refresh for *)
(* all requests of the tab (api-client.ts), login and logout, over a       *)
(* network that may lose any message.                                      *)
(*                                                                         *)
(* The server is what RefreshTokens shows it to be for one request at a    *)
(* time: a live refresh token is exchanged for a new pair, a spent one     *)
(* ends its login, a revoked one is refused.  A pair is an access token    *)
(* and the refresh token that came with it, numbered as issued; pair 0 is  *)
(* none.                                                                   *)
(***************************************************************************)
EXTENDS Integers, Sequences

CONSTANTS
    Tabs,       \* the browser's tabs, which share localStorage and nothing else
    Calls,      \* the API requests of the pages that are under way at one time
    MaxPairs    \* bound: pairs issued

ASSUME ClientAssumption == MaxPairs \in Nat

VARIABLES
    tab,        \* the store of each tab, and its refreshInFlight
    disk,       \* localStorage `tskk.auth'
    call,       \* the requests of the pages
    pairs,      \* the server: the pairs it issued
    mishaps     \* history: the logins of which an answer was lost or a second copy was made

browserVars == <<tab, disk, call, pairs, mishaps>>

Numbers == 0 .. MaxPairs

\* refreshInFlight: none, a request under way, its answer under way, or a promise that has
\* settled and was never cleared.
Flights == {"none", "asking", "answered", "failed", "stuck"}

\* carried: the pair a refresh presents, then the pair its answer brings.
Tab == [user : BOOLEAN, pair : Numbers, flight : Flights, carried : Numbers]
Persisted == [user : BOOLEAN, pair : Numbers]
Call == [stage : {"idle", "sent", "waiting", "resent"}, logout : BOOLEAN,
         tab : SUBSET Tabs, header : Numbers, body : Numbers]
Pair == [login : 1 .. MaxPairs, refresh : {"live", "spent", "revoked"}, expired : BOOLEAN]

IdleCall == [stage |-> "idle", logout |-> FALSE, tab |-> {}, header |-> 0, body |-> 0]
Empty == [user |-> FALSE, pair |-> 0]
Loaded(store) == [user |-> store.user, pair |-> store.pair, flight |-> "none", carried |-> 0]

BrowserInit ==
    /\ tab = [t \in Tabs |-> Loaded(Empty)]
    /\ disk = Empty
    /\ call = [c \in Calls |-> IdleCall]
    /\ pairs = <<>>
    /\ mishaps = {}

LoginOf(n) == pairs[n].login
Of(c, t) == t \in call[c].tab

\* The persisted store follows every change of a tab's store.
Save(t, store) ==
    /\ tab' = [tab EXCEPT ![t].user = store.user, ![t].pair = store.pair]
    /\ disk' = store

-----------------------------------------------------------------------------
(* Signing in and out; reloading.                                          *)

\* AuthGuard renders nothing that calls the API without a user and a token.
SignedIn(t) == tab[t].user /\ tab[t].pair # 0

\* The login page is where a tab goes that is not signed in.
SignIn(t) ==
    /\ ~SignedIn(t)
    /\ Len(pairs) < MaxPairs
    /\ pairs' = Append(pairs, [login |-> Len(pairs) + 1, refresh |-> "live", expired |-> FALSE])
    /\ Save(t, [user |-> TRUE, pair |-> Len(pairs) + 1])
    /\ UNCHANGED <<call, mishaps>>

Send(c, t, logout) ==
    /\ call[c].stage = "idle"
    /\ SignedIn(t)
    /\ call' = [call EXCEPT ![c] = [stage |-> "sent", logout |-> logout, tab |-> {t},
                                    header |-> tab[t].pair,
                                    body |-> IF logout THEN tab[t].pair ELSE 0]]
    /\ UNCHANGED <<tab, disk, pairs, mishaps>>

\* The logins a tab has tokens of, in its store or in a refresh under way.
Holds(t) == {pairs[n].login : n \in {tab[t].pair, tab[t].carried} \ {0}}

\* A tab that is opened or reloaded takes its store from localStorage; what it had under way
\* is gone, the answer to a refresh with it.  It may be the second tab with one login.
Reload(t) ==
    LET copied == {l \in UNION {Holds(u) : u \in Tabs \ {t}} :
                     disk.pair # 0 /\ l = LoginOf(disk.pair)}
        lost == IF tab[t].carried # 0 THEN {LoginOf(tab[t].carried)} ELSE {}
    IN
    /\ tab' = [tab EXCEPT ![t] = Loaded(disk)]
    /\ call' = [c \in Calls |-> IF Of(c, t) THEN IdleCall ELSE call[c]]
    /\ mishaps' = mishaps \cup copied \cup lost
    /\ UNCHANGED <<disk, pairs>>

-----------------------------------------------------------------------------
(* Answers to the pages' requests.                                         *)

Expire(n) ==
    /\ ~pairs[n].expired
    /\ pairs' = [pairs EXCEPT ![n].expired = TRUE]
    /\ UNCHANGED <<tab, disk, call, mishaps>>

\* However it ends, a logout clears the store.
Settle(c, t) ==
    /\ call' = [call EXCEPT ![c] = IdleCall]
    /\ IF call[c].logout THEN Save(t, Empty) ELSE UNCHANGED <<tab, disk>>

UnderWay(c, t) == Of(c, t) /\ call[c].stage \in {"sent", "resent"}

\* The server looks at the access token alone.  A logout revokes the refresh token in its
\* body, if it is live.
Accepted(c, t) ==
    /\ UnderWay(c, t)
    /\ ~pairs[call[c].header].expired
    /\ pairs' = [n \in DOMAIN pairs |-> IF n = call[c].body /\ pairs[n].refresh = "live"
                                       THEN [pairs[n] EXCEPT !.refresh = "revoked"] ELSE pairs[n]]
    /\ Settle(c, t)
    /\ UNCHANGED mishaps

\* A network error, a timeout, or a 401 to a request that was already repeated.
Rejected(c, t) ==
    /\ UnderWay(c, t)
    /\ Settle(c, t)
    /\ UNCHANGED <<pairs, mishaps>>

\* The first 401 of a request: it joins the refresh under way or starts one.
Refused(c, t) ==
    /\ Of(c, t) /\ call[c].stage = "sent"
    /\ pairs[call[c].header].expired
    /\ UNCHANGED <<pairs, mishaps>>

CallsJoin(t) == tab[t].flight \in {"asking", "answered", "failed"}
AskUnlessSent(t) == tab[t].flight \in {"none", "answered"}
MustAsk(t) == tab[t].flight = "none"

JoinRefresh(c, t) ==
    /\ Refused(c, t)
    /\ CallsJoin(t)
    /\ call' = [call EXCEPT ![c].stage = "waiting", ![c].header = 0]
    /\ UNCHANGED <<tab, disk>>

StartRefresh(c, t) ==
    /\ Refused(c, t)
    /\ MustAsk(t) /\ tab[t].pair # 0
    /\ tab' = [tab EXCEPT ![t].flight = "asking", ![t].carried = tab[t].pair]
    /\ call' = [call EXCEPT ![c].stage = "waiting", ![c].header = 0]
    /\ UNCHANGED disk

\* Without a refresh token the promise settles before the finally that would clear it.
GiveUp(c, t) ==
    /\ Refused(c, t)
    /\ tab[t].flight = "stuck" \/ (MustAsk(t) /\ tab[t].pair = 0)
    /\ call' = [call EXCEPT ![c] = IdleCall]
    /\ tab' = [tab EXCEPT ![t] = [IF call[c].logout THEN Loaded(Empty) ELSE tab[t]
                                    EXCEPT !.flight = "stuck"]]
    /\ disk' = IF call[c].logout THEN Empty ELSE disk

-----------------------------------------------------------------------------
(* The refresh: at the server, on the network, back in the tab.            *)

KeptPair(n) == pairs
SpentPair(n) == [pairs EXCEPT ![n].refresh = "spent"]

Rotate(t) ==
    LET n == tab[t].carried IN
    /\ tab[t].flight = "asking"
    /\ pairs[n].refresh = "live"
    /\ Len(pairs) < MaxPairs
    /\ pairs' = Append(SpentPair(n), [login |-> LoginOf(n), refresh |-> "live", expired |-> FALSE])
    /\ tab' = [tab EXCEPT ![t].flight = "answered", ![t].carried = Len(pairs) + 1]
    /\ UNCHANGED <<disk, call, mishaps>>

IsReuse(t) == pairs[tab[t].carried].refresh = "spent"

\* Reuse revokes what is live of the login.
Refuse(t) ==
    LET n == tab[t].carried IN
    /\ tab[t].flight = "asking"
    /\ pairs[n].refresh # "live"
    /\ pairs' = [m \in DOMAIN pairs |->
                   IF IsReuse(t) /\ LoginOf(m) = LoginOf(n) /\ pairs[m].refresh = "live"
                   THEN [pairs[m] EXCEPT !.refresh = "revoked"] ELSE pairs[m]]
    /\ tab' = [tab EXCEPT ![t].flight = "failed", ![t].carried = 0]
    /\ UNCHANGED <<disk, call, mishaps>>

\* The request or its answer is lost, or the server answers with an error of its own.
LoseRefresh(t) ==
    /\ tab[t].flight \in {"asking", "answered"}
    /\ tab' = [tab EXCEPT  ![t].flight = "failed", ![t].carried = 0]
    /\ mishaps' = mishaps \cup (IF tab[t].flight = "answered" THEN {LoginOf(tab[t].carried)} ELSE {})
    /\ UNCHANGED <<disk, call, pairs>>

Waiting(t) == {c \in Calls : Of(c, t) /\ call[c].stage = "waiting"}

FlightCleared(t) == [tab[t] EXCEPT !.flight = "none"]
Cleared(t) == [tab[t] EXCEPT !.flight = "none", !.carried = 0]

\* The tokens are stored, refreshInFlight is cleared, and every request that waited is sent
\* again with the new token.
TakeTokens(t) ==
    LET n == tab[t].carried IN
    /\ tab[t].flight = "answered"
    /\ tab' = [tab EXCEPT ![t] = [Cleared(t) EXCEPT !.pair = n]]
    /\ disk' = [user |-> tab[t].user, pair |-> n]
    /\ call' = [c \in Calls |-> IF c \in Waiting(t)
                                THEN [call[c] EXCEPT !.stage = "resent", !.header = n]
                                ELSE call[c]]
    /\ UNCHANGED <<pairs, mishaps>>

KeptWaiting(t) == call
Rejects(t) ==
    [c \in Calls |-> IF c \in Waiting(t) THEN IdleCall ELSE call[c]]

\* Any error at all signs the tab out and rejects every request that waited.
SignOut(t) ==
    /\ tab[t].flight = "failed"
    /\ tab' = [tab EXCEPT ![t] = [Cleared(t) EXCEPT !.user = FALSE, !.pair = 0]]
    /\ disk' = Empty
    /\ call' = Rejects(t)
    /\ UNCHANGED <<pairs, mishaps>>

-----------------------------------------------------------------------------
Settles(c, t) ==
    Accepted(c, t) \/ Rejected(c, t) \/ JoinRefresh(c, t) \/ StartRefresh(c, t) \/ GiveUp(c, t)
Exchanges(t) == Rotate(t) \/ Refuse(t) \/ LoseRefresh(t) \/ TakeTokens(t) \/ SignOut(t)

BrowserNext ==
    \/ \E t \in Tabs : SignIn(t) \/ Reload(t) \/ Exchanges(t)
    \/ \E c \in Calls :
          \E t \in Tabs : Settles(c, t) \/ \E logout \in BOOLEAN : Send(c, t, logout)
    \/ \E n \in DOMAIN pairs : Expire(n)

\* A request of a page is answered, refused or ends at the 30 s of the shared client, and
\* the browser runs what the failure of a refresh has to run.  The refresh itself is posted
\* past the shared client, with no timeout: nothing promises that the server takes it, that
\* its answer arrives or that it fails.  Users need not do anything.
Fairness ==
    /\ \A c \in Calls : WF_browserVars(\E t \in Tabs : Settles(c, t))
    /\ \A t \in Tabs : WF_browserVars(SignOut(t))

BrowserSpec == BrowserInit /\ [][BrowserNext]_browserVars
FairBrowserSpec == BrowserSpec /\ Fairness

-----------------------------------------------------------------------------
BrowserTypeOK ==
    /\ tab \in [Tabs -> Tab]
    /\ \A t \in Tabs : tab[t].carried # 0 <=> tab[t].flight \in {"asking", "answered"}
    /\ disk \in Persisted
    /\ call \in [Calls -> Call]
    /\ pairs \in Seq(Pair) /\ Len(pairs) <= MaxPairs
    /\ mishaps \subseteq 1 .. MaxPairs

\* One refresh at a time per tab: whatever requests are refused together or late, the client
\* itself never presents a spent token.  The server ends a login for reuse only when an
\* answer was lost or another tab worked with a copy of the tokens.
NoFalseReuse ==
    \A t \in Tabs : tab[t].flight = "asking" /\ IsReuse(t) => LoginOf(tab[t].carried) \in mishaps

\* A request that waits for a refresh whose answer has not reached its tab.
Unanswered(c) ==
    /\ call[c].stage = "waiting"
    /\ \E t \in Tabs : Of(c, t) /\ tab[t].flight \in {"asking", "answered"}

\* Every request of a page is settled, those that joined a refresh when it was asked,
\* answered or failing included; the one way to hang is to wait for ever for a refresh that
\* is never answered, which no timeout ends (refreshAccessToken).
CallsSettle ==
    \A c \in Calls : []<>(call[c].stage = "idle") \/ <>[]Unanswered(c)

-----------------------------------------------------------------------------
(* The server of the tokens, as this module has it.                        *)

\* The pair of each login whose refresh token works, and the pairs it ever had.
PairsOf(login) == {n \in DOMAIN pairs : LoginOf(n) = login}
LivePair == [login \in 1 .. MaxPairs |->
    IF \E n \in PairsOf(login) : pairs[n].refresh = "live"
    THEN CHOOSE n \in PairsOf(login) : pairs[n].refresh = "live" ELSE 0]
EverPaired == [login \in 1 .. MaxPairs |-> PairsOf(login)]

LoginChain == INSTANCE TokenChain WITH
    Chains <- 1 .. MaxPairs, holder <- LivePair, used <- EverPaired

\* It keeps the promise that RefreshTokens keeps when it serves one request at a time: each
\* login is handed on from pair to pair, and one that has ended is never taken up again.
LoginsAreTokenChains == LoginChain!Spec
=============================================================================

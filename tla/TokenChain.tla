----------------------------- MODULE TokenChain -----------------------------
(***************************************************************************)
(* What a rotating refresh token promises: a login starts a chain with one *)
(* token that works, each refresh hands the chain on to a token that never *)
(* worked before, and a chain that has ended is never taken up again.      *)
(***************************************************************************)
EXTENDS Integers

CONSTANT Chains

VARIABLES
    holder,   \* the token of each chain that works, 0 when none does
    used      \* the tokens of each chain that have worked so far

chain == <<holder, used>>

Init == holder = [c \in Chains |-> 0] /\ used = [c \in Chains |-> {}]

\* Handing on, which starts the chain when nothing of it was ever used.
HandOn(c, t) ==
    /\ holder[c] = 0 => used[c] = {}
    /\ t \notin used[c] \cup {0}
    /\ holder' = [holder EXCEPT ![c] = t]
    /\ used' = [used EXCEPT ![c] = @ \cup {t}]

\* One chain or all of them end: a logout, a token presented twice, a new password.
End(ended) ==
    /\ holder' = [c \in Chains |-> IF c \in ended THEN 0 ELSE holder[c]]
    /\ UNCHANGED used

Next ==
    \/ \E c \in Chains : HandOn(c, holder'[c])
    \/ \E ended \in SUBSET Chains : End(ended)

Spec == Init /\ [][Next]_chain
=============================================================================

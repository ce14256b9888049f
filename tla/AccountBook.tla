---------------------------- MODULE AccountBook ----------------------------
(***************************************************************************)
(* What an invoice promises the people who pay it, without requests, rows  *)
(* or a gateway: money comes in up to what is still owed, each amount is   *)
(* added to what was paid and entered once; money that goes back out is    *)
(* entered too and taken off what was paid; and the price may be changed   *)
(* without touching either.  What was paid moves in no other way: it rises *)
(* only by an amount that is entered and falls only by one that is         *)
(* refunded.                                                               *)
(***************************************************************************)
EXTENDS Integers

CONSTANT Invoices

VARIABLES
    total,    \* what the invoice asks for
    paid,     \* what it says has been paid
    entered,  \* what the receipts issued for it add up to
    refunded  \* what the refunds entered for it add up to

accounts == <<total, paid, entered, refunded>>

Init == /\ total = [i \in Invoices |-> 0]
        /\ paid = [i \in Invoices |-> 0]
        /\ entered = [i \in Invoices |-> 0]
        /\ refunded = [i \in Invoices |-> 0]

\* A payment of n: never more than is owed, and entered as it is added.
Collect(i, n) ==
    /\ n > 0
    /\ n <= total[i] - paid[i]
    /\ paid' = [paid EXCEPT ![i] = @ + n]
    /\ entered' = [entered EXCEPT ![i] = @ + n]
    /\ UNCHANGED <<total, refunded>>

\* A refund of n is entered and takes it back out, down to nothing.
Return(i, n) ==
    /\ n > 0
    /\ refunded' = [refunded EXCEPT ![i] = @ + n]
    /\ paid' = [paid EXCEPT ![i] = IF @ < n THEN 0 ELSE @ - n]
    /\ UNCHANGED <<total, entered>>

\* Raising or editing an invoice sets its price and nothing else.
Price(i, t) ==
    /\ total' = [total EXCEPT ![i] = t]
    /\ UNCHANGED <<paid, entered, refunded>>

\* The amount is what the step enters, so that it need not be enumerated.
Next == \E i \in Invoices :
    \/ Collect(i, entered'[i] - entered[i])
    \/ Return(i, refunded'[i] - refunded[i])
    \/ Price(i, total'[i])

Spec == Init /\ [][Next]_accounts
=============================================================================

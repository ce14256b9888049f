-------------------------------- MODULE Sums --------------------------------
(***************************************************************************)
(* The sum of a numbered list of amounts.  It is a recursive function, so  *)
(* that FeeLedger and StockRoom can be proved about.                       *)
(***************************************************************************)
EXTENDS Integers

\* f[1] + ... + f[n].
Total(f, n) ==
    LET sum[m \in 0 .. n] == IF m = 0 THEN 0 ELSE sum[m - 1] + f[m]
    IN  sum[n]
=============================================================================

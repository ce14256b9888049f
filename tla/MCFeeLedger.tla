---------------------------- MODULE MCFeeLedger ----------------------------
(***************************************************************************)
(* TLC instances of FeeLedger.  MCFeeLedgerConcurrent.cfg lets two         *)
(* requests overlap; MCFeeLedgerSerial.cfg serves one at a time and tries  *)
(* more invoices, prices and amounts.                                      *)
(***************************************************************************)
EXTENDS FeeLedger, TLC

MCCharges == {-1, 3}
MCStatusInputs == FeeStatus \cup {"KEEP"}
Symmetry == Permutations(Requests)
=============================================================================

------------------------------ MODULE MCPortal ------------------------------
(* An instance of Portal: one key withdrawn, one change, one act at a time. *)
EXTENDS Portal

\* The hypothesis of AccessProofs' NobodyLedAstray, for this instance.
ASSUME MCTablesServe == TablesServe
=============================================================================

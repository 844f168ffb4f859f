---------------------- MODULE MCTransactionProjection ----------------------
(***************************************************************************)
(* Instances of TransactionProjection for TLC.                             *)
(***************************************************************************)
EXTENDS TransactionProjection
=============================================================================

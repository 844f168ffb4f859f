--------------------------- MODULE MCWalSegments ---------------------------
(* Model checking of WalSegments on a log of a few records.                *)
EXTENDS WalSegments
=============================================================================

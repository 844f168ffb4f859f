------------------------ MODULE MCStorageMaintenance ------------------------
(***************************************************************************)
(* Instances of StorageMaintenance for TLC.  Request threads are symmetric *)
(* in the runs that check invariants only.                                 *)
(***************************************************************************)
EXTENDS StorageMaintenance, TLC

WriterSymmetry == Permutations(Writers)
=============================================================================

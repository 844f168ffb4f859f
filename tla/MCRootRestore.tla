--------------------------- MODULE MCRootRestore ---------------------------
(***************************************************************************)
(* Instances of RootRestore for TLC.                                       *)
(***************************************************************************)
EXTENDS RootRestore
=============================================================================

--------------------------- MODULE MCSegmentSeal ---------------------------
(***************************************************************************)
(* Instances of SegmentSeal for TLC.                                      *)
(***************************************************************************)
EXTENDS SegmentSeal
=============================================================================

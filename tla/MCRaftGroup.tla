---------------------------- MODULE MCRaftGroup ----------------------------
(***************************************************************************)
(* Instances of RaftGroup for TLC: three nodes, each of which asks its     *)
(* peers in the order of their names.                                      *)
(***************************************************************************)
EXTENDS RaftGroup
CONSTANTS n1, n2, n3
MCPeers == (n1 :> <<n2, n3>>) @@ (n2 :> <<n1, n3>>) @@ (n3 :> <<n1, n2>>)
=============================================================================

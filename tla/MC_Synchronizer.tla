------------------------- MODULE MC_Synchronizer -------------------------
(***************************************************************************)
(* A small instance of the Synchronizer.  Three peers: p1 far ahead (it   *)
(* triggers a peer sync from any head below 4, and makes a sample that    *)
(* holds it diff >= HeightDiff, so fast sync), p2 and p3 close to the     *)
(* local head (a sample of them gives diff < HeightDiff, so CP2FP and     *)
(* Normal).  Two regular peers are needed to leave Init and three for     *)
(* fast sync, so a RemovePeer inside doInit can take the map below the    *)
(* sample size.  Five AddPeer calls let a peer leave and come back, which *)
(* is how a peer sync is retried while a cooldown or a CP2FP task runs.   *)
(***************************************************************************)
EXTENDS Synchronizer, TLC

CONSTANTS p1, p2, p3

MCPeers == {p1, p2, p3}

MCPeerHeight == (p1 :> 10) @@ (p2 :> 3) @@ (p3 :> 2)

\* the peers play different parts (their heights differ): no symmetry
=============================================================================

------------------------------ MODULE MC_Cursor ------------------------------
(***************************************************************************)
(* A hash list of three main blocks 1, 2, 3 (rounds 10, 12, 15, heights   *)
(* 20..22) and five other blocks: 7, an ancestor below the list's first   *)
(* height that block 1 depends on; 4, a side block of round 11 that the   *)
(* main block 2 depends on; 5, an invalid block of round 12; 8, a valid   *)
(* sibling of 3 in round 15; 6, a block above the height window.  Block 2 *)
(* has two future tx packages, one of which does not verify.              *)
(***************************************************************************)
EXTENDS Cursor, TLC

CONSTANTS p1, p2

MCBlocks == 1..8

MCRound == (1 :> 10 @@ 2 :> 12 @@ 3 :> 15 @@ 4 :> 11 @@ 5 :> 12 @@ 6 :> 16 @@ 7 :> 9 @@ 8 :> 15)

MCHeight == (1 :> 20 @@ 2 :> 21 @@ 3 :> 22 @@ 4 :> 21 @@ 5 :> 21 @@ 6 :> 23 @@ 7 :> 19 @@ 8 :> 22)

MCDepends == (1 :> {7} @@ 2 :> {1, 4} @@ 3 :> {2} @@ 4 :> {1} @@ 5 :> {}
              @@ 6 :> {3} @@ 7 :> {} @@ 8 :> {2})

MCHashElems == <<1, 2, 3>>

MCPkgs == {p1, p2}

MCFuturePkgs == [b \in MCBlocks |-> IF b = 2 THEN {p1, p2} ELSE {}]

=============================================================================

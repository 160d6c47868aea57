--------------------------- MODULE CursorAbstract ---------------------------
(***************************************************************************)
(* What the block cursor promises its driver (spec 4.5 and 8, Ordering):   *)
(* the main-chain blocks are executed one at a time, exactly in the order  *)
(* of the agreed hash list, and the cursor reports that it is finished     *)
(* only after the last of them.  Nothing is said about side blocks, the    *)
(* buffer or the arrival order of blocks.                                  *)
(***************************************************************************)
EXTENDS Sequences, Naturals

CONSTANT HashElems   \* the agreed hash list, main-chain blocks in order

VARIABLES
  executed,  \* the main-chain blocks executed so far, in order
  done       \* the cursor has reported IsFinished

absVars == <<executed, done>>

AInit ==
  /\ executed = << >>
  /\ done = FALSE

\* the next block of the list is executed
Execute ==
  /\ ~done
  /\ Len(executed) < Len(HashElems)
  /\ executed' = Append(executed, HashElems[Len(executed) + 1])
  /\ UNCHANGED done

\* the cursor finishes once the whole list has been executed
Finish ==
  /\ ~done
  /\ executed = HashElems
  /\ done' = TRUE
  /\ UNCHANGED executed

ANext == Execute \/ Finish

ASpec == AInit /\ [][ANext]_absVars

=============================================================================

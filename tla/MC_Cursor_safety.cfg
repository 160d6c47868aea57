\* Safety of the cursor with InsertPastBlock (setHead = false), one
\* InsertPastBlock failure and up to two repeated deliveries.
CONSTANTS
  p1 = p1
  p2 = p2
  Blocks <- MCBlocks
  Round <- MCRound
  Height <- MCHeight
  Depends <- MCDepends
  Invalid = {5}
  InitChain = {}
  HashElems <- MCHashElems
  SetHead = FALSE
  Pkgs <- MCPkgs
  FuturePkgs <- MCFuturePkgs
  KnownPkgs = {}
  BadPkgs = {p2}
  MaxDups = 2
  MaxPastErrors = 1
SPECIFICATION Spec
INVARIANT TypeOK
INVARIANT ExecutedPrefix
INVARIANT ChainSound
INVARIANT FinishedComplete
\* a finished cursor, or one whose deliveries are exhausted, takes no step
CHECK_DEADLOCK FALSE

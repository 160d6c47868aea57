\* Every delivery order of the range ends in a finished cursor (InsertBlock,
\* setHead = true), and every behaviour implements CursorAbstract.
CONSTANTS
  p1 = p1
  p2 = p2
  Blocks <- MCBlocks
  Round <- MCRound
  Height <- MCHeight
  Depends <- MCDepends
  Invalid = {5}
  InitChain = {}
  HashElems <- MCHashElems
  SetHead = TRUE
  Pkgs <- MCPkgs
  FuturePkgs <- MCFuturePkgs
  KnownPkgs = {}
  BadPkgs = {p2}
  MaxDups = 1
  MaxPastErrors = 0
SPECIFICATION FairSpec
PROPERTIES
  Completion
  CursorRefinement
CHECK_DEADLOCK FALSE

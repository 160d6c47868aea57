\* Spec 4.5: a block VerifyBlock rejects is dropped from the buffer; the code keeps it.
CONSTANTS
  p1 = p1
  p2 = p2
  Blocks <- MCBlocks
  Round <- MCRound
  Height <- MCHeight
  Depends <- MCDepends
  Invalid = {5}
  InitChain = {}
  HashElems <- MCHashElems
  SetHead = FALSE
  Pkgs <- MCPkgs
  FuturePkgs <- MCFuturePkgs
  KnownPkgs = {}
  BadPkgs = {p2}
  MaxDups = 2
  MaxPastErrors = 1
SPECIFICATION Spec
INVARIANT InvalidDropped
CHECK_DEADLOCK FALSE

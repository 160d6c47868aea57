\* Spec 7: a cursor error only gates advancement of index; after one failed
\* InsertPastBlock the cursor never finishes although every block was delivered.
CONSTANTS
  p1 = p1
  p2 = p2
  Blocks <- MCBlocks
  Round <- MCRound
  Height <- MCHeight
  Depends <- MCDepends
  Invalid = {5}
  InitChain = {}
  HashElems <- MCHashElems
  SetHead = FALSE
  Pkgs <- MCPkgs
  FuturePkgs <- MCFuturePkgs
  KnownPkgs = {}
  BadPkgs = {p2}
  MaxDups = 0
  MaxPastErrors = 1
SPECIFICATION FairSpec
PROPERTY Completion
CHECK_DEADLOCK FALSE

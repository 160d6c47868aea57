\* Checks CP2FPOnlyWhenClose alone, with a 4-bit diff standing for the
\* int32 cast; TLC is expected to find it violated.
CONSTANTS
  p1 = p1
  p2 = p2
  p3 = p3
  Peers <- MCPeers
  PeerHeight <- MCPeerHeight
  InitHeight = 0
  MinRegularPeerCount = 2
  MinFastSyncPeerCount = 3
  HeightDiff = 5
  NewPeerChCap = 2
  MaxConnects = 5
  DiffWidth = 4
SPECIFICATION Spec
INVARIANT CP2FPOnlyWhenClose
CHECK_DEADLOCK FALSE

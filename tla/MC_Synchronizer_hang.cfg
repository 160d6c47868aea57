\* Checks LoopNeverHangs alone; TLC is expected to find it violated.
CONSTANTS
  p1 = p1
  p2 = p2
  p3 = p3
  Peers <- MCPeers
  PeerHeight <- MCPeerHeight
  InitHeight = 0
  MinRegularPeerCount = 2
  MinFastSyncPeerCount = 3
  HeightDiff = 5
  NewPeerChCap = 2
  MaxConnects = 5
  DiffWidth = 5
SPECIFICATION Spec
INVARIANT LoopNeverHangs
CHECK_DEADLOCK FALSE

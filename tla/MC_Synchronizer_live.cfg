\* A blocked AddPeer send always completes while the loop runs, under the
\* fairness of FairSpec.  Three AddPeer calls and a one-slot channel, so
\* that senders block behind each other while the loop is inside doInit
\* or busy with a sub-sync.
CONSTANTS
  p1 = p1
  p2 = p2
  p3 = p3
  Peers <- MCPeers
  PeerHeight <- MCPeerHeight
  InitHeight = 0
  MinRegularPeerCount = 2
  MinFastSyncPeerCount = 3
  HeightDiff = 5
  NewPeerChCap = 1
  MaxConnects = 3
  DiffWidth = 5
SPECIFICATION FairSpec
PROPERTY AddPeerServed
CHECK_DEADLOCK FALSE

\* The FSM keeps its drivers and its status in step, honours the peer-sync
\* cooldown, and implements SyncAbstract.  Runs end when the AddPeer
\* budget is spent, the loop has quit or hung: those final states are not
\* deadlocks.
CONSTANTS
  p1 = p1
  p2 = p2
  p3 = p3
  Peers <- MCPeers
  PeerHeight <- MCPeerHeight
  InitHeight = 0
  MinRegularPeerCount = 2
  MinFastSyncPeerCount = 3
  HeightDiff = 5
  NewPeerChCap = 2
  MaxConnects = 5
  DiffWidth = 5
SPECIFICATION Spec
INVARIANTS
  TypeOK
  StatusMatchesDrivers
  CooldownRespected
PROPERTY
  SyncRefinement
CHECK_DEADLOCK FALSE

\* Checks FailedCheckReported alone; TLC is expected to find it violated.
CONSTANTS
  q1 = q1
  q2 = q2
  q3 = q3
  q4 = q4
  Peers <- MCPeers
  ComPreCount = 3
  FindErrs = {"NotEnoughPeers", "CanNotGetConsensus"}
SPECIFICATION Spec
INVARIANT FailedCheckReported
\* one call: the behaviour ends when the call returns
CHECK_DEADLOCK FALSE

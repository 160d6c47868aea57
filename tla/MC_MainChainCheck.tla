-------------------------- MODULE MC_MainChainCheck --------------------------
\* A group of four peers with comPreCount 3.
EXTENDS MainChainCheck

CONSTANTS q1, q2, q3, q4

MCPeers == {q1, q2, q3, q4}

=============================================================================

--------------------------- MODULE MainChainCheck ---------------------------
(***************************************************************************)
(* One call of Synchronizer.findAndCheckMainChain (ftl/sync/sync.go        *)
(* 299-329).  findMainChainPeers and doSyncAndCheckFixPoint are not under  *)
(* src/: their results are inputs, chosen freely among the outcomes their  *)
(* signatures allow (an error implies a failed check).  The call returns   *)
(* the peers to sync from and an error, and drops peers through            *)
(* removePeerCallback.                                                     *)
(***************************************************************************)
EXTENDS Integers, FiniteSets

CONSTANTS
  Peers,        \* the peer group `peers`
  ComPreCount,  \* comPreCount
  FindErrs      \* errors findMainChainPeers may return: errNotEnoughPeers
                \* ("NotEnoughPeers") and others, never "none" (nil)

VARIABLES
  pc,        \* "find", "check" or "done"
  left,      \* leftPeers of findMainChainPeers
  errPeers,  \* errPeers of doSyncAndCheckFixPoint (history)
  ret,       \* the peers returned (nil and empty are both {})
  err,       \* the error returned, "none" for nil
  removed    \* the peers passed to removePeerCallback

vars == <<pc, left, errPeers, ret, err, removed>>

Init ==
  /\ pc = "find"
  /\ left = {} /\ errPeers = {} /\ ret = {}
  /\ err = "none" /\ removed = {}

\* findMainChainPeers fails with errNotEnoughPeers: return nil, err
FindNotEnough ==
  /\ pc = "find"
  /\ pc' = "done" /\ err' = "NotEnoughPeers"
  /\ UNCHANGED <<left, errPeers, ret, removed>>

\* any other error: no consensus, every peer of the group is dropped
FindNoConsensus(e) ==
  /\ pc = "find"
  /\ pc' = "done" /\ err' = e
  /\ removed' = Peers
  /\ UNCHANGED <<left, errPeers, ret>>

\* no error and no leftPeers: "self chain is the best", return them, nil
SelfBest ==
  /\ pc = "find"
  /\ pc' = "done"
  /\ UNCHANGED <<left, errPeers, ret, err, removed>>

\* leftPeers agree on the main chain; doSyncAndCheckFixPoint comes next
FindOk(L) ==
  /\ pc = "find"
  /\ L # {}
  /\ left' = L /\ pc' = "check"
  /\ UNCHANGED <<errPeers, ret, err, removed>>

\* the check of the main chain along the agreed list from bestPeer fails
\* when err != nil, !check, or len(peers) - len(errPeers) < comPreCount:
\* errPeers are dropped and nil, err returned
CheckFailed(check, E, e) ==
  \/ e # "none"
  \/ ~check
  \/ Cardinality(Peers) - Cardinality(E) < ComPreCount

Check(check, E, e) ==
  /\ pc = "check"
  /\ e # "none" => ~check
  /\ errPeers' = E
  /\ pc' = "done"
  /\ IF CheckFailed(check, E, e)
       THEN removed' = E /\ ret' = {} /\ err' = e
       ELSE ret' = left /\ UNCHANGED <<removed, err>>
  /\ UNCHANGED left

Next ==
  \/ FindNotEnough \/ SelfBest
  \/ \E e \in FindErrs \ {"NotEnoughPeers"} : FindNoConsensus(e)
  \/ \E L \in SUBSET Peers : FindOk(L)
  \/ \E check \in BOOLEAN, E \in SUBSET Peers, e \in {"none", "ErrCheck"} :
       Check(check, E, e)

Spec == Init /\ [][Next]_vars

\* Spec 4.2, main-chain check: when |P| - comPreCount or more of the
\* verifications failed, the whole run fails, so the caller must see an
\* error rather than a peer list or the "self chain is the best" answer.
FailedCheckReported ==
  (pc = "done" /\ left # {}
     /\ Cardinality(errPeers) >= Cardinality(Peers) - ComPreCount)
    => err # "none"

=============================================================================

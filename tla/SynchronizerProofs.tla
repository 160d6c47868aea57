------------------------- MODULE SynchronizerProofs -------------------------
(***************************************************************************)
(* Proofs that the sync status always names the driver that is alive       *)
(* (StatusMatchesDrivers) and that a peer in cooldown never syncs          *)
(* (CooldownRespected), for every peer set, heights and configuration,   *)
(* and that the whole machine implements SyncAbstract.                     *)
(*                                                                         *)
(* Neither invariant is inductive alone.  The strengthening IInv adds      *)
(*  - AtMostOne: the peer-sync set is empty or a singleton (a Cardinality  *)
(*    bound alone does not survive the union of CheckPeerSync);            *)
(*  - SyncingStarted: a peer with a running DoPeerSync has its             *)
(*    peerSyncStarted flag set, so PeerSyncErr arms the timer of a flagged *)
(*    peer;                                                                *)
(*  - InitWhileDoInit: while the loop goroutine is inside doInit the       *)
(*    status is Init, so the branches of doInit that set FastSync or       *)
(*    Normal start from a state with no driver alive.                      *)
(* The typing it needs is that of the status, the control point and the   *)
(* driver sets only; the heights are not involved.                         *)
(***************************************************************************)
EXTENDS Synchronizer, FiniteSetTheorems, SequenceTheorems, TLAPS

TypeS ==
  /\ status \in SyncStatus
  /\ loopPc \in LoopPcs
  /\ fastSyncAlive \in BOOLEAN
  /\ peerSyncing \subseteq Peers
  /\ peerSyncStarted \subseteq Peers
  /\ cooling \subseteq Peers

AtMostOne == peerSyncing = {} \/ \E p \in Peers : peerSyncing = {p}

Drivers ==
  /\ fastSyncAlive <=> status = "FastSync"
  /\ (status = "PeerSync") <=> (peerSyncing # {})

SyncingStarted == peerSyncing \subseteq peerSyncStarted

InitWhileDoInit == loopPc \in {"choose", "fastcheck", "cp2fp"} => status = "Init"

IInv ==
  /\ TypeS /\ AtMostOne /\ Drivers /\ CooldownRespected
  /\ SyncingStarted /\ InitWhileDoInit

\* the variables IInv speaks of
core == <<status, loopPc, fastSyncAlive, peerSyncing, peerSyncStarted, cooling>>

-----------------------------------------------------------------------------

\* An empty or singleton set has at most one element.
LEMMA AtMostOneCard == AtMostOne => Cardinality(peerSyncing) <= 1
<1> SUFFICES ASSUME AtMostOne PROVE Cardinality(peerSyncing) <= 1
  OBVIOUS
<1>1. CASE peerSyncing = {}
  BY <1>1, FS_EmptySet
<1>2. CASE \E p \in Peers : peerSyncing = {p}
  BY <1>2, FS_Singleton
<1> QED BY <1>1, <1>2 DEF AtMostOne

\* IInv implies both invariants the sync_safety run checks.
LEMMA IInvImplies == IInv => StatusMatchesDrivers /\ CooldownRespected
BY AtMostOneCard DEF IInv, Drivers, StatusMatchesDrivers

LEMMA InitIInv == Init => IInv
BY DEF Init, IInv, TypeS, AtMostOne, Drivers, CooldownRespected,
       SyncingStarted, InitWhileDoInit, SyncStatus, LoopPcs

\* a step that leaves the six variables alone keeps IInv
LEMMA CoreUnchanged ==
  ASSUME IInv, UNCHANGED core
  PROVE  IInv'
BY DEF IInv, TypeS, AtMostOne, Drivers, CooldownRespected, SyncingStarted,
       InitWhileDoInit, core

\* a step of the loop goroutine that only moves it keeps IInv, as long as it
\* enters doInit only in status Init
LEMMA LoopMoves ==
  ASSUME IInv,
         UNCHANGED <<status, fastSyncAlive, peerSyncing, peerSyncStarted, cooling>>,
         loopPc' \in LoopPcs,
         loopPc' \in {"choose", "fastcheck", "cp2fp"} => status = "Init"
  PROVE  IInv'
BY DEF IInv, TypeS, AtMostOne, Drivers, CooldownRespected, SyncingStarted,
       InitWhileDoInit

\* DoInitEntry leads to idle or into doInit
LEMMA EntryPc == DoInitEntry => loopPc' \in {"idle", "choose"}
BY DEF DoInitEntry

-----------------------------------------------------------------------------

LEMMA NextIInv == IInv /\ [Next]_vars => IInv'
<1> SUFFICES ASSUME IInv, [Next]_vars PROVE IInv'
  OBVIOUS
<1>1. CASE UNCHANGED vars
  BY <1>1, CoreUnchanged DEF vars, core
<1>2. ASSUME NEW p \in Peers,
             AddPeer(p) \/ SendNewPeer(p) \/ RemovePeer(p) \/ CheckPeerLow(p)
               \/ CheckPeerRefused(p) \/ PeerSyncProgress(p)
      PROVE  IInv'
  BY <1>2, CoreUnchanged
     DEF AddPeer, SendNewPeer, RemovePeer, CheckPeerLow, CheckPeerRefused,
         PeerSyncProgress, core
<1>3. CASE NewPeerNormal \/ NewPeerBusy \/ FastSyncProgress \/ CP2FPTaskDone
  BY <1>3, CoreUnchanged
     DEF NewPeerNormal, NewPeerBusy, FastSyncProgress, CP2FPTaskDone, core
<1>4. CASE DoInitHang \/ DoInitNoFastSync \/ Quit
  BY <1>4, LoopMoves DEF DoInitHang, DoInitNoFastSync, Quit, LoopPcs
<1>5. CASE DoInitChoose
  <2>1. loopPc' \in {"cp2fp", "fastcheck"} /\ status = "Init"
    BY <1>5 DEF DoInitChoose, IInv, InitWhileDoInit
  <2> QED BY <1>5, <2>1, LoopMoves DEF DoInitChoose, LoopPcs
<1>6. CASE NewPeerInit
  BY <1>6, EntryPc, LoopMoves DEF NewPeerInit, LoopPcs
<1>7. CASE DoInitCP2FP
  <2>1. status = "Init" /\ ~fastSyncAlive /\ peerSyncing = {}
    BY <1>7 DEF DoInitCP2FP, IInv, InitWhileDoInit, Drivers
  <2> QED BY <1>7, <2>1
          DEF DoInitCP2FP, IInv, TypeS, AtMostOne, Drivers, CooldownRespected,
              SyncingStarted, InitWhileDoInit, SyncStatus, LoopPcs
<1>8. CASE DoInitFastSync
  <2>1. status = "Init" /\ peerSyncing = {}
    BY <1>8 DEF DoInitFastSync, IInv, InitWhileDoInit, Drivers
  <2> QED BY <1>8, <2>1
          DEF DoInitFastSync, IInv, TypeS, AtMostOne, Drivers, CooldownRespected,
              SyncingStarted, InitWhileDoInit, SyncStatus, LoopPcs
<1>9. CASE FastSyncFinished
  <2>1. peerSyncing = {}
    BY <1>9 DEF FastSyncFinished, IInv, Drivers
  <2> QED BY <1>9, <2>1
          DEF FastSyncFinished, IInv, TypeS, AtMostOne, Drivers,
              CooldownRespected, SyncingStarted, InitWhileDoInit, SyncStatus,
              LoopPcs
<1>10. CASE FastSyncErr
  <2>1. peerSyncing = {}
    BY <1>10 DEF FastSyncErr, IInv, Drivers
  <2>2. loopPc' \in {"idle", "choose"}
    BY <1>10, EntryPc DEF FastSyncErr
  <2> QED BY <1>10, <2>1, <2>2
          DEF FastSyncErr, IInv, TypeS, AtMostOne, Drivers, CooldownRespected,
              SyncingStarted, InitWhileDoInit, SyncStatus, LoopPcs
<1>11. ASSUME NEW p \in Peers, PeerSyncFinished(p) PROVE IInv'
  <2>1. peerSyncing = {p}
    BY <1>11 DEF PeerSyncFinished, IInv, AtMostOne
  <2>2. ~fastSyncAlive /\ p \notin cooling
    BY <1>11 DEF PeerSyncFinished, IInv, Drivers, CooldownRespected
  <2> QED BY <1>11, <2>1, <2>2
          DEF PeerSyncFinished, IInv, TypeS, AtMostOne, Drivers,
              CooldownRespected, SyncingStarted, InitWhileDoInit, SyncStatus
<1>12. ASSUME NEW p \in Peers, PeerSyncErr(p) PROVE IInv'
  <2>1. peerSyncing = {p} /\ p \in peerSyncStarted
    BY <1>12 DEF PeerSyncErr, IInv, AtMostOne, SyncingStarted
  <2>2. ~fastSyncAlive
    BY <1>12 DEF PeerSyncErr, IInv, Drivers
  <2> QED BY <1>12, <2>1, <2>2
          DEF PeerSyncErr, IInv, TypeS, AtMostOne, Drivers,
              CooldownRespected, SyncingStarted, InitWhileDoInit, SyncStatus
<1>13. ASSUME NEW p \in Peers, CooldownExpires(p) PROVE IInv'
  <2>1. p \notin peerSyncing
    BY <1>13 DEF CooldownExpires, IInv, CooldownRespected
  <2> QED BY <1>13, <2>1
          DEF CooldownExpires, IInv, TypeS, AtMostOne, Drivers,
              CooldownRespected, SyncingStarted, InitWhileDoInit
<1>14. ASSUME NEW p \in Peers, CheckPeerSync(p) PROVE IInv'
  <2>1. peerSyncing = {} /\ ~fastSyncAlive /\ p \notin cooling
    BY <1>14 DEF CheckPeerSync, CanPeerSync, IInv, Drivers, CooldownRespected
  <2>2. loopPc \notin {"choose", "fastcheck", "cp2fp"}
    BY <1>14 DEF CheckPeerSync, CanPeerSync, IInv, InitWhileDoInit
  <2> QED BY <1>14, <2>1, <2>2
          DEF CheckPeerSync, IInv, TypeS, AtMostOne, Drivers,
              CooldownRespected, SyncingStarted, InitWhileDoInit, SyncStatus
<1> QED BY <1>1, <1>2, <1>3, <1>4, <1>5, <1>6, <1>7, <1>8, <1>9, <1>10,
           <1>11, <1>12, <1>13, <1>14 DEF Next

LEMMA IInvSpec == Spec => []IInv
BY InitIInv, NextIInv, PTL DEF Spec

\* The status names the one driver that is alive: fast sync exactly in
\* FastSync, one peer sync exactly in PeerSync (loop() in sync.go).
THEOREM StatusMatchesDriversHolds == Spec => []StatusMatchesDrivers
BY IInvSpec, IInvImplies, PTL

\* A peer whose peer sync failed (peerSyncErrCh) is never synced with again
\* before its finishDependErrTime timer fires.
THEOREM CooldownRespectedHolds == Spec => []CooldownRespected
BY IInvSpec, IInvImplies, PTL


-----------------------------------------------------------------------------
(* Type correctness.  The one step that needs more than arithmetic is      *)
(* DoInitChoose: getHeightDiffFromRegularPeers takes the highest height of *)
(* the sample with a CHOOSE, which is a height only because a finite       *)
(* non-empty sample has a highest peer.  That peer is found without        *)
(* induction: among the sets Up(q) of the peers at least as high as q, one *)
(* is minimal for strict inclusion (finite subsets are well-founded), and  *)
(* its q is the highest.                                                   *)

\* a non-empty set of peers has a highest peer
LEMMA SampleMaxExists ==
  ASSUME NEW S \in SUBSET Peers, S # {}
  PROVE  \E q \in S : \A r \in S : PeerHeight[q] >= PeerHeight[r]
<1> DEFINE Up(q) == {r \in S : PeerHeight[r] >= PeerHeight[q]}
           T == {Up(q) : q \in S}
<1>1. IsFiniteSet(S)
  BY FS_Subset, SyncConstantsAssumption
<1>2. IsWellFoundedOn(StrictSubsetOrdering(S), SUBSET S)
  BY <1>1, FS_StrictSubsetOrderingWellFounded, FS_FiniteSubsetsOfFinite
<1>3. T \subseteq SUBSET S /\ T # {}
  OBVIOUS
<1>4. PICK Y \in T : \A Z \in T : ~(<<Z, Y>> \in StrictSubsetOrdering(S))
  BY <1>2, <1>3, WFMin
<1>5. PICK q \in S : Y = Up(q)
  BY <1>4
<1>6. ASSUME NEW r \in S, PeerHeight[r] > PeerHeight[q] PROVE FALSE
  <2>1. Up(r) \subseteq Up(q) /\ q \in Up(q) /\ q \notin Up(r)
    BY <1>6, SyncConstantsAssumption
  <2>2. <<Up(r), Up(q)>> \in StrictSubsetOrdering(S)
    BY <2>1 DEF StrictSubsetOrdering
  <2> QED BY <2>2, <1>4, <1>5
<1> QED BY <1>6, SyncConstantsAssumption

\* the diff doInit computes from a sample is an integer
LEMMA SampleDiffInt ==
  ASSUME NEW S \in SUBSET Peers, head \in Nat
  PROVE  SampleDiff(S) \in Int
<1> DEFINE hi == CHOOSE h \in {PeerHeight[q] : q \in S} :
                   \A q \in S : h >= PeerHeight[q]
<1>1. CASE S = {}
  BY <1>1 DEF SampleDiff
<1>2. CASE S # {}
  <2>1. \E h \in {PeerHeight[q] : q \in S} : \A q \in S : h >= PeerHeight[q]
    BY <1>2, SampleMaxExists
  <2>2. hi \in {PeerHeight[q] : q \in S}
    BY <2>1
  <2>3. hi \in Nat
    BY <2>2, SyncConstantsAssumption
  <2> QED BY <1>2, <2>3 DEF SampleDiff
<1> QED BY <1>1, <1>2


\* fastSyncAlive stays a Boolean whatever a step sets it to
LEMMA AliveBool ==
  ASSUME fastSyncAlive \in BOOLEAN,
         fastSyncAlive' \in {fastSyncAlive, TRUE, FALSE}
  PROVE  fastSyncAlive' \in BOOLEAN
BY Zenon

LEMMA InitTypeOK == Init => TypeOK
<1> SUFFICES ASSUME Init PROVE TypeOK
  OBVIOUS
<1>1. fastSyncAlive \in BOOLEAN
  BY Zenon DEF Init
<1> QED BY <1>1, SyncConstantsAssumption
        DEF Init, TypeOK, SyncStatus, LoopPcs, NoBlock

\* TypeOK without its one Boolean, which the SMT backend handles poorly
TypeRest ==
  /\ peers \subseteq Peers /\ sending \subseteq Peers
  /\ newPeerCh \in Seq(Peers) /\ Len(newPeerCh) <= NewPeerChCap
  /\ status \in SyncStatus
  /\ loopPc \in LoopPcs
  /\ head \in Nat /\ lastHeadBlock \in Nat \cup {NoBlock}
  /\ peerSyncing \subseteq Peers /\ peerSyncStarted \subseteq Peers
  /\ cooling \subseteq Peers /\ checking \subseteq Peers
  /\ cp2fpTasks \in Nat /\ initDiff \in Int
  /\ connects \in 0..MaxConnects

LEMMA NextTypeOK == TypeOK /\ [Next]_vars => TypeOK'
<1> SUFFICES ASSUME TypeOK, [Next]_vars PROVE TypeOK'
  OBVIOUS
<1>0. fastSyncAlive' \in BOOLEAN
  <2>1. fastSyncAlive' \in {fastSyncAlive, TRUE, FALSE}
    BY Zenon DEF Next, vars, AddPeer, SendNewPeer, RemovePeer,
       PeerSyncFinished, PeerSyncErr, CooldownExpires, CheckPeerLow,
       CheckPeerSync, CheckPeerRefused, PeerSyncProgress, DoInitHang,
       DoInitChoose, DoInitCP2FP, DoInitFastSync, DoInitNoFastSync,
       NewPeerInit, NewPeerNormal, NewPeerBusy, FastSyncFinished, FastSyncErr,
       Quit, FastSyncProgress, CP2FPTaskDone
  <2> QED BY <2>1, AliveBool DEF TypeOK
<1>9. TypeRest
  BY Zenon DEF TypeOK, TypeRest
<1> SUFFICES TypeRest'
  BY <1>0, Zenon DEF TypeOK, TypeRest
<1>1. CASE UNCHANGED vars
  BY <1>9, <1>1 DEF vars, TypeRest
<1>2. ASSUME NEW p \in Peers,
             AddPeer(p) \/ RemovePeer(p) \/ CooldownExpires(p)
               \/ CheckPeerLow(p) \/ CheckPeerRefused(p)
      PROVE  TypeRest'
  BY <1>9, <1>2, SyncConstantsAssumption
  DEF AddPeer, RemovePeer, CooldownExpires, CheckPeerLow, CheckPeerRefused,
      TypeRest
<1>3. ASSUME NEW p \in Peers, SendNewPeer(p) PROVE TypeRest'
  <2>1. Append(newPeerCh, p) \in Seq(Peers)
        /\ Len(Append(newPeerCh, p)) = Len(newPeerCh) + 1
    BY <1>9, AppendProperties DEF TypeRest
  <2>2. Len(newPeerCh) \in Nat /\ Len(newPeerCh) < NewPeerChCap
    BY <1>3, <1>9 DEF SendNewPeer, TypeRest
  <2>3. newPeerCh' \in Seq(Peers) /\ Len(newPeerCh') <= NewPeerChCap
    BY <1>3, <2>1, <2>2, SyncConstantsAssumption DEF SendNewPeer
  <2> QED BY <1>9, <1>3, <2>3 DEF SendNewPeer, TypeRest
<1>4. ASSUME NEW p \in Peers, PeerSyncFinished(p) \/ CheckPeerSync(p)
      PROVE  TypeRest'
  BY <1>9, <1>4
  DEF PeerSyncFinished, CheckPeerSync, NoBlock, TypeRest, SyncStatus
<1>10. ASSUME NEW p \in Peers, PeerSyncErr(p) PROVE TypeRest'
  <2>1. head' \in Nat
    BY <1>9, <1>10 DEF PeerSyncErr, RollBack, TypeRest, NoBlock
  <2> QED BY <1>9, <1>10, <2>1 DEF PeerSyncErr, TypeRest, SyncStatus
<1>11. ASSUME NEW p \in Peers, PeerSyncProgress(p) PROVE TypeRest'
  BY <1>9, <1>11 DEF PeerSyncProgress, TypeRest
<1>5. CASE DoInitChoose
  <2>1. PICK S \in SUBSET peers : initDiff' = SampleDiff(S)
    BY <1>5 DEF DoInitChoose
  <2>2. initDiff' \in Int
    BY <1>9, <2>1, SampleDiffInt DEF TypeRest
  <2> QED BY <1>9, <1>5, <2>2 DEF DoInitChoose, TypeRest, LoopPcs
<1>6. CASE NewPeerInit \/ NewPeerNormal \/ NewPeerBusy
  <2>1. /\ newPeerCh # <<>>
        /\ Tail(newPeerCh) \in Seq(Peers)
        /\ Len(Tail(newPeerCh)) = Len(newPeerCh) - 1
        /\ Head(newPeerCh) \in Peers
    BY <1>9, <1>6, HeadTailProperties
    DEF NewPeerInit, NewPeerNormal, NewPeerBusy, TypeRest
  <2>2. Len(newPeerCh) \in Nat
    BY <1>9 DEF TypeRest
  <2>4. newPeerCh' = Tail(newPeerCh)
    BY <1>6 DEF NewPeerInit, NewPeerNormal, NewPeerBusy
  <2>5. newPeerCh' \in Seq(Peers)
    BY <2>1, <2>4
  <2>6. Len(newPeerCh') <= NewPeerChCap
    BY <1>9, <2>1, <2>2, <2>4, SyncConstantsAssumption DEF TypeRest
  <2>3. newPeerCh' \in Seq(Peers) /\ Len(newPeerCh') <= NewPeerChCap
    BY <2>5, <2>6
  <2> QED BY <1>9, <1>6, <2>1, <2>3
          DEF NewPeerInit, NewPeerNormal, NewPeerBusy, DoInitEntry, TypeRest,
              LoopPcs
<1>7. CASE DoInitHang \/ DoInitCP2FP \/ DoInitFastSync \/ DoInitNoFastSync
             \/ Quit \/ FastSyncProgress \/ CP2FPTaskDone
  BY <1>9, <1>7
  DEF DoInitHang, DoInitCP2FP, DoInitFastSync, DoInitNoFastSync, Quit,
      FastSyncProgress, CP2FPTaskDone, Advance, TypeRest, LoopPcs, SyncStatus
<1>8. CASE FastSyncFinished \/ FastSyncErr
  BY <1>9, <1>8
  DEF FastSyncFinished, FastSyncErr, RollBack, DoInitEntry, NoBlock, TypeRest,
      LoopPcs, SyncStatus
<1> QED BY <1>1, <1>2, <1>3, <1>4, <1>5, <1>6, <1>7, <1>8, <1>10, <1>11
        DEF Next

\* Every state of the synchronizer is well typed: newPeerCh never holds
\* more than its capacity, the heights stay natural, the sampled diff an
\* integer, and AddPeer is called at most MaxConnects times.
THEOREM TypeCorrect == Spec => []TypeOK
BY InitTypeOK, NextTypeOK, PTL DEF Spec


-----------------------------------------------------------------------------
(* The refinement of SyncAbstract.  The mapping is the identity on the     *)
(* status and the three peer sets; what makes the steps abstract steps is  *)
(* IInv: in Normal no peer sync runs (Drivers), a running peer sync is the *)
(* only one (AtMostOne), and doInit's exits start from Init.               *)

\* the variables SyncAbstract sees
absCore == <<status, peerSyncing, peerSyncStarted, cooling>>

LEMMA InitAbs == Init => SyncAbs!AInit
BY DEF Init, SyncAbs!AInit

\* a step that leaves the status and the peer sets alone is an abstract
\* stutter
LEMMA AbsStutter ==
  ASSUME UNCHANGED absCore PROVE UNCHANGED SyncAbs!avars
BY DEF absCore, SyncAbs!avars

\* a peer-sync event in PeerSync concerns the one running peer sync
LEMMA RunningPeer ==
  ASSUME IInv, NEW p, p \in peerSyncing PROVE peerSyncing = {p}
BY DEF IInv, AtMostOne

LEMMA SyncStep == IInv /\ [Next]_vars => [SyncAbs!ANext]_SyncAbs!avars
<1> SUFFICES ASSUME IInv, [Next]_vars PROVE [SyncAbs!ANext]_SyncAbs!avars
  OBVIOUS
<1>1. CASE UNCHANGED vars
  BY <1>1, AbsStutter DEF vars, absCore
<1>2. ASSUME NEW p \in Peers,
             \/ AddPeer(p) \/ SendNewPeer(p) \/ RemovePeer(p)
             \/ CheckPeerLow(p) \/ CheckPeerRefused(p) \/ PeerSyncProgress(p)
      PROVE  [SyncAbs!ANext]_SyncAbs!avars
  BY <1>2, AbsStutter
  DEF AddPeer, SendNewPeer, RemovePeer, CheckPeerLow, CheckPeerRefused,
      PeerSyncProgress, absCore
<1>3. CASE \/ DoInitHang \/ DoInitChoose \/ DoInitNoFastSync
           \/ NewPeerInit \/ NewPeerNormal \/ NewPeerBusy \/ Quit
           \/ FastSyncProgress \/ CP2FPTaskDone
  BY <1>3, AbsStutter
  DEF DoInitHang, DoInitChoose, DoInitNoFastSync, NewPeerInit, NewPeerNormal,
      NewPeerBusy, Quit, FastSyncProgress, CP2FPTaskDone, absCore
<1>4. CASE DoInitCP2FP
  <2>1. status = "Init"
    BY <1>4 DEF DoInitCP2FP, IInv, InitWhileDoInit
  <2> QED BY <1>4, <2>1 DEF DoInitCP2FP, SyncAbs!SkipFastSync, SyncAbs!ANext
<1>5. CASE DoInitFastSync
  <2>1. status = "Init"
    BY <1>5 DEF DoInitFastSync, IInv, InitWhileDoInit
  <2> QED BY <1>5, <2>1
          DEF DoInitFastSync, SyncAbs!StartFastSync, SyncAbs!ANext
<1>6. CASE FastSyncFinished
  BY <1>6 DEF FastSyncFinished, SyncAbs!FastSyncDone, SyncAbs!ANext
<1>7. CASE FastSyncErr
  BY <1>7 DEF FastSyncErr, SyncAbs!FastSyncFailed, SyncAbs!ANext
<1>8. ASSUME NEW p \in Peers, CheckPeerSync(p)
      PROVE  [SyncAbs!ANext]_SyncAbs!avars
  <2>1. peerSyncing = {}
    BY <1>8 DEF CheckPeerSync, CanPeerSync, IInv, Drivers
  <2>2. SyncAbs!StartPeerSync(p)
    BY <1>8, <2>1 DEF CheckPeerSync, CanPeerSync, SyncAbs!StartPeerSync
  <2> QED BY <2>2 DEF SyncAbs!ANext
<1>9. ASSUME NEW p \in Peers, PeerSyncFinished(p)
      PROVE  [SyncAbs!ANext]_SyncAbs!avars
  <2>1. peerSyncing = {p}
    BY <1>9, RunningPeer DEF PeerSyncFinished
  <2>2. SyncAbs!PeerSyncDone(p)
    BY <1>9, <2>1 DEF PeerSyncFinished, SyncAbs!PeerSyncDone
  <2> QED BY <2>2 DEF SyncAbs!ANext
<1>10. ASSUME NEW p \in Peers, PeerSyncErr(p)
       PROVE  [SyncAbs!ANext]_SyncAbs!avars
  <2>1. peerSyncing = {p}
    BY <1>10, RunningPeer DEF PeerSyncErr
  <2>2. SyncAbs!PeerSyncFailed(p)
    BY <1>10, <2>1 DEF PeerSyncErr, SyncAbs!PeerSyncFailed
  <2> QED BY <2>2 DEF SyncAbs!ANext
<1>11. ASSUME NEW p \in Peers, CooldownExpires(p)
       PROVE  [SyncAbs!ANext]_SyncAbs!avars
  <2>1. SyncAbs!CooldownOver(p)
    BY <1>11 DEF CooldownExpires, SyncAbs!CooldownOver
  <2> QED BY <2>1 DEF SyncAbs!ANext
<1> QED BY <1>1, <1>2, <1>3, <1>4, <1>5, <1>6, <1>7, <1>8, <1>9, <1>10,
           <1>11 DEF Next

\* The loop, doInit, doCheckPeer/DoPeerSync and the cooldown timer implement
\* SyncAbstract: a peer sync starts only from Normal with none running and
\* with a peer whose peerSyncStarted flag is clear, the flag is cleared only
\* by a finished peer sync or by the end of the cooldown a failed one arms,
\* and the status follows the FSM.
THEOREM SyncRefinementHolds == Spec => SyncRefinement
<1>1. Init => SyncAbs!AInit
  BY InitAbs
<1>2. IInv /\ [Next]_vars => [SyncAbs!ANext]_SyncAbs!avars
  BY SyncStep
<1> QED BY <1>1, <1>2, IInvSpec, PTL DEF Spec, SyncRefinement, SyncAbs!ASpec

=============================================================================

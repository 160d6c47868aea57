---------------------------- MODULE Synchronizer ----------------------------
(***************************************************************************)
(* The top-level sync state machine of src/ftl/sync/sync.go: the event    *)
(* loop (Synchronizer.loop) with its five events, doInit, the doCheckPeer *)
(* goroutines, AddPeer / RemovePeer called by the network layer, and the  *)
(* 600 s cooldown timer a failed peer sync arms.                           *)
(*                                                                         *)
(* The sub-sync drivers (doFastSync, DoPeerSync, the CP2FP task) are not  *)
(* in src/; they are modelled from the spec (4.6-4.8) as tasks that move  *)
(* the chain head and report back on the loop's channels.  The chain is   *)
(* abstracted to the height of its current block.                          *)
(*                                                                         *)
(* doInit runs on the loop goroutine and reads s.peers without            *)
(* peersLock, so AddPeer and RemovePeer may run between its reads: it is  *)
(* split into the steps between which they can.                            *)
(***************************************************************************)
EXTENDS Integers, FiniteSets, Sequences

CONSTANTS
  Peers,                 \* peer ids
  PeerHeight,            \* the height each peer announces (p.Head())
  InitHeight,            \* the height of the current block at start
  MinRegularPeerCount,   \* config.SyncConfig
  MinFastSyncPeerCount,
  HeightDiff,
  NewPeerChCap,          \* capacity of newPeerCh (20 in NewSynchronizer)
  MaxConnects,           \* how many AddPeer calls the network layer makes
  DiffWidth              \* bits of the int32 getHeightDiffFromRegularPeers returns

ASSUME SyncConstantsAssumption ==
  /\ IsFiniteSet(Peers)
  /\ PeerHeight \in [Peers -> Nat]
  /\ InitHeight \in Nat
  /\ MinRegularPeerCount \in Nat
  /\ MinFastSyncPeerCount \in Nat
  /\ HeightDiff \in Int
  /\ NewPeerChCap \in Nat \ {0}
  /\ MaxConnects \in Nat
  /\ DiffWidth \in Nat \ {0}

\* peerSyncThreshold in sync.go
PeerSyncThreshold == 6

\* the status values of SyncStatus
SyncStatus == {"Init", "FastSync", "Normal", "PeerSync"}

\* where the loop goroutine is: waiting in select, inside doInit, blocked
\* in the synchronous cp2fp.startTask of doInit, spinning for ever in
\* generateDiffRandomNumbers, or returned after quit
LoopPcs == {"idle", "choose", "fastcheck", "cp2fp", "hung", "stopped"}

\* no lastHeadBlock (nil)
NoBlock == -1

VARIABLES
  peers,            \* s.peers, the ids of connected peers
  sending,          \* AddPeer calls past the map insert, blocked on newPeerCh
  newPeerCh,        \* the buffered channel of new-peer events
  status,           \* s.status
  loopPc,           \* where the loop goroutine is
  head,             \* height of chain.CurrentBlock()
  lastHeadBlock,    \* s.lastHeadBlock: a height, or NoBlock
  fastSyncAlive,    \* a doFastSync driver is running
  peerSyncing,      \* peers with a running DoPeerSync driver
  peerSyncStarted,  \* ids whose s.peerSyncStarted entry is true
  cooling,          \* ids with a pending finishDependErrTime timer
  checking,         \* peers with a pending doCheckPeer goroutine
  cp2fpTasks,       \* background cp2fp.startTask goroutines still running
  initDiff,         \* highest - currentHeight of doInit's sample, before the cast
  connects          \* AddPeer calls made so far

vars == <<peers, sending, newPeerCh, status, loopPc, head, lastHeadBlock,
          fastSyncAlive, peerSyncing, peerSyncStarted, cooling, checking,
          cp2fpTasks, initDiff, connects>>

\* the highest height the sub-syncs can bring the chain to
TopHeight == CHOOSE h \in {PeerHeight[p] : p \in Peers} \cup {InitHeight} :
               \A q \in Peers : h >= PeerHeight[q] /\ h >= InitHeight

\* a driver that inserts blocks moves the head up, at most to TopHeight
Advance(h) == h' \in (h + 1)..TopHeight

-----------------------------------------------------------------------------
(* Network layer: AddPeer and RemovePeer (sync.go 138-153)                 *)

\* NewSynchronizer: status Init, fast-sync mode and status None, no peers
Init ==
  /\ peers = {}
  /\ sending = {}
  /\ newPeerCh = <<>>
  /\ status = "Init"
  /\ loopPc = "idle"
  /\ head = InitHeight
  /\ lastHeadBlock = NoBlock
  /\ fastSyncAlive = FALSE
  /\ peerSyncing = {}
  /\ peerSyncStarted = {}
  /\ cooling = {}
  /\ checking = {}
  /\ cp2fpTasks = 0
  /\ initDiff = 0
  /\ connects = 0

\* AddPeer, under peersLock: the peer enters s.peers; the send on newPeerCh
\* comes after the unlock
AddPeer(p) ==
  /\ connects < MaxConnects
  /\ p \notin peers /\ p \notin sending
  /\ peers' = peers \cup {p}
  /\ sending' = sending \cup {p}
  /\ connects' = connects + 1
  /\ UNCHANGED <<newPeerCh, status, loopPc, head, lastHeadBlock, fastSyncAlive,
                 peerSyncing, peerSyncStarted, cooling, checking, cp2fpTasks,
                 initDiff>>

\* mutant: the send does not wait for room in the buffer
SendNewPeerUnbounded(p) ==
  /\ p \in sending
  /\ newPeerCh' = Append(newPeerCh, p)
  /\ sending' = sending \ {p}
  /\ UNCHANGED <<peers, status, loopPc, head, lastHeadBlock, fastSyncAlive,
                 peerSyncing, peerSyncStarted, cooling, checking, cp2fpTasks,
                 initDiff, connects>>

\* AddPeer, s.newPeerCh <- p: blocks while the buffer is full
SendNewPeer(p) ==
  /\ p \in sending
  /\ Len(newPeerCh) < NewPeerChCap
  /\ newPeerCh' = Append(newPeerCh, p)
  /\ sending' = sending \ {p}
  /\ UNCHANGED <<peers, status, loopPc, head, lastHeadBlock, fastSyncAlive,
                 peerSyncing, peerSyncStarted, cooling, checking, cp2fpTasks,
                 initDiff, connects>>

\* RemovePeer: delete under peersLock; nothing is sent to the loop
RemovePeer(p) ==
  /\ p \in peers
  /\ peers' = peers \ {p}
  /\ UNCHANGED <<sending, newPeerCh, status, loopPc, head, lastHeadBlock,
                 fastSyncAlive, peerSyncing, peerSyncStarted, cooling, checking,
                 cp2fpTasks, initDiff, connects>>

-----------------------------------------------------------------------------
(* doInit (sync.go 263-287) and getHeightDiffFromRegularPeers (332-350)    *)

\* the diff getHeightDiffFromRegularPeers returns for the sample S:
\* -1 when the current block is at least as high as every sampled peer
SampleDiff(S) ==
  LET highest == IF S = {} THEN 0
                 ELSE CHOOSE h \in {PeerHeight[q] : q \in S} :
                        \A q \in S : h >= PeerHeight[q]
  IN  IF head >= highest THEN -1 ELSE highest - head

\* the entry of doInit, on the loop goroutine: return at once when
\* len(s.peers) < MinRegularPeerCount
DoInitEntry ==
  loopPc' = IF Cardinality(peers) < MinRegularPeerCount THEN "idle" ELSE "choose"

\* randomChoosePeers draws MinRegularPeerCount distinct indices below
\* len(s.peers); generateDiffRandomNumbers never returns when the map,
\* read again without the lock, has shrunk below that count meanwhile
DoInitHang ==
  /\ loopPc = "choose"
  /\ Cardinality(peers) < MinRegularPeerCount
  /\ loopPc' = "hung"
  /\ UNCHANGED <<peers, sending, newPeerCh, status, head, lastHeadBlock,
                 fastSyncAlive, peerSyncing, peerSyncStarted, cooling, checking,
                 cp2fpTasks, initDiff, connects>>

\* int32(diff): the uint64 diff truncated to DiffWidth bits, two's complement
Int32Of(x) == ((x + 2^(DiffWidth - 1)) % 2^DiffWidth) - 2^(DiffWidth - 1)

\* a sample of MinRegularPeerCount peers, its height diff, and the branch
\* doInit takes on `diff < s.config.HeightDiff` with the int32 it returned
DoInitChoose ==
  /\ loopPc = "choose"
  /\ Cardinality(peers) >= MinRegularPeerCount
  /\ \E S \in SUBSET peers :
       /\ Cardinality(S) = MinRegularPeerCount
       /\ initDiff' = SampleDiff(S)
  /\ loopPc' = IF Int32Of(initDiff') < HeightDiff THEN "cp2fp" ELSE "fastcheck"
  /\ UNCHANGED <<peers, sending, newPeerCh, status, head, lastHeadBlock,
                 fastSyncAlive, peerSyncing, peerSyncStarted, cooling, checking,
                 cp2fpTasks, connects>>

\* diff < HeightDiff: cp2fp.startTask runs on the loop goroutine until it
\* returns, then the status becomes Normal
DoInitCP2FP ==
  /\ loopPc = "cp2fp"
  /\ head' \in head..TopHeight
  /\ status' = "Normal"
  /\ loopPc' = "idle"
  /\ UNCHANGED <<peers, sending, newPeerCh, lastHeadBlock, fastSyncAlive,
                 peerSyncing, peerSyncStarted, cooling, checking, cp2fpTasks,
                 initDiff, connects>>

\* enough peers for fast sync: status FastSync and `go s.doFastSync()`,
\* which records the current block as lastHeadBlock
DoInitFastSync ==
  /\ loopPc = "fastcheck"
  /\ Cardinality(peers) >= MinFastSyncPeerCount
  /\ status' = "FastSync"
  /\ fastSyncAlive' = TRUE
  /\ lastHeadBlock' = head
  /\ loopPc' = "idle"
  /\ UNCHANGED <<peers, sending, newPeerCh, head, peerSyncing, peerSyncStarted,
                 cooling, checking, cp2fpTasks, initDiff, connects>>

\* not enough peers for fast sync: stay in Init
DoInitNoFastSync ==
  /\ loopPc = "fastcheck"
  /\ Cardinality(peers) < MinFastSyncPeerCount
  /\ loopPc' = "idle"
  /\ UNCHANGED <<peers, sending, newPeerCh, status, head, lastHeadBlock,
                 fastSyncAlive, peerSyncing, peerSyncStarted, cooling, checking,
                 cp2fpTasks, initDiff, connects>>

-----------------------------------------------------------------------------
(* The loop's events (sync.go 155-261)                                      *)

\* case p := <-s.newPeerCh with status Init: doInit
NewPeerInit ==
  /\ loopPc = "idle" /\ newPeerCh # <<>>
  /\ status = "Init"
  /\ newPeerCh' = Tail(newPeerCh)
  /\ DoInitEntry
  /\ UNCHANGED <<peers, sending, status, head, lastHeadBlock, fastSyncAlive,
                 peerSyncing, peerSyncStarted, cooling, checking, cp2fpTasks,
                 initDiff, connects>>

\* case p := <-s.newPeerCh with status Normal: go s.doCheckPeer(p)
NewPeerNormal ==
  /\ loopPc = "idle" /\ newPeerCh # <<>>
  /\ status = "Normal"
  /\ newPeerCh' = Tail(newPeerCh)
  /\ checking' = checking \cup {Head(newPeerCh)}
  /\ UNCHANGED <<peers, sending, status, loopPc, head, lastHeadBlock,
                 fastSyncAlive, peerSyncing, peerSyncStarted, cooling,
                 cp2fpTasks, initDiff, connects>>

\* mutant: the newPeer case only drains the channel during FastSync
NewPeerBusyFastOnly ==
  /\ loopPc = "idle" /\ newPeerCh # <<>>
  /\ status = "FastSync"
  /\ newPeerCh' = Tail(newPeerCh)
  /\ UNCHANGED <<peers, sending, status, loopPc, head, lastHeadBlock,
                 fastSyncAlive, peerSyncing, peerSyncStarted, cooling, checking,
                 cp2fpTasks, initDiff, connects>>

\* case p := <-s.newPeerCh during FastSync or PeerSync: do nothing
NewPeerBusy ==
  /\ loopPc = "idle" /\ newPeerCh # <<>>
  /\ status \in {"FastSync", "PeerSync"}
  /\ newPeerCh' = Tail(newPeerCh)
  /\ UNCHANGED <<peers, sending, status, loopPc, head, lastHeadBlock,
                 fastSyncAlive, peerSyncing, peerSyncStarted, cooling, checking,
                 cp2fpTasks, initDiff, connects>>

\* case <-s.fastSyncFinishedCh in FastSync: Normal, lastHeadBlock = nil
FastSyncFinished ==
  /\ loopPc = "idle" /\ fastSyncAlive
  /\ status = "FastSync"
  /\ fastSyncAlive' = FALSE
  /\ status' = "Normal"
  /\ lastHeadBlock' = NoBlock
  /\ UNCHANGED <<peers, sending, newPeerCh, loopPc, head, peerSyncing,
                 peerSyncStarted, cooling, checking, cp2fpTasks, initDiff,
                 connects>>

\* the current block is set back to lastHeadBlock when there is one
RollBack == head' = IF lastHeadBlock # NoBlock THEN lastHeadBlock ELSE head

\* case <-s.fastSyncErrCh in FastSync: Init, modes None, roll back, doInit
FastSyncErr ==
  /\ loopPc = "idle" /\ fastSyncAlive
  /\ status = "FastSync"
  /\ fastSyncAlive' = FALSE
  /\ status' = "Init"
  /\ RollBack
  /\ DoInitEntry
  /\ UNCHANGED <<peers, sending, newPeerCh, lastHeadBlock, peerSyncing,
                 peerSyncStarted, cooling, checking, cp2fpTasks, initDiff,
                 connects>>

\* mutant: peerSyncStarted[p] is left set after a successful peer sync
PeerSyncFinishedKeepFlag(p) ==
  /\ loopPc = "idle" /\ p \in peerSyncing
  /\ status = "PeerSync"
  /\ peerSyncing' = peerSyncing \ {p}
  /\ status' = "Normal"
  /\ lastHeadBlock' = NoBlock
  /\ cp2fpTasks' = cp2fpTasks + 1
  /\ UNCHANGED <<peers, sending, newPeerCh, loopPc, head, fastSyncAlive,
                 peerSyncStarted, cooling, checking, initDiff, connects>>

\* case p := <-s.peerSyncFinishedCh in PeerSync: Normal, lastHeadBlock =
\* nil, peerSyncStarted[p] = false, go cp2fp.startTask
PeerSyncFinished(p) ==
  /\ loopPc = "idle" /\ p \in peerSyncing
  /\ status = "PeerSync"
  /\ peerSyncing' = peerSyncing \ {p}
  /\ status' = "Normal"
  /\ lastHeadBlock' = NoBlock
  /\ peerSyncStarted' = peerSyncStarted \ {p}
  /\ cp2fpTasks' = cp2fpTasks + 1
  /\ UNCHANGED <<peers, sending, newPeerCh, loopPc, head, fastSyncAlive,
                 cooling, checking, initDiff, connects>>

\* mutant: the status is left at PeerSync
PeerSyncErrKeepStatus(p) ==
  /\ loopPc = "idle" /\ p \in peerSyncing
  /\ status = "PeerSync"
  /\ peerSyncing' = peerSyncing \ {p}
  /\ RollBack
  /\ cooling' = cooling \cup {p}
  /\ cp2fpTasks' = cp2fpTasks + 1
  /\ UNCHANGED <<peers, sending, newPeerCh, status, loopPc, lastHeadBlock,
                 fastSyncAlive, peerSyncStarted, checking, initDiff, connects>>

\* mutant: peerSyncStarted[p] is cleared at once instead of by the timer
PeerSyncErrNoCooldown(p) ==
  /\ loopPc = "idle" /\ p \in peerSyncing
  /\ status = "PeerSync"
  /\ peerSyncing' = peerSyncing \ {p}
  /\ status' = "Normal"
  /\ RollBack
  /\ cooling' = cooling \cup {p}
  /\ peerSyncStarted' = peerSyncStarted \ {p}
  /\ cp2fpTasks' = cp2fpTasks + 1
  /\ UNCHANGED <<peers, sending, newPeerCh, loopPc, lastHeadBlock,
                 fastSyncAlive, checking, initDiff, connects>>

\* case p := <-s.peerSyncErrCh in PeerSync: Normal, roll back, arm the
\* finishDependErrTime timer, go cp2fp.startTask; lastHeadBlock is kept
PeerSyncErr(p) ==
  /\ loopPc = "idle" /\ p \in peerSyncing
  /\ status = "PeerSync"
  /\ peerSyncing' = peerSyncing \ {p}
  /\ status' = "Normal"
  /\ RollBack
  /\ cooling' = cooling \cup {p}
  /\ cp2fpTasks' = cp2fpTasks + 1
  /\ UNCHANGED <<peers, sending, newPeerCh, loopPc, lastHeadBlock,
                 fastSyncAlive, peerSyncStarted, checking, initDiff, connects>>

\* the time.AfterFunc callback: peerSyncStarted[p] = false, on the timer's
\* own goroutine
CooldownExpires(p) ==
  /\ p \in cooling
  /\ cooling' = cooling \ {p}
  /\ peerSyncStarted' = peerSyncStarted \ {p}
  /\ UNCHANGED <<peers, sending, newPeerCh, status, loopPc, head, lastHeadBlock,
                 fastSyncAlive, peerSyncing, checking, cp2fpTasks, initDiff,
                 connects>>

\* case <-s.syncQuitCh: the loop returns
Quit ==
  /\ loopPc = "idle"
  /\ loopPc' = "stopped"
  /\ UNCHANGED <<peers, sending, newPeerCh, status, head, lastHeadBlock,
                 fastSyncAlive, peerSyncing, peerSyncStarted, cooling, checking,
                 cp2fpTasks, initDiff, connects>>

-----------------------------------------------------------------------------
(* doCheckPeer (sync.go 289-297) and the sub-sync drivers                  *)

\* doCheckPeer: the peer is not far enough ahead
CheckPeerLow(p) ==
  /\ p \in checking
  /\ ~(head + PeerSyncThreshold < PeerHeight[p])
  /\ checking' = checking \ {p}
  /\ UNCHANGED <<peers, sending, newPeerCh, status, loopPc, head, lastHeadBlock,
                 fastSyncAlive, peerSyncing, peerSyncStarted, cooling,
                 cp2fpTasks, initDiff, connects>>

\* DoPeerSync starts a peer sync only from Normal and for a peer whose
\* peerSyncStarted flag is clear
CanPeerSync(p) == status = "Normal" /\ p \notin peerSyncStarted

\* doCheckPeer: currentHeight + peerSyncThreshold < height, DoPeerSync(p)
\* starts: PeerSync, the flag set, lastHeadBlock recorded
CheckPeerSync(p) ==
  /\ p \in checking
  /\ head + PeerSyncThreshold < PeerHeight[p]
  /\ CanPeerSync(p)
  /\ checking' = checking \ {p}
  /\ status' = "PeerSync"
  /\ peerSyncStarted' = peerSyncStarted \cup {p}
  /\ peerSyncing' = peerSyncing \cup {p}
  /\ lastHeadBlock' = head
  /\ UNCHANGED <<peers, sending, newPeerCh, loopPc, head, fastSyncAlive,
                 cooling, cp2fpTasks, initDiff, connects>>

\* doCheckPeer: DoPeerSync(p) declines
CheckPeerRefused(p) ==
  /\ p \in checking
  /\ head + PeerSyncThreshold < PeerHeight[p]
  /\ ~CanPeerSync(p)
  /\ checking' = checking \ {p}
  /\ UNCHANGED <<peers, sending, newPeerCh, status, loopPc, head, lastHeadBlock,
                 fastSyncAlive, peerSyncing, peerSyncStarted, cooling,
                 cp2fpTasks, initDiff, connects>>

\* the fast-sync driver inserts blocks
FastSyncProgress ==
  /\ fastSyncAlive
  /\ Advance(head)
  /\ UNCHANGED <<peers, sending, newPeerCh, status, loopPc, lastHeadBlock,
                 fastSyncAlive, peerSyncing, peerSyncStarted, cooling, checking,
                 cp2fpTasks, initDiff, connects>>

\* the peer-sync driver inserts blocks up to the peer's head
PeerSyncProgress(p) ==
  /\ p \in peerSyncing
  /\ head' \in (head + 1)..PeerHeight[p]
  /\ UNCHANGED <<peers, sending, newPeerCh, status, loopPc, lastHeadBlock,
                 fastSyncAlive, peerSyncing, peerSyncStarted, cooling, checking,
                 cp2fpTasks, initDiff, connects>>

\* a background cp2fp.startTask inserts what it fetches and returns
CP2FPTaskDone ==
  /\ cp2fpTasks > 0
  /\ head' \in head..TopHeight
  /\ cp2fpTasks' = cp2fpTasks - 1
  /\ UNCHANGED <<peers, sending, newPeerCh, status, loopPc, lastHeadBlock,
                 fastSyncAlive, peerSyncing, peerSyncStarted, cooling, checking,
                 initDiff, connects>>

Next ==
  \/ \E p \in Peers :
       \/ AddPeer(p) \/ SendNewPeer(p) \/ RemovePeer(p)
       \/ PeerSyncFinished(p) \/ PeerSyncErr(p) \/ CooldownExpires(p)
       \/ CheckPeerLow(p) \/ CheckPeerSync(p) \/ CheckPeerRefused(p)
       \/ PeerSyncProgress(p)
  \/ DoInitHang \/ DoInitChoose \/ DoInitCP2FP
  \/ DoInitFastSync \/ DoInitNoFastSync
  \/ NewPeerInit \/ NewPeerNormal \/ NewPeerBusy
  \/ FastSyncFinished \/ FastSyncErr \/ Quit
  \/ FastSyncProgress \/ CP2FPTaskDone

Spec == Init /\ [][Next]_vars

\* the receive on newPeerCh of the loop's select, in whatever status
ReadNewPeer == NewPeerInit \/ NewPeerNormal \/ NewPeerBusy

\* a step of doInit, which runs to its end on the loop goroutine
DoInitStep ==
  DoInitHang \/ DoInitChoose \/ DoInitCP2FP \/ DoInitFastSync \/ DoInitNoFastSync

\* Go's select picks among its ready cases at random, so a receive that is
\* ready again and again is taken (strong fairness); blocked senders on a
\* channel are served in FIFO order (strong fairness per sender); doInit
\* does not stop part-way.  Nothing is assumed of the drivers or the timer.
FairSpec ==
  /\ Spec
  /\ SF_vars(ReadNewPeer)
  /\ WF_vars(DoInitStep)
  /\ \A p \in Peers : SF_vars(SendNewPeer(p))

-----------------------------------------------------------------------------
(* Properties                                                              *)

TypeOK ==
  /\ peers \subseteq Peers /\ sending \subseteq Peers
  /\ newPeerCh \in Seq(Peers) /\ Len(newPeerCh) <= NewPeerChCap
  /\ status \in SyncStatus
  /\ loopPc \in LoopPcs
  /\ head \in Nat /\ lastHeadBlock \in Nat \cup {NoBlock}
  /\ fastSyncAlive \in BOOLEAN
  /\ peerSyncing \subseteq Peers /\ peerSyncStarted \subseteq Peers
  /\ cooling \subseteq Peers /\ checking \subseteq Peers
  /\ cp2fpTasks \in Nat /\ initDiff \in Int
  /\ connects \in 0..MaxConnects

\* The status the loop holds names the one driver that reports to it: a
\* fast-sync driver runs exactly in FastSync, a peer-sync driver exactly in
\* PeerSync, and never two.  A driver's finished/err event is therefore
\* never dropped by the `status == ...` checks of loop(), and the loop is
\* never left in FastSync or PeerSync with nobody to end it.
StatusMatchesDrivers ==
  /\ fastSyncAlive <=> status = "FastSync"
  /\ (status = "PeerSync") <=> (peerSyncing # {})
  /\ Cardinality(peerSyncing) <= 1

\* After a failed peer sync with p (peerSyncErr), no new peer sync with p
\* runs until the finishDependErrTime timer has fired (spec 8, Cooldown).
CooldownRespected ==
  \A p \in cooling : p \in peerSyncStarted /\ p \notin peerSyncing

\* Spec 8, Mutual exclusion: at most one of the CP2FP, FastSync and
\* PeerSync drivers is alive at any instant.
MutualExclusion ==
  (IF fastSyncAlive THEN 1 ELSE 0) + Cardinality(peerSyncing) + cp2fpTasks
    + (IF loopPc = "cp2fp" THEN 1 ELSE 0) <= 1

\* The loop goroutine never blocks for ever inside doInit: it always gets
\* back to its select (the comment on generateDiffRandomNumbers: it chooses
\* `length` numbers of `bucketSize`).
LoopNeverHangs == loopPc # "hung"

\* an AddPeer(p) whose event the loop has not received yet: blocked on the
\* send, or buffered in newPeerCh
Pending(p) == p \in sending \/ \E i \in 1..Len(newPeerCh) : newPeerCh[i] = p

\* Every AddPeer returns and its new-peer event reaches the loop, unless the
\* loop goroutine has returned (Stop) or hangs in doInit: the loop drains
\* newPeerCh in every status, whatever the sub-sync drivers do, so no
\* network goroutine stays blocked on `s.newPeerCh <- p`.
AddPeerServed ==
  \A p \in Peers :
    Pending(p) ~> (~Pending(p) \/ loopPc \in {"hung", "stopped"})

\* Spec 4.1 (the FSM: enough peers and diff >= HeightDiff lead to fast
\* sync): doInit takes the CP2FP branch only when the sampled peers are
\* less than HeightDiff blocks ahead of the current block.
CP2FPOnlyWhenClose == loopPc = "cp2fp" => initDiff < HeightDiff


\* the status machine seen through the status and the peer-sync bookkeeping
SyncAbs == INSTANCE SyncAbstract WITH
             syncing <- peerSyncing, started <- peerSyncStarted

\* The loop, doInit, doCheckPeer/DoPeerSync and the cooldown timer together
\* implement SyncAbstract: a peer sync starts only from Normal with no
\* other running and with a peer whose peerSyncStarted flag is clear; the
\* flag is cleared by a finished peer sync or by the end of the cooldown a
\* failed one arms, and by nothing else; the status changes only along the
\* FSM's edges, so a node that reached Normal never re-enters Init or
\* FastSync.
SyncRefinement == SyncAbs!ASpec

=============================================================================

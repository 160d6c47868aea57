------------------------------- MODULE Cursor -------------------------------
(***************************************************************************)
(* The ordered block inserter of ftl/sync/cursor.go.  A Cursor is given   *)
(* the agreed hash list (HashElems) and is fed blocks, one call of        *)
(* ProcessBlock at a time and in any order, by the goroutine that drains  *)
(* the fetcher's block channel.  Each call buffers the block, keeps the   *)
(* buffer sorted by (round, hash) and makes one pass over it: a block     *)
(* whose round is not beyond the current target, whose dependencies are   *)
(* in the chain and which verifies is inserted; the one that is the       *)
(* target hashElems[index] is also executed and index advances.           *)
(*                                                                         *)
(* The pass is modelled one loop iteration per step (pc = "loop"), over   *)
(* the snapshot of the buffer taken when the loop starts (todo) while the *)
(* removals go to the copy (rest) that replaces the buffer at the end.    *)
(* The buffer is a bag: iterating a sorted slice is taking, step by step, *)
(* its least element in the (round, hash) order.  A block is a natural    *)
(* number that stands for its full hash, so hash order is number order.   *)
(***************************************************************************)
EXTENDS Naturals, Sequences, FiniteSets

CONSTANTS
  Blocks,        \* the blocks peers may deliver; a block is its full hash
  Round,         \* Round[b]: b.Header.Round
  Height,        \* Height[b]: b.Header.Height
  Depends,       \* Depends[b]: what chain.VerifyBlockDepend(b) needs present
  Invalid,       \* the blocks chain.VerifyBlock rejects
  InitChain,     \* the blocks the local chain already holds
  HashElems,     \* c.hashElems: the agreed main-chain list
  SetHead,       \* c.setHead: InsertBlock (TRUE) or InsertPastBlock (FALSE)
  Pkgs,          \* tx packages
  FuturePkgs,    \* FuturePkgs[b]: packages waiting in the chain for block b
  KnownPkgs,     \* packages chain.HasTxPackage already reports
  BadPkgs,       \* packages chain.VerifyTxPackage rejects
  MaxDups,       \* bound on deliveries of a block already delivered once
  MaxPastErrors  \* bound on InsertPastBlock failures

ASSUME BlocksAssumption ==
  /\ Blocks \subseteq Nat
  /\ Round \in [Blocks -> Nat]
  /\ Height \in [Blocks -> Nat]
  /\ Depends \in [Blocks -> SUBSET Blocks]
  /\ Invalid \subseteq Blocks
  /\ InitChain \subseteq Blocks

\* NewCursor is only called with a non-empty list (checkBlock reads hashElems[0]).
ASSUME HashElemsAssumption ==
  HashElems \in Seq(Blocks) /\ Len(HashElems) > 0

ASSUME PkgsAssumption ==
  /\ FuturePkgs \in [Blocks -> SUBSET Pkgs]
  /\ KnownPkgs \subseteq Pkgs
  /\ BadPkgs \subseteq Pkgs

ASSUME BoundsAssumption ==
  /\ SetHead \in BOOLEAN
  /\ MaxDups \in Nat
  /\ MaxPastErrors \in Nat

\* checkHeightMaxDiff of cursor.go
CheckHeightMaxDiff == 10

VARIABLES
  index,      \* c.index
  blocks,     \* c.blocks, as a bag [Blocks -> Nat]
  todo,       \* what the running range loop has still to visit
  rest,       \* the copy `blocks` the loop removes inserted blocks from
  pc,         \* "idle" between calls, "loop" in the range loop, "end" after a break
  chain,      \* blocks in the chain: InitChain and every InsertBlockNoCheck
  mainChain,  \* blocks executed by InsertBlock / InsertPastBlock, in order
  future,     \* the chain's future tx packages, per block
  pool,       \* packages handed to packer.InsertRemoteTxPackage
  finished,   \* c.finished
  running,    \* c.running
  received,   \* blocks delivered at least once
  dups,       \* deliveries of blocks already delivered
  pastErrors  \* InsertPastBlock failures so far

vars == <<index, blocks, todo, rest, pc, chain, mainChain, future, pool,
          finished, running, received, dups, pastErrors>>

envVars == <<received, dups, pastErrors>>

-----------------------------------------------------------------------------
(* Helpers *)

EmptyBag == [b \in Blocks |-> 0]

BagAdd(f, b) == [f EXCEPT ![b] = @ + 1]

\* blocks.Remove(hash): one copy of b leaves the bag
BagTake(f, b) == [f EXCEPT ![b] = @ - 1]

Support(f) == {b \in Blocks : f[b] > 0}

\* mutant: the buffer sorted by hash alone
BeforeByHash(a, b) == a < b

\* the (round, fullHash) order of Blocks.SortByRoundHash
Before(a, b) == Round[a] < Round[b] \/ (Round[a] = Round[b] /\ a < b)

\* b comes first in the sorted bag f
IsFirst(b, f) == \A c \in Support(f) : c = b \/ Before(b, c)

\* c.hashElems[c.index]; index is 0-based as in the code
Target == HashElems[index + 1]

\* mutant: the main-chain test compares rounds instead of hashes
IsTargetByRound(b) == Round[b] = Round[Target]

\* block.FullHash() == c.hashElems[c.index].Hash
IsTarget(b) == b = Target

\* mutant: incIndex steps over the next hash-list element
IncIndexSkip == index' = index + 2

\* incIndex
IncIndex == index' = index + 1

\* mutant: the cursor declared finished one element early
ListDoneEarly == index >= Len(HashElems) - 1

\* c.index >= uint64(len(c.hashElems)) after the loop
ListDone == index >= Len(HashElems)

\* checkBlock: nil error iff the block lies in the height window
CheckBlock(b) ==
  LET h0 == Height[HashElems[1]]
  IN  IF Height[b] < h0 THEN h0 - Height[b] < CheckHeightMaxDiff
                        ELSE Height[b] - h0 < Len(HashElems)

\* the packages processFutureTxPackages(b) inserts: insertTxPackage is
\* true for a package the chain lacks and that verifies
AcceptedPkgs(b) == {p \in future[b] : p \notin KnownPkgs /\ p \notin BadPkgs}

\* processFutureTxPackages(b): insert them into the pool and
\* RemoveFutureBlockTxPackage each of them (by package hash)
ProcessFuture(b) ==
  /\ pool' = pool \cup AcceptedPkgs(b)
  /\ future' = [x \in Blocks |-> future[x] \ AcceptedPkgs(b)]

-----------------------------------------------------------------------------
(* Operations *)

Init ==
  /\ index = 0
  /\ blocks = EmptyBag
  /\ todo = EmptyBag
  /\ rest = EmptyBag
  /\ pc = "idle"
  /\ chain = InitChain
  /\ mainChain = << >>
  /\ future = FuturePkgs
  /\ pool = {}
  /\ finished = FALSE
  /\ running = FALSE
  /\ received = {}
  /\ dups = 0
  /\ pastErrors = 0

\* Start: atomic.StoreInt32(&c.running, 1); its caller starts a cursor
\* once, before the cursor has finished
Start ==
  /\ ~running
  /\ ~finished
  /\ running' = TRUE
  /\ UNCHANGED <<index, blocks, todo, rest, pc, chain, mainChain, future,
                 pool, finished, envVars>>

\* A call of ProcessBlock(b) by the block-channel consumer, which calls it
\* one block at a time and stops once the cursor is finished.
Deliver(b) ==
  /\ pc = "idle"
  /\ ~finished
  /\ b \notin received \/ dups < MaxDups
  /\ received' = received \cup {b}
  /\ dups' = IF b \in received THEN dups + 1 ELSE dups

\* ProcessBlock, checkBlock fails: the block is too low or too high
RejectBlock(b) ==
  /\ Deliver(b)
  /\ ~CheckBlock(b)
  /\ UNCHANGED <<index, blocks, todo, rest, pc, chain, mainChain, future,
                 pool, finished, running, pastErrors>>

\* ProcessBlock, checkBlock passes: append, sort, copy, enter the loop
ProcessBlock(b) ==
  /\ Deliver(b)
  /\ CheckBlock(b)
  /\ blocks' = BagAdd(blocks, b)
  /\ todo' = blocks'
  /\ rest' = blocks'
  /\ pc' = "loop"
  /\ UNCHANGED <<index, chain, mainChain, future, pool, finished, running,
                 pastErrors>>

\* mutant: the loop does not stop at the end of the buffer
VisitPastEnd(b) ==
  /\ pc = "loop"
  /\ IsFirst(b, todo)
  /\ todo' = BagTake(todo, b)

\* the loop visits b, the least block it has not visited yet
Visit(b) ==
  /\ pc = "loop"
  /\ b \in Support(todo)
  /\ IsFirst(b, todo)
  /\ todo' = BagTake(todo, b)

\* mutant: VerifyBlockDepend not consulted
InsertableNoDepend(b) ==
  /\ Round[b] <= Round[Target]
  /\ b \notin Invalid

\* b passes the round test, VerifyBlockDepend and VerifyBlock
Insertable(b) ==
  /\ Round[b] <= Round[Target]
  /\ Depends[b] \subseteq chain
  /\ b \notin Invalid

\* `continue`: round beyond the target, a dependency missing, or invalid
Skip(b) ==
  /\ Visit(b)
  /\ ~Insertable(b)
  /\ UNCHANGED <<index, blocks, rest, pc, chain, mainChain, future, pool,
                 finished, running, envVars>>

\* InsertBlockNoCheck of a block that is not the target
InsertSide(b) ==
  /\ Visit(b)
  /\ Insertable(b)
  /\ ~IsTarget(b)
  /\ chain' = chain \cup {b}
  /\ rest' = BagTake(rest, b)
  /\ UNCHANGED <<index, blocks, pc, mainChain, future, pool, finished,
                 running, envVars>>

\* InsertBlockNoCheck of the target, InsertBlock or a successful
\* InsertPastBlock, processFutureTxPackages, incIndex, break at the end
ExecMain(b) ==
  /\ Visit(b)
  /\ Insertable(b)
  /\ IsTarget(b)
  /\ chain' = chain \cup {b}
  /\ rest' = BagTake(rest, b)
  /\ mainChain' = Append(mainChain, b)
  /\ ProcessFuture(b)
  /\ IncIndex
  /\ pc' = IF index' >= Len(HashElems) THEN "end" ELSE "loop"
  /\ UNCHANGED <<blocks, finished, running, envVars>>

\* as ExecMain, but InsertPastBlock returns an error: the future packages
\* are still processed, then the loop breaks without incIndex
ExecMainFails(b) ==
  /\ Visit(b)
  /\ Insertable(b)
  /\ IsTarget(b)
  /\ ~SetHead
  /\ pastErrors < MaxPastErrors
  /\ pastErrors' = pastErrors + 1
  /\ chain' = chain \cup {b}
  /\ rest' = BagTake(rest, b)
  /\ ProcessFuture(b)
  /\ pc' = "end"
  /\ UNCHANGED <<index, blocks, mainChain, finished, running, received, dups>>

\* after the loop: c.blocks = blocks, and Finish() once index reached the end
EndLoop ==
  /\ \/ pc = "loop" /\ Support(todo) = {}
     \/ pc = "end"
  /\ blocks' = rest
  /\ todo' = EmptyBag
  /\ pc' = "idle"
  /\ IF ListDone
       THEN finished' = TRUE /\ running' = FALSE
       ELSE UNCHANGED <<finished, running>>
  /\ UNCHANGED <<index, rest, chain, mainChain, future, pool, envVars>>

\* one step of the running ProcessBlock call
CursorStep ==
  \/ \E b \in Blocks : Skip(b) \/ InsertSide(b) \/ ExecMain(b) \/ ExecMainFails(b)
  \/ EndLoop

Next ==
  \/ Start
  \/ \E b \in Blocks : ProcessBlock(b) \/ RejectBlock(b)
  \/ CursorStep

\* The cursor's goroutine does not stop inside a call, and the fetcher
\* delivers every block of the range at least once.
Fairness ==
  /\ WF_vars(CursorStep)
  /\ \A b \in Blocks : WF_vars(b \notin received /\ (ProcessBlock(b) \/ RejectBlock(b)))

Spec == Init /\ [][Next]_vars

FairSpec == Spec /\ Fairness

-----------------------------------------------------------------------------
(* Properties *)

TypeOK ==
  /\ index \in 0..Len(HashElems)
  /\ blocks \in [Blocks -> Nat]
  /\ todo \in [Blocks -> Nat]
  /\ rest \in [Blocks -> Nat]
  /\ pc \in {"idle", "loop", "end"}
  /\ chain \subseteq Blocks
  /\ mainChain \in Seq(Blocks)
  /\ future \in [Blocks -> SUBSET Pkgs]
  /\ pool \subseteq Pkgs
  /\ finished \in BOOLEAN
  /\ running \in BOOLEAN
  /\ received \subseteq Blocks
  /\ dups \in 0..MaxDups
  /\ pastErrors \in 0..MaxPastErrors

\* The blocks executed as main chain (InsertBlock / InsertPastBlock that
\* succeeded) are exactly hashElems[0..index-1], in list order, each once,
\* whatever order the blocks arrived in and however often.
ExecutedPrefix == mainChain = SubSeq(HashElems, 1, index)

\* Every block the cursor put into the chain passed VerifyBlock, and its
\* dependencies (VerifyBlockDepend) are in the chain.
ChainSound ==
  \A b \in chain \ InitChain : b \notin Invalid /\ Depends[b] \subseteq chain

\* When the cursor reports IsFinished, the whole hash list was executed.
FinishedComplete == finished => mainChain = HashElems

\* Once every block of the range has been delivered, the cursor finishes
\* (no single pass leaves an executable main-chain block behind).
Completion == <>finished

\* Spec 4.5 and design note (a): a block VerifyBlock rejects is dropped
\* silently.  Between calls, no such block stays buffered once the loop
\* could have reached it (its round is not beyond the current target).
InvalidDropped ==
  (pc = "idle" /\ ~finished) =>
    \A b \in Invalid : blocks[b] > 0 => Round[b] > Round[Target]

\* The cursor implements the abstract cursor of CursorAbstract: under the
\* mapping executed <- mainChain, done <- finished, every ProcessBlock step
\* either executes the next block of the hash list or changes nothing the
\* driver sees, and Finish() happens only once the list is complete.
Abs == INSTANCE CursorAbstract WITH executed <- mainChain, done <- finished

CursorRefinement == Abs!ASpec

=============================================================================

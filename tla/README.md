# Formal models of the fractal synchronizer, block cursor and state transition

This directory holds TLA+ models of five parts of the repository, the TLC
configurations that check them, and TLAPS proofs about the block cursor and
the synchronizer.
Every definition is translated from the Go source under `src/`. The map in
`PROJECT.json` names the lines each definition models.

## The system and its parts

| part | source | module | status |
|------|--------|--------|--------|
| Block cursor | `src/ftl/sync/cursor.go` | `Cursor`, `CursorAbstract`, `CursorProofs` | modelled, refinement proved |
| Synchronizer state machine | `src/ftl/sync/sync.go` | `Synchronizer`, `SynchronizerProofs` | partly, two invariants proved |
| Transaction state transition | `src/transaction/txexec/state_transition.go` | `StateTransition` | modelled |
| CP2FP, fast-sync and peer-sync drivers | not under `src/` | `Synchronizer` (spec-modelled drivers) | environment only |
| Main-chain consensus check (`findAndCheckMainChain`) | `sync.go` 299-329 | `MainChainCheck` | partly (its callees are not in `src/`) |
| Block fetcher start | `src/ftl/downloader/blocksync.go` | none | not modelled |
| State downloader constructor | `src/core/state/sync.go` | none | not modelled |
| Bloom filter | `src/core/types/bloom9.go` | `Bloom` | modelled |
| CLI, API, miner, packer, accessors, generated JSON, tests | `src/cmd`, `src/ftl/api`, `src/miner`, `src/packer`, ... | none | not modelled |

How the parts interact:
- The network layer calls `AddPeer` and `RemovePeer` on the **Synchronizer**.
- The Synchronizer's `loop` goroutine reacts to new peers and to the
  finished and error events of its sub-sync drivers: CP2FP, fast sync and
  peer sync.
- The drivers fetch a range of blocks and feed each one to a **Cursor**.
  The cursor buffers blocks, inserts them once their dependencies are in the
  chain, and executes the main-chain blocks in the order of a hash list.
- Executing a block runs its transactions through the **state transition**.
  That code charges gas, moves value, and pays the coinbase.
- A block's receipts give its log **Bloom filter** (`CreateBloom`), which
  `BloomLookup` queries.
- Fast sync and peer sync use **findAndCheckMainChain** to agree on a main
  chain with a group of peers and to drop the peers that disagree.

The driver code itself is not in this repository. The Synchronizer module
closes its environment with small actions modelled from `spec.md`:
- `FastSyncProgress` and `PeerSyncProgress`;
- `CP2FPTaskDone`;
- the `DoPeerSync` guard `CanPeerSync`.

The map marks these definitions `spec_modelled`.

## Modules

### `Cursor` (cursor.go)

State:
- `index`, `finished` and `running` are the cursor's fields.
- `blocks` is the sorted buffer, modelled as a bag `[Blocks -> Nat]`.
- `todo` and `rest` stand for the range loop: the elements not yet
  visited, and the copy that inserted blocks are removed from.
- `pc` locates the running `ProcessBlock` call.
- `chain`, `mainChain`, `future` and `pool` are the chain and packer
  effects.
- `received`, `dups` and `pastErrors` bound the environment.

A call of `ProcessBlock` is split into steps. This lets the loop be observed
part-way through. Calls do not interleave with each other: one consumer
goroutine calls `ProcessBlock`, and the `pc = "idle"` guard preserves that.

| action | code |
|--------|------|
| `RejectBlock` | `checkBlock` fails (112-116) |
| `ProcessBlock` | append, sort, copy (119-124) |
| `Skip` | each `continue` (126-139) |
| `InsertSide` | `InsertBlockNoCheck` of a non-main block (141-144) |
| `ExecMain` | main-chain execution with `processFutureTxPackages` and `incIndex` (145-171) |
| `ExecMainFails` | the `InsertPastBlock` error path (158-166) |
| `EndLoop` | `c.blocks = blocks`, then the finish test (172-179) |

Blocks have:
- constant rounds and heights;
- dependency sets;
- an `Invalid` set for blocks that `VerifyBlock` rejects.

The order `Before` is `SortByRoundHash`: round first, then hash.

### `Synchronizer` (sync.go)

State:
- the `peers` map;
- AddPeer goroutines blocked on the send (`sending`);
- `newPeerCh`, a bounded sequence with capacity `NewPeerChCap`;
- the sync `status`;
- the loop goroutine's control point `loopPc`;
- the chain `head` and `lastHeadBlock`;
- the drivers that are alive: `fastSyncAlive`, `peerSyncing` and the count
  `cp2fpTasks`;
- the `peerSyncStarted` map and the peers in cooldown;
- the running `doCheckPeer` goroutines (`checking`).

`doInit` is split where the code reads `s.peers` without the lock:
- `DoInitEntry` is the `len(s.peers)` test;
- `DoInitChoose` and `DoInitHang` are `randomChoosePeers` and
  `generateDiffRandomNumbers`;
- `DoInitCP2FP`, `DoInitFastSync` and `DoInitNoFastSync` are the branches.

This split lets `AddPeer` and `RemovePeer` interleave exactly where they can
in the code. Each `case` of the loop's `select` is one action:
`NewPeerInit`, `NewPeerNormal`, `NewPeerBusy`, `FastSyncFinished`,
`FastSyncErr`, `PeerSyncFinished`, `PeerSyncErr` and `Quit`. The
`time.AfterFunc` callback is `CooldownExpires`, which runs on its own.

The branch of doInit is taken on `int32(diff)`: `Int32Of` truncates the
exact gap `initDiff` to `DiffWidth` bits in two's complement. The code has
32 bits; the runs use 5 bits (no wrap at the model's heights) or 4 bits
(`sync_cast`, where a gap of 10 wraps to -6).

`FairSpec` adds the fairness of the Go runtime (see Fairness) for the
liveness run.

### `SyncAbstract` and the refinement

`SyncAbstract` is what the state machine promises, seen through the status
and the peer-sync bookkeeping only (spec 4.1 and 8):
- from `Init` the node fast-syncs or goes straight to `Normal`;
- a fast sync ends in `Normal` or fails back to `Init`;
- a peer sync starts only from `Normal`, with none running, and only with a
  peer whose `peerSyncStarted` flag is clear; it sets the flag;
- a finished peer sync clears the flag; a failed one keeps it and puts the
  peer in cooldown, and only the end of the cooldown clears it.

`SyncAbs` in `Synchronizer` maps the status, `peerSyncing`,
`peerSyncStarted` and `cooling` onto it unchanged. `SyncRefinement` is the
abstract specification as a property.

### `CursorAbstract` and the refinement

`CursorAbstract` is what the cursor promises its driver: the main-chain
blocks are executed one at a time in hash-list order (`Execute`), and the
cursor finishes only after the last one (`Finish`). `Cursor` maps onto it by
`executed <- mainChain` and `done <- finished`; `CursorRefinement` is the
abstract specification as a property of the cursor. Buffering, side blocks,
rejections and failed inserts are stutters of the abstract cursor. TLC
checks the refinement in `cursor_live` (the `InsertBlock` path), and
`RefinementHolds` proves it for both paths, failed `InsertPastBlock` calls
included.

### `MainChainCheck` (sync.go 299-329)

One call of `findAndCheckMainChain`. `findMainChainPeers` and
`doSyncAndCheckFixPoint` are not in `src/`, so their results are inputs
chosen among what their signatures allow. Each return path is an action:
- `FindNotEnough`: `errNotEnoughPeers`;
- `FindNoConsensus`: another error, and every peer of the group removed;
- `SelfBest`: no left peers;
- `FindOk` then `Check`: the check of the main chain, whose failure
  (`CheckFailed`, line 321) removes `errPeers` and returns `nil, err`.

### `Bloom` (bloom9.go)

The filter is a sequence of `BloomByteLength` bytes, read big-endian as a
`big.Int`. Keccak256 is the constant table `Hash`. The conversions are
modelled by what they do:
- `BytesToInt` is `big.Int.SetBytes`;
- `IntToBytes` is `big.Int.Bytes()`, the minimal big-endian bytes;
- `SetBytes` right-aligns and panics when the input is too long.

`Add` and `Create` (`CreateBloom` through `LogsBloom`) are the actions.
`BitIndex` is the mask of line 109, `OnesOf` the loop of `Count`, and
`BloomLookup` the comparison of line 120. The recursive operators keep this
module for TLC only.

### `StateTransition` (state_transition.go)

The model follows one transaction through `SimpleTransitionDb` or
`WasmTransitionDb`. Every early return is an action ending at
`pc = "done"` with its error.

Arithmetic is `W`-bit unsigned (`U(x) == x % 2^W`), so the uint64 overflow
checks of `IntrinsicGas` and the unchecked product of `createWasmAccount`
behave as in the code at a small width.

The nonce set, the Wasm engine and the addresses are abstracted. The message
carries Boolean outcomes for them: `resetOk`, `nonceOk`, `addOk`, `hasCode`
and `wasmOk`. The engine may leave any gas between 0 and what it was given.
`StateTransitionAssumption` asks that every message is in `MsgType`: `Gas()`
a `W`-bit word, price, value and data lengths natural, as the types of
`Message` make them.

### `StateTransitionAbstract` and the refinement

`StateTransitionAbstract` is what a caller of `SimpleTransitionDb` or
`WasmTransitionDb` can rely on, as one atomic step with three outcomes:
- `Settle`: the value is at its destination (the new contract of a
  deployment, `To()` otherwise), the sender has paid `usedGas * price`, the
  coinbase received exactly that, the pool lacks exactly `usedGas`, for some
  `usedGas` up to `msg.Gas()`; the error is none or a failed Wasm call;
- `Reject`: the nonce checks of `preCheck` or `buyGas` failed before any gas
  was bought, and nothing moved;
- `Abort`: an error after `buyGas` (`CanTransfer` in `preCheck`, the target,
  intrinsic gas, nonce add or code store). The gas stays bought, nobody is refunded
  or paid, and a deployment's value may already be with the new contract.
  Reverting this is the caller's state snapshot, outside `src/`.

`TxAbs` in `StateTransition` maps the transition onto it: the call has
returned when `pc = "done"`, and until then the caller sees the initial
balances, pool and error. `TxRefinement` is the abstract specification as a
property.

## Runs

| run | checks | shows |
|-----|--------|-------|
| `cursor_safety` (pass) | `TypeOK`, `ExecutedPrefix`, `ChainSound`, `FinishedComplete` | see below |
| `cursor_live` (pass) | `Completion` and `CursorRefinement` under `FairSpec`, with `SetHead = TRUE` | once every block is delivered, the cursor finishes; the cursor implements `CursorAbstract` |
| `cursor_invalid` (violation) | `InvalidDropped` | a block `VerifyBlock` rejects stays buffered, while spec 4.5 says it is dropped |
| `cursor_stall` (violation) | `Completion` | see below |
| `sync_safety` (pass) | `TypeOK`, `StatusMatchesDrivers`, `CooldownRespected`, `SyncRefinement` | see below |
| `sync_mutex` (violation) | `MutualExclusion` | see below |
| `sync_hang` (violation) | `LoopNeverHangs` | see below |
| `sync_live` (pass) | `AddPeerServed` under `FairSpec` | every `AddPeer` returns and its event reaches the loop, unless the loop stopped or hangs |
| `sync_cast` (violation) | `CP2FPOnlyWhenClose` | see below |
| `mainchain_check` (violation) | `FailedCheckReported` | see below |
| `bloom` (pass) | `BloomExact`, `CountExact`, `LookupExact`, `NoPanic` | see below |
| `tx_gas` (pass) | `TypeOK`, `ValueConserved`, `IntrinsicGasExact`, `TxRefinement` | see below |

- **`cursor_safety`** covers duplicated, out-of-order, invalid and
  out-of-window deliveries, and `InsertPastBlock` errors. Under them:
  - the executed main chain is always the hash-list prefix of length
    `index`, in order;
  - every inserted block is valid and has its dependencies in the chain;
  - `finished` implies the whole list was executed.
- **`cursor_stall`**: one `InsertPastBlock` error removes the main-chain
  block from the buffer without advancing, so the cursor never finishes.
- **`sync_safety`**: the status always names the one driver that is alive,
  and a peer in cooldown never syncs. `SyncRefinement` says the status
  moves only along the six edges the handlers implement (`Init` to
  `FastSync` or `Normal`, `FastSync` to `Normal` or back to `Init`, `Normal`
  and `PeerSync` to each other) and that the `peerSyncStarted` flags follow
  `SyncAbstract`: a flag left set after a successful peer sync (the mutant
  `PeerSyncFinishedKeepFlag`) would bar that peer for good.
- **`sync_mutex`**: a background `cp2fp.startTask` (sync.go 224/249)
  overlaps a new peer sync. This goes against spec §8, mutual exclusion.
- **`sync_hang`**: a `RemovePeer` between doInit's unlocked count and
  `randomChoosePeers` makes `generateDiffRandomNumbers` loop forever.
- **`sync_cast`**: `int32(diff)` wraps a large height gap negative, and
  doInit takes CP2FP for a node far behind its peers. Spec 4.1 sends such a
  node to fast sync. In the code this needs a gap of 2^31 blocks.
- **`mainchain_check`**: when the main-chain check fails without an error
  of its own (`!check`, or too many `errPeers`), `findAndCheckMainChain`
  returns `nil, nil`. Its caller sees the same answer as "self chain is the
  best". The count test is also strict (`<`), while spec 4.2 fails the run
  when `|P| - comPreCount` or more verifications fail.
- **`bloom`**: after any sequence of `Add` and `CreateBloom` calls:
  - the filter holds exactly the bits of the items added: the `big.Int`
    round trip loses and invents no bit;
  - `Count` equals the number of set bits;
  - `BloomLookup` is true exactly when all three positions are set;
  - `SetBytes` never panics.

  Each is compared with a reference definition (`Positions`, `SetBits`)
  written with arithmetic, not bit operations.
- **`tx_gas`**: every settled transaction conserves the total balance. For the transaction being priced, `IntrinsicGas` returns the exact
  cost, or `ErrOutOfGas` exactly when that cost exceeds `2^W - 1`. The
  whole call refines `StateTransitionAbstract` (`TxRefinement`): a settled
  call pays the coinbase exactly `usedGas * price` and the pool loses
  exactly `usedGas`, and an early return after `buyGas` leaves the gas
  bought.

The violation runs are the findings in `PROJECT.json`. Each one states what
the spec says and what the code does.

Every property of a passing run has a mutant in `PROJECT.json`. A mutant is a
plausible bug in a mapped definition, and TLC finds that property violated
when the mutant replaces the definition.

## Bounds and why they suffice

- **Cursor** (`MC_Cursor`):
  - eight blocks and a three-element hash list;
  - an ancestor below the window;
  - a side block that a main block depends on;
  - an invalid block;
  - a valid sibling of the last main block;
  - a block above the window;
  - two future packages, one of which does not verify;
  - two repeated deliveries and one `InsertPastBlock` error in the safety
    run.

  That is enough for a dependency to arrive after its dependant, for a
  main-chain block to arrive before its predecessor, for a block to be
  delivered twice, and for the error path to be taken.
- **Synchronizer** (`MC_Synchronizer`):
  - three peers of heights 10, 3 and 2, so that a sample can give either
    branch of doInit and a peer can be far enough ahead for a peer sync;
  - `MinRegularPeerCount = 2` and `MinFastSyncPeerCount = 3`;
  - a channel capacity of 2;
  - five connection events (`MaxConnects`), enough for a peer to leave and
    return.
- **Synchronizer liveness** (`MC_Synchronizer_live.cfg`): a one-slot
  channel and three `AddPeer` calls (`MaxConnects = 3`). Senders then block behind each other,
  and a peer can return while a peer sync runs. That is the case the mutant
  `NewPeerBusyFastOnly` (the channel not drained in PeerSync) needs.
- **MainChainCheck**: four peers, `comPreCount = 3`, every subset as
  `leftPeers` and `errPeers`, and every combination of `check` and `err`.
- **Bloom** (`MC_Bloom`):
  - a 2-byte filter (16 bits);
  - seven items whose hash bytes give colliding, shared and distinct
    positions, and high bits in a byte;
  - receipt lists with empty receipts, topics and repeated items.

  With the mask one bit too wide, an index of 16 or more is reached, so a
  mask bug shows as a panic.
- **StateTransition** (`MC_StateTransition`):
  - `W = 6`, so `MaxUint = 63`;
  - gas costs chosen so that one non-zero data byte fits and four overflow;
  - gas limits 10, 40 and 63, and refunds 0, 5 and 40;
  - every Boolean outcome.

  Every early return of both entry points is reached.

## Fairness

`cursor_live` and `sync_live` assume fairness.

`cursor_live` assumes:
- weak fairness of the running `ProcessBlock` call (`CursorStep`), since the
  goroutine does not stop inside a call;
- weak fairness of the first delivery of every block, since the fetcher
  delivers each block of the range.

`sync_live` (`FairSpec`) assumes:
- strong fairness of the receive on `newPeerCh` (`ReadNewPeer`): Go's
  `select` chooses at random among ready cases, so a case ready again and
  again is taken;
- strong fairness of each blocked send (`SendNewPeer(p)`): a channel serves
  its blocked senders in FIFO order;
- weak fairness of doInit's steps (`DoInitStep`): the function runs to its
  end on the loop goroutine.

Nothing is assumed of the drivers or the cooldown timer. A peer sync may
last for ever, and the property must hold all the same.

Failed `InsertPastBlock` calls are excluded from that run (`SetHead`). With
them, the stall run shows that `Completion` fails.

## What is proved

`CursorProofs` proves four theorems for every hash list, block set, and
duplicate and error bound satisfying the module's `ASSUME`s:
- `TypeCorrect`;
- `ExecutedPrefixHolds`;
- `ChainSoundHolds`;
- `FinishedCompleteHolds`.

Each is `Spec => []P` for the property P the `cursor_safety` run checks.

The invariants are not inductive on their own. The proof uses `IInv`, the
conjunction of:
- the type invariant;
- `RestCoversTodo`: during the loop the copy still holds every block not yet
  visited, so removing the visited block leaves a valid bag;
- `Control`:
  - in the loop, `index < Len(HashElems)`, so `Target` is defined;
  - idle and not finished implies the same;
  - finished implies idle with `index = Len(HashElems)`;
- `ExecutedPrefix` and `ChainSound`.

`FinishedComplete` follows from `Control` and `ExecutedPrefix`. The proof
shows `Init => IInv` and `IInv /\ [Next]_vars => IInv'`, with one case per
action, and concludes by PTL.

`CursorProofs` also proves `RefinementHolds`: `Spec => CursorRefinement`.
- The initial state maps to `AInit`.
- `StepRefines` shows every step maps to an abstract step or a stutter.
  - `ExecMain` is `Execute`: by `ExecutedPrefix` in `IInv`,
    `Len(mainChain) = index`, so the block executed is the next list element.
  - The `EndLoop` that sets `finished` is `Finish`: `IInv` gives
    `mainChain = HashElems` there.
  - Every other step leaves `mainChain` and `finished` alone.

`SynchronizerProofs` proves `StatusMatchesDriversHolds` and
`CooldownRespectedHolds` for every peer set, height function and
configuration satisfying `SyncConstantsAssumption`. Its inductive invariant
`IInv` adds:
- the types of the six variables involved;
- `AtMostOne`: the peer-sync set is empty or a singleton, since a
  cardinality bound alone does not survive the union in `CheckPeerSync`;
- `SyncingStarted`: a syncing peer has its `peerSyncStarted` flag, so a
  failing peer sync arms the cooldown of a flagged peer;
- `InitWhileDoInit`: inside doInit the status is `Init`. So the doInit
  branches that set `FastSync` or `Normal` start with no driver alive, and
  `CheckPeerSync`, which needs `Normal`, cannot run inside doInit.

The step proof has one case per action. Actions that leave the six
variables alone, or only move the loop goroutine, are discharged by two
lemmas.

`SynchronizerProofs` also proves:
- `TypeCorrect` (`Spec => []TypeOK`). The hard part is `head \in Nat`
  after a CP2FP or fast sync, which takes the height `TopHeight` or
  `SampleDiff` chooses as a maximum. Its existence (`SampleMaxExists`) is
  shown without induction: the "up-sets" `{r : H[r] >= H[q]}` of a finite
  peer set are ordered by strict inclusion, which is well founded on finite
  sets (`FS_StrictSubsetOrderingWellFounded`), and the minimal one belongs to
  a peer of maximal height. The bound `Len(newPeerCh) <= NewPeerChCap`
  follows because `AddPeer` sends only below the capacity.
- `SyncRefinementHolds` (`Spec => SyncRefinement`). `SyncStep` maps every
  action: the doInit exits are `StartFastSync` and `SkipFastSync` (from
  `Init` by `InitWhileDoInit`); `CheckPeerSync` is `StartPeerSync`, with no
  peer sync running because the status is `Normal` (`Drivers`);
  `PeerSyncFinished` and `PeerSyncErr` act on the one running peer sync
  (`AtMostOne`); the timer callback is `CooldownOver`; every other action
  leaves the status and the three peer sets alone.

`StateTransitionProofs` proves, for every width `W`, gas schedule, message
set, balances, pool and refund set satisfying `StateTransitionAssumption`:
- `TypeCorrect`, `ValueConservedHolds` and `IntrinsicGasExactHolds`, each `Spec => []P` for the property the `tx_gas`
  run checks;
- `TxRefinementHolds` (`Spec => TxRefinement`).

Their inductive invariant `IInv` adds to the properties:
- `GasAccounting`: a settled call charged the pool exactly `usedGas`, paid
  the coinbase `usedGas * price`, and `usedGas <= msg.Gas()`;
- `BeforeBuy`: before `buyGas` nothing has moved;
- `AfterBuy`: between `buyGas` and the return, `initialGas = msg.Gas()`,
  `gas <= initialGas`, the pool lacks `msg.Gas()`, the balances' sum lacks
  `msg.Gas() * price`, the coinbase is untouched, and `balance[from]` covers
  the value once `CanTransfer` passed.

`gas <= initialGas` is what keeps `gasUsed()` and the refund free of
wrap-around: `RefundStep` shows the capped refund is at most the gas used,
so `gas + refund` fits in a word. `IntrinsicGasCorrect` shows the two
overflow guards of `IntrinsicGas` (division tests) hold exactly when the
exact price exceeds `MaxUint`.

For the refinement, `Track` adds where each account stands: after `buyGas`
the balances are the abstract `GasBought`, and at `refundGas` the value has
moved to the abstract destination. `TxStep` then maps each action:
- steps before the return change nothing the caller sees;
- the early returns before any gas is bought are `Reject` (`BeforeBuy`);
- the later early returns are `Abort` (`AfterBuy`, `Track`), with
  `createWasmAccount` out of gas leaving the value with the contract;
- `refundGas` is `Settle` with `usedGas` the witness (`SettleStep`);
- once returned, no action is enabled.

## Only model-checked

- Liveness (`Completion`, `AddPeerServed`) needs fairness and `ENABLED`,
  which the prover does not handle; TLC checks it.
- The `Bloom` module uses `RECURSIVE` operators and `Bitwise`, which take
  the SMT backend away from any module that reaches them, so its four
  properties are checked by TLC only.
- The violation runs are counterexamples, found by TLC.
- `IntrinsicGasExact` is proved for every width; the run in addition hits
  both overflow guards and both bases at one width.

## Not modelled

- `getLatestCheckPoint` and `lengthForStatesSync` feed the sub-sync
  drivers, whose code is not here. So do `findMainChainPeers` and
  `doSyncAndCheckFixPoint`, whose results `MainChainCheck` takes as inputs.
- A Go runtime abort on a concurrent map write is not modelled. The model
  treats each map access as atomic.
- Bloom's `MarshalText` and `UnmarshalText` are formatting only.
- The CLI, RPC, miner, packer and database code has no concurrent or
  protocol state.

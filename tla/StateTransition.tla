--------------------------- MODULE StateTransition ---------------------------
(***************************************************************************)
(* One transaction through src/transaction/txexec/state_transition.go:    *)
(* SimpleTransitionDb or WasmTransitionDb with preCheck, buyGas,          *)
(* IntrinsicGas, useGas, createWasmAccount / callWasm, refundGas and the  *)
(* coinbase payment.  Each call the code makes in sequence is a step, and *)
(* each early return an action of its own, so a behaviour stops wherever  *)
(* the code can return an error.                                          *)
(*                                                                         *)
(* Gas quantities are uint64 in the code; here they are W-bit unsigned    *)
(* integers (arithmetic % 2^W), so that the overflow checks of            *)
(* IntrinsicGas and the unchecked products can be reached with small      *)
(* numbers.  Balances are big.Int in the code and naturals here.  The     *)
(* nonce set, the Wasm engine and the gas pool are outside src/: the      *)
(* nonce checks and the engine's result are inputs, the pool is a number. *)
(***************************************************************************)
EXTENDS Integers

CONSTANTS
  W,                        \* bits of a machine word (64 in the code)
  TxGas,                    \* params.TxGas
  TxGasContractCreation,    \* params.TxGasContractCreation
  TxDataNonZeroGas,         \* params.TxDataNonZeroGas
  TxDataZeroGas,            \* params.TxDataZeroGas
  TxGasContractCreateData,  \* params.TxGasContractCreateData
  Msgs,                     \* the messages a run may apply
  InitBalance,              \* balances of From, To, Coinbase, Contract
  InitPool,                 \* gas left in the block's GasPool
  Refunds                   \* values StateDB.GetRefund() may return

\* math.MaxUint64, for W bits
MaxUint == 2^W - 1

\* the accounts a transaction touches
Accounts == {"from", "to", "coinbase", "contract"}

\* a Message: Gas() is a uint64, GasPrice() and Value() non-negative
\* big.Ints, the data nz non-zero and z zero bytes; the Booleans are the
\* outcomes of the nonce set and the Wasm engine for this message
MsgType ==
  [kind : {"simple", "wasm"}, toNil : BOOLEAN, gas : 0..MaxUint,
   price : Nat, value : Nat, nz : Nat, z : Nat,
   resetOk : BOOLEAN, nonceOk : BOOLEAN, addOk : BOOLEAN,
   hasCode : BOOLEAN, wasmOk : BOOLEAN]

ASSUME StateTransitionAssumption ==
  /\ W \in Nat \ {0}
  /\ {TxGas, TxGasContractCreation, TxDataNonZeroGas, TxDataZeroGas,
      TxGasContractCreateData} \subseteq 1..MaxUint
  /\ InitBalance \in [Accounts -> Nat]
  /\ InitPool \in 0..MaxUint
  /\ Refunds \subseteq 0..MaxUint
  /\ Msgs \subseteq MsgType

\* W-bit unsigned wrap-around
U(x) == x % (MaxUint + 1)

-----------------------------------------------------------------------------
(* IntrinsicGas (state_transition.go 69-99), a pure function               *)

\* IntrinsicGas returns (gas, error): a record of the two
Ret(g, e) == [gas |-> g, err |-> e]

\* mutant: the products are added without the overflow checks
IntrinsicGasUnchecked(nz, z, contractCreation) ==
  Ret(U((IF contractCreation THEN TxGasContractCreation ELSE TxGas)
          + nz * TxDataNonZeroGas + z * TxDataZeroGas), "none")

\* base gas, then nz non-zero and z zero data bytes; ErrOutOfGas when
\* either product would take the sum past MaxUint
IntrinsicGas(nz, z, contractCreation) ==
  LET base == IF contractCreation THEN TxGasContractCreation ELSE TxGas
      g1   == base + nz * TxDataNonZeroGas
  IN  IF nz + z = 0 THEN Ret(base, "none")
      ELSE IF (MaxUint - base) \div TxDataNonZeroGas < nz
             THEN Ret(0, "ErrOutOfGas")
      ELSE IF (MaxUint - g1) \div TxDataZeroGas < z
             THEN Ret(0, "ErrOutOfGas")
      ELSE Ret(g1 + z * TxDataZeroGas, "none")

-----------------------------------------------------------------------------

VARIABLES
  msg,          \* the Message: gas, price, value, data, target, nonce checks
  pc,           \* the next call of the transition to run
  gas,          \* st.gas
  initialGas,   \* st.initialGas
  balance,      \* the StateDB balances of the four accounts
  pool,         \* the block's GasPool
  refund,       \* what StateDB.GetRefund() returns at refundGas
  err,          \* the error returned, "none" on success
  usedGas,      \* the usedGas returned
  wasmFailed    \* the wasmFailed flag WasmTransitionDb returns

vars == <<msg, pc, gas, initialGas, balance, pool, refund, err, usedGas,
          wasmFailed>>

\* the length of the data
DataLen == msg.nz + msg.z

\* a contract deployment: msg.To() == nil in WasmTransitionDb
Deploy == msg.kind = "wasm" /\ msg.toNil

\* state.Transfer: value from one account to another
Transfer(from, to, v) ==
  balance' = [balance EXCEPT ![from] = @ - v, ![to] = @ + v]

\* return with err; the returned usedGas is 0 on every early return
Fail(e) ==
  /\ pc' = "done" /\ err' = e /\ usedGas' = 0

\* NewStateTransition; st.gas starts at 0
Init ==
  /\ msg \in Msgs
  /\ pc = "precheck"
  /\ gas = 0 /\ initialGas = 0
  /\ balance = InitBalance
  /\ pool = InitPool
  /\ refund \in Refunds
  /\ err = "none" /\ usedGas = 0 /\ wasmFailed = FALSE

-----------------------------------------------------------------------------
(* preCheck and buyGas (state_transition.go 126-182)                       *)

\* preCheck: nonceSet.Reset from the previous state fails
ResetFails ==
  /\ pc = "precheck" /\ ~msg.resetOk
  /\ Fail("ErrNonceReset")
  /\ UNCHANGED <<msg, gas, initialGas, balance, pool, refund, wasmFailed>>

\* preCheck: CheckNonce and the nonce set does not allow the nonce
NonceRejected ==
  /\ pc = "precheck" /\ msg.resetOk /\ ~msg.nonceOk
  /\ Fail("ErrNonceNotAllowed")
  /\ UNCHANGED <<msg, gas, initialGas, balance, pool, refund, wasmFailed>>

\* buyGas: balance below gas * gasPrice
BuyGasNoBalance ==
  /\ pc = "precheck" /\ msg.resetOk /\ msg.nonceOk
  /\ balance["from"] < msg.gas * msg.price
  /\ Fail("ErrInsufficientBalanceForGas")
  /\ UNCHANGED <<msg, gas, initialGas, balance, pool, refund, wasmFailed>>

\* buyGas: gp.SubGas fails, the block has less gas left than msg.Gas()
BuyGasPoolEmpty ==
  /\ pc = "precheck" /\ msg.resetOk /\ msg.nonceOk
  /\ balance["from"] >= msg.gas * msg.price
  /\ pool < msg.gas
  /\ Fail("ErrGasLimitReached")
  /\ UNCHANGED <<msg, gas, initialGas, balance, pool, refund, wasmFailed>>

\* buyGas: the pool gives msg.Gas(), st.gas and initialGas take it, the
\* sender pays gas * gasPrice up front
BuyGas ==
  /\ pc = "precheck" /\ msg.resetOk /\ msg.nonceOk
  /\ balance["from"] >= msg.gas * msg.price
  /\ pool >= msg.gas
  /\ pool' = pool - msg.gas
  /\ gas' = U(gas + msg.gas)
  /\ initialGas' = msg.gas
  /\ balance' = [balance EXCEPT !["from"] = @ - msg.gas * msg.price]
  /\ pc' = "cantransfer"
  /\ UNCHANGED <<msg, refund, err, usedGas, wasmFailed>>

\* preCheck: CanTransfer fails, the value exceeds what is left
CanTransferFails ==
  /\ pc = "cantransfer"
  /\ balance["from"] < msg.value
  /\ Fail("ErrInsufficientBalance")
  /\ UNCHANGED <<msg, gas, initialGas, balance, pool, refund, wasmFailed>>

\* preCheck returns nil; SimpleTransitionDb checks the target next
CanTransfer ==
  /\ pc = "cantransfer"
  /\ balance["from"] >= msg.value
  /\ pc' = IF msg.kind = "simple" THEN "target" ELSE "intrinsic"
  /\ UNCHANGED <<msg, gas, initialGas, balance, pool, refund, err, usedGas,
                 wasmFailed>>

\* SimpleTransitionDb: msg.To() == nil
NoTarget ==
  /\ pc = "target" /\ msg.toNil
  /\ Fail("ErrSimpleTxHasNoTarget")
  /\ UNCHANGED <<msg, gas, initialGas, balance, pool, refund, wasmFailed>>

HasTarget ==
  /\ pc = "target" /\ ~msg.toNil
  /\ pc' = "intrinsic"
  /\ UNCHANGED <<msg, gas, initialGas, balance, pool, refund, err, usedGas,
                 wasmFailed>>

-----------------------------------------------------------------------------
(* Intrinsic gas, nonce, execution (206-312)                               *)

\* SimpleTransitionDb prices IntrinsicGas(nil, false); WasmTransitionDb the
\* data, as a creation when To() is nil
Intrinsic ==
  IF msg.kind = "simple" THEN IntrinsicGas(0, 0, FALSE)
  ELSE IntrinsicGas(msg.nz, msg.z, Deploy)

IntrinsicOverflow ==
  /\ pc = "intrinsic" /\ Intrinsic.err = "ErrOutOfGas"
  /\ Fail("ErrOutOfGas")
  /\ UNCHANGED <<msg, gas, initialGas, balance, pool, refund, wasmFailed>>

\* useGas(intrinsic) fails
IntrinsicOutOfGas ==
  /\ pc = "intrinsic" /\ Intrinsic.err = "none"
  /\ gas < Intrinsic.gas
  /\ Fail("ErrOutOfGas")
  /\ UNCHANGED <<msg, gas, initialGas, balance, pool, refund, wasmFailed>>

\* mutant: useGas without its `st.gas < amount` check
UseIntrinsicGasUnchecked ==
  /\ pc = "intrinsic" /\ Intrinsic.err = "none"
  /\ gas' = gas - Intrinsic.gas
  /\ pc' = "nonce"
  /\ UNCHANGED <<msg, initialGas, balance, pool, refund, err, usedGas,
                 wasmFailed>>

UseIntrinsicGas ==
  /\ pc = "intrinsic" /\ Intrinsic.err = "none"
  /\ gas >= Intrinsic.gas
  /\ gas' = gas - Intrinsic.gas
  /\ pc' = "nonce"
  /\ UNCHANGED <<msg, initialGas, balance, pool, refund, err, usedGas,
                 wasmFailed>>

\* nonceSet.Add fails
NonceAddFails ==
  /\ pc = "nonce" /\ ~msg.addOk
  /\ Fail("ErrNonceAdd")
  /\ UNCHANGED <<msg, gas, initialGas, balance, pool, refund, wasmFailed>>

NonceAdd ==
  /\ pc = "nonce" /\ msg.addOk
  /\ pc' = "exec"
  /\ UNCHANGED <<msg, gas, initialGas, balance, pool, refund, err, usedGas,
                 wasmFailed>>

\* SimpleTransitionDb: Transfer(from, to, value)
SimpleTransfer ==
  /\ pc = "exec" /\ msg.kind = "simple"
  /\ Transfer("from", "to", msg.value)
  /\ pc' = "refund"
  /\ UNCHANGED <<msg, gas, initialGas, pool, refund, err, usedGas, wasmFailed>>

\* createWasmAccount: the value moves to the new contract, then
\* len(data) * TxGasContractCreateData, an unchecked uint64 product
CreateDataGas == U(DataLen * TxGasContractCreateData)

\* createWasmAccount: useGas(createDataGas) fails after the transfer
CreateOutOfGas ==
  /\ pc = "exec" /\ Deploy
  /\ gas < CreateDataGas
  /\ Transfer("from", "contract", msg.value)
  /\ Fail("ErrCodeStoreOutOfGas")
  /\ UNCHANGED <<msg, gas, initialGas, pool, refund, wasmFailed>>

\* mutant: the value of a deployment is sent to To() rather than to the
\* new contract
CreateWasmAccountToCallee ==
  /\ pc = "exec" /\ Deploy
  /\ gas >= CreateDataGas
  /\ Transfer("from", "to", msg.value)
  /\ gas' = gas - CreateDataGas
  /\ pc' = "refund"
  /\ UNCHANGED <<msg, initialGas, pool, refund, err, usedGas, wasmFailed>>

CreateWasmAccount ==
  /\ pc = "exec" /\ Deploy
  /\ gas >= CreateDataGas
  /\ Transfer("from", "contract", msg.value)
  /\ gas' = gas - CreateDataGas
  /\ pc' = "refund"
  /\ UNCHANGED <<msg, initialGas, pool, refund, err, usedGas, wasmFailed>>

\* callWasm: transfer; the engine runs when there is data and code, takes
\* gas through &st.gas, and may fail with ErrWasmExec (execution goes on)
CallWasm ==
  /\ pc = "exec" /\ msg.kind = "wasm" /\ ~Deploy
  /\ Transfer("from", "to", msg.value)
  /\ IF DataLen > 0 /\ msg.hasCode
       THEN /\ gas' \in 0..gas
            /\ err' = IF msg.wasmOk THEN "none" ELSE "ErrWasmExec"
       ELSE UNCHANGED <<gas, err>>
  /\ pc' = "refund"
  /\ UNCHANGED <<msg, initialGas, pool, refund, usedGas, wasmFailed>>

-----------------------------------------------------------------------------
(* refundGas (184-199) and the coinbase payment                            *)

\* gasUsed(): initialGas - gas, in uint64
GasUsed(g) == U(initialGas - g)

\* the refund, capped to half of the gas used
RefundCapped(g) == IF GasUsed(g) \div 2 > refund THEN refund ELSE GasUsed(g) \div 2

\* mutant: the coinbase is paid for the gas used before the refund
RefundAfterCoinbase ==
  LET g2 == U(gas + RefundCapped(gas))
  IN  /\ pc = "refund"
      /\ balance' = [balance EXCEPT !["from"] = @ + g2 * msg.price,
                                    !["coinbase"] = @ + GasUsed(gas) * msg.price]
      /\ pool' = pool + g2
      /\ gas' = g2
      /\ usedGas' = GasUsed(g2)
      /\ wasmFailed' = (err = "ErrWasmExec")
      /\ pc' = "done"
      /\ UNCHANGED <<msg, initialGas, refund, err>>

\* refundGas: the refund joins the remaining gas, which goes back to the
\* sender at gasPrice and back to the pool; then the coinbase is paid
\* gasUsed() * gasPrice and the transition returns gasUsed()
Refund ==
  LET g2 == U(gas + RefundCapped(gas))
  IN  /\ pc = "refund"
      /\ balance' = [balance EXCEPT !["from"] = @ + g2 * msg.price,
                                    !["coinbase"] = @ + GasUsed(g2) * msg.price]
      /\ pool' = pool + g2
      /\ gas' = g2
      /\ usedGas' = GasUsed(g2)
      /\ wasmFailed' = (err = "ErrWasmExec")
      /\ pc' = "done"
      /\ UNCHANGED <<msg, initialGas, refund, err>>

Next ==
  \/ ResetFails \/ NonceRejected \/ BuyGasNoBalance \/ BuyGasPoolEmpty
  \/ BuyGas \/ CanTransferFails \/ CanTransfer \/ NoTarget \/ HasTarget
  \/ IntrinsicOverflow \/ IntrinsicOutOfGas \/ UseIntrinsicGas
  \/ NonceAddFails \/ NonceAdd
  \/ SimpleTransfer \/ CreateOutOfGas \/ CreateWasmAccount \/ CallWasm
  \/ Refund

Spec == Init /\ [][Next]_vars

-----------------------------------------------------------------------------
(* Properties                                                              *)

Pcs == {"precheck", "cantransfer", "target", "intrinsic", "nonce", "exec",
        "refund", "done"}

TypeOK ==
  /\ pc \in Pcs
  /\ gas \in 0..MaxUint /\ initialGas \in 0..MaxUint
  /\ balance \in [Accounts -> Nat]
  /\ pool \in Nat
  /\ refund \in Refunds
  /\ usedGas \in 0..MaxUint
  /\ wasmFailed \in BOOLEAN

\* the sum of the four balances
Total(b) == b["from"] + b["to"] + b["coinbase"] + b["contract"]

\* a transition that reached refundGas (success, or a failed Wasm call)
Settled == pc = "done" /\ err \in {"none", "ErrWasmExec"}

\* A settled transition creates no coins: what the sender paid up front
\* for gas comes back as the refund and the coinbase fee, and the value
\* only moves, whatever the Wasm engine and the refund counter did.
ValueConserved == Settled => Total(balance) = Total(InitBalance)

\* When a transition prices its data (SimpleTransitionDb: none; Wasm: the
\* message's bytes, as a creation when To() is nil), IntrinsicGas returns
\* the exact price, or ErrOutOfGas exactly when that price does not fit in
\* a word: the two division guards neither wrap nor reject a fitting price.
IntrinsicGasExact ==
  pc = "intrinsic" =>
    LET nz    == IF msg.kind = "simple" THEN 0 ELSE msg.nz
        z     == IF msg.kind = "simple" THEN 0 ELSE msg.z
        exact == (IF msg.kind = "wasm" /\ Deploy THEN TxGasContractCreation
                  ELSE TxGas) + nz * TxDataNonZeroGas + z * TxDataZeroGas
    IN  Intrinsic = IF exact > MaxUint THEN Ret(0, "ErrOutOfGas")
                                       ELSE Ret(exact, "none")


\* the transition seen from outside: the accounts and the pool as they were
\* until the call returns, then as it leaves them
TxAbs == INSTANCE StateTransitionAbstract WITH
           done    <- pc = "done",
           balance <- IF pc = "done" THEN balance ELSE InitBalance,
           pool    <- IF pc = "done" THEN pool ELSE InitPool,
           err     <- IF pc = "done" THEN err ELSE "none"

\* One call of SimpleTransitionDb or WasmTransitionDb acts as one atomic
\* step of StateTransitionAbstract: settled with the value at its
\* destination and exactly usedGas charged, rejected before buyGas with
\* nothing moved, or returned after buyGas with the gas still bought.
TxRefinement == TxAbs!ATxSpec

=============================================================================

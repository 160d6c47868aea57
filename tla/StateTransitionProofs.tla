------------------------ MODULE StateTransitionProofs ------------------------
(***************************************************************************)
(* Proofs that one transaction through SimpleTransitionDb or              *)
(* WasmTransitionDb is well typed, conserves value, accounts for its gas  *)
(* exactly, and that IntrinsicGas prices data exactly, for every word     *)
(* width, gas schedule, message set, balances, pool and refund counter    *)
(* satisfying StateTransitionAssumption; and that the transition refines  *)
(* StateTransitionAbstract, one atomic call seen from outside.           *)
(***************************************************************************)
EXTENDS StateTransition, TLAPS

\* the calls between buyGas and refundGas: the gas has been bought
Bought == {"cantransfer", "target", "intrinsic", "nonce", "exec", "refund"}

\* before buyGas nothing has moved
BeforeBuy ==
  pc = "precheck" =>
    /\ balance = InitBalance /\ pool = InitPool /\ gas = 0 /\ err = "none"

\* between buyGas and refundGas: the pool and the sender have paid for
\* msg.Gas(), the gas left is at most what was bought, the coinbase has
\* not been paid, and no error other than a failed Wasm call is pending
AfterBuy ==
  pc \in Bought =>
    /\ initialGas = msg.gas /\ gas <= initialGas
    /\ pool = InitPool - msg.gas
    /\ Total(balance) + msg.gas * msg.price = Total(InitBalance)
    /\ balance["coinbase"] = InitBalance["coinbase"]
    /\ err \in {"none", "ErrWasmExec"}
    /\ pc # "refund" => err = "none"
    /\ pc \in {"target", "intrinsic", "nonce", "exec"} =>
         balance["from"] >= msg.value

\* where each account stands between buyGas and the return: the sender has
\* bought the gas, and from refundGas on the value is at its destination
Track ==
  /\ pc \in Bought \ {"refund"} => balance = TxAbs!GasBought
  /\ pc = "refund" =>
       balance = [TxAbs!GasBought EXCEPT !["from"] = @ - msg.value,
                                         ![TxAbs!Dest] = @ + msg.value]

\* the gas bookkeeping of a settled transition: the pool is charged exactly
\* the usedGas returned, the coinbase paid usedGas * gasPrice, and usedGas
\* is at most what the message bought (the refund step needs it of the
\* state before)
GasAccounting ==
  Settled =>
    /\ usedGas <= msg.gas
    /\ pool = InitPool - usedGas
    /\ balance["coinbase"] = InitBalance["coinbase"] + usedGas * msg.price

IInv ==
  /\ TypeOK /\ msg \in Msgs
  /\ BeforeBuy /\ AfterBuy
  /\ ValueConserved /\ GasAccounting

\* the invariant the refinement rests on
TxIInv == IInv /\ Track

-----------------------------------------------------------------------------
(* Arithmetic of W-bit words                                               *)

\* a word holds at least the gas constants, so MaxUint is a positive natural
LEMMA MaxUintNat == MaxUint \in Nat \ {0}
BY StateTransitionAssumption DEF MaxUint

\* U is the identity on the values a word holds
LEMMA UId ==
  ASSUME NEW x \in 0..MaxUint
  PROVE  U(x) = x
BY MaxUintNat DEF U

\* the division guard of IntrinsicGas: (a / k) < n exactly when n * k > a
LEMMA DivGuard ==
  ASSUME NEW a \in Nat, NEW k \in Nat \ {0}, NEW n \in Nat
  PROVE  (a \div k < n) <=> (n * k > a)
<1> DEFINE q == a \div k
<1>1. q \in Nat /\ q * k <= a /\ a < q * k + k
  OBVIOUS
<1>2. ASSUME n > q PROVE n * k > a
  <2>1. n >= q + 1
    BY <1>1, <1>2
  <2>2. n * k >= (q + 1) * k
    BY <2>1, <1>1
  <2> QED BY <2>2, <1>1
<1>3. ASSUME n <= q PROVE n * k <= a
  <2>1. n * k <= q * k
    BY <1>1, <1>3
  <2> QED BY <2>1, <1>1
<1> QED BY <1>2, <1>3, <1>1

\* U(x) is a word
LEMMA UType ==
  ASSUME NEW x \in Int
  PROVE  U(x) \in 0..MaxUint
BY MaxUintNat DEF U

-----------------------------------------------------------------------------
(* IntrinsicGas                                                            *)

\* the base gas of IntrinsicGas
Base(cc) == IF cc THEN TxGasContractCreation ELSE TxGas

\* the exact price of nz non-zero and z zero data bytes
Exact(nz, z, cc) == Base(cc) + nz * TxDataNonZeroGas + z * TxDataZeroGas

\* what IntrinsicGas should return: the exact price, or ErrOutOfGas when
\* the price does not fit in a word
Priced(nz, z, cc) ==
  IF Exact(nz, z, cc) > MaxUint THEN Ret(0, "ErrOutOfGas")
  ELSE Ret(Exact(nz, z, cc), "none")

\* the base gas is one of the two gas constants, so a word
LEMMA BaseWord ==
  ASSUME NEW c
  PROVE  Base(c) \in 1..MaxUint
<1>1. Base(c) \in {TxGasContractCreation, TxGas}
  BY Zenon DEF Base
<1> QED BY <1>1, StateTransitionAssumption

\* the exact price of a natural number of bytes is a natural
LEMMA ExactNat ==
  ASSUME NEW n \in Nat, NEW m \in Nat, NEW c
  PROVE  Exact(n, m, c) \in Nat
<1>1. Base(c) \in 1..MaxUint
  BY BaseWord
<1> QED BY <1>1, StateTransitionAssumption, MaxUintNat DEF Exact

\* IntrinsicGas neither wraps nor rejects a price that fits
LEMMA IntrinsicGasCorrect ==
  ASSUME NEW nz \in Nat, NEW z \in Nat, NEW cc \in BOOLEAN
  PROVE  IntrinsicGas(nz, z, cc) = Priced(nz, z, cc)
<1> DEFINE base == Base(cc)
           A == TxDataNonZeroGas
           B == TxDataZeroGas
           g1 == base + nz * A
<1>1. /\ base \in 1..MaxUint /\ A \in 1..MaxUint /\ B \in 1..MaxUint
      /\ MaxUint \in Nat
  BY StateTransitionAssumption, MaxUintNat DEF Base
<1>2. CASE nz + z = 0
  <2>1. nz = 0 /\ z = 0
    BY <1>2
  <2> QED BY <1>1, <2>1 DEF IntrinsicGas, Priced, Exact, Base
<1>3. CASE nz + z # 0 /\ (MaxUint - base) \div A < nz
  <2>1. nz * A > MaxUint - base
    BY <1>1, <1>3, DivGuard
  <2>2. Exact(nz, z, cc) > MaxUint
    BY <1>1, <2>1 DEF Exact
  <2> QED BY <1>3, <2>2 DEF IntrinsicGas, Priced, Base
<1>4. CASE nz + z # 0 /\ ~((MaxUint - base) \div A < nz)
                      /\ (MaxUint - g1) \div B < z
  <2>1. nz * A <= MaxUint - base
    BY <1>1, <1>4, DivGuard
  <2>2. z * B > MaxUint - g1
    BY <1>1, <1>4, <2>1, DivGuard
  <2>3. Exact(nz, z, cc) > MaxUint
    BY <1>1, <2>2 DEF Exact
  <2> QED BY <1>4, <2>3 DEF IntrinsicGas, Priced, Base
<1>5. CASE nz + z # 0 /\ ~((MaxUint - base) \div A < nz)
                      /\ ~((MaxUint - g1) \div B < z)
  <2>1. nz * A <= MaxUint - base
    BY <1>1, <1>5, DivGuard
  <2>2. z * B <= MaxUint - g1
    BY <1>1, <1>5, <2>1, DivGuard
  <2>3. Exact(nz, z, cc) = g1 + z * B /\ ~(Exact(nz, z, cc) > MaxUint)
    BY <1>1, <2>2 DEF Exact
  <2> QED BY <1>5, <2>3 DEF IntrinsicGas, Priced, Base
<1> QED BY <1>2, <1>3, <1>4, <1>5

\* the price the transition asks of IntrinsicGas, by the kind of message
LEMMA IntrinsicIsPriced ==
  ASSUME msg \in MsgType
  PROVE  Intrinsic = IF msg.kind = "simple" THEN Priced(0, 0, FALSE)
                     ELSE Priced(msg.nz, msg.z, Deploy)
<1>1. Deploy \in BOOLEAN /\ msg.nz \in Nat /\ msg.z \in Nat
  BY DEF Deploy, MsgType
<1> QED BY <1>1, IntrinsicGasCorrect DEF Intrinsic

\* a natural number no larger than MaxUint is a word
LEMMA WordOf ==
  ASSUME NEW e \in Nat, ~(e > MaxUint)
  PROVE  e \in 0..MaxUint
BY MaxUintNat

\* a price Intrinsic accepts fits in a word
LEMMA IntrinsicWord ==
  ASSUME msg \in MsgType, Intrinsic.err = "none"
  PROVE  Intrinsic.gas \in 0..MaxUint
<1> DEFINE nz == IF msg.kind = "simple" THEN 0 ELSE msg.nz
           z  == IF msg.kind = "simple" THEN 0 ELSE msg.z
           cc == IF msg.kind = "simple" THEN FALSE ELSE Deploy
<1>1. Intrinsic = Priced(nz, z, cc)
  BY IntrinsicIsPriced
<1>2. nz \in Nat /\ z \in Nat /\ cc \in BOOLEAN
  BY DEF MsgType, Deploy
<1>3. Exact(nz, z, cc) \in Nat
  BY <1>2, ExactNat
<1>4. ~(Exact(nz, z, cc) > MaxUint)
  BY <1>1 DEF Priced, Ret
<1>5. Intrinsic.gas = Exact(nz, z, cc)
  BY <1>1, <1>4, Zenon DEF Priced, Ret
<1>6. Exact(nz, z, cc) \in 0..MaxUint
  BY <1>3, <1>4, WordOf, Zenon
<1> QED BY <1>5, <1>6, Zenon

\* for the message being priced, IntrinsicGasExact holds
LEMMA ExactForMsg ==
  ASSUME msg \in MsgType
  PROVE  IntrinsicGasExact
<1>1. CASE msg.kind = "simple"
  <2>1. ~Deploy BY <1>1 DEF Deploy
  <2> QED BY <1>1, <2>1, IntrinsicIsPriced DEF IntrinsicGasExact, Priced, Exact, Base
<1>2. CASE msg.kind # "simple"
  <2>1. msg.kind = "wasm" BY <1>2 DEF MsgType
  <2> QED BY <2>1, IntrinsicIsPriced DEF IntrinsicGasExact, Priced, Exact, Base
<1> QED BY <1>1, <1>2

-----------------------------------------------------------------------------
(* The inductive invariant                                                 *)

LEMMA InitIInv == Init => IInv
<1> SUFFICES ASSUME Init PROVE IInv
  OBVIOUS
<1>1. msg \in Msgs /\ refund \in Refunds
  BY DEF Init
<1>2. wasmFailed \in BOOLEAN
  BY Zenon DEF Init
<1>3. TypeOK
  BY <1>1, <1>2, StateTransitionAssumption, MaxUintNat DEF Init, TypeOK, Pcs
<1> QED BY <1>1, <1>3 DEF Init, IInv, BeforeBuy, AfterBuy, Bought,
                          ValueConserved, GasAccounting, Settled

\* a return with an error other than ErrWasmExec keeps IInv: nothing is
\* settled and no phase constraint applies any more
LEMMA FailedReturn ==
  ASSUME TypeOK', msg' \in Msgs, pc' = "done",
         err' \notin {"none", "ErrWasmExec"}
  PROVE  IInv'
BY DEF IInv, BeforeBuy, AfterBuy, Bought, ValueConserved, GasAccounting,
       Settled

\* the fields of a message the arithmetic reads
LEMMA MsgFields ==
  ASSUME msg \in Msgs
  PROVE  /\ msg.gas \in 0..MaxUint /\ msg.price \in Nat /\ msg.value \in Nat
         /\ msg.nz \in Nat /\ msg.z \in Nat
         /\ msg.kind \in {"simple", "wasm"}
BY StateTransitionAssumption DEF MsgType

\* a step that leaves wasmFailed alone keeps it a Boolean
LEMMA WasmKept ==
  ASSUME wasmFailed \in BOOLEAN, wasmFailed' = wasmFailed
  PROVE  wasmFailed' \in BOOLEAN
BY Zenon

\* an early return keeps IInv
LEMMA FailStep ==
  ASSUME IInv, NEW e, Fail(e), e \notin {"none", "ErrWasmExec"},
         UNCHANGED <<msg, gas, initialGas, balance, pool, refund, wasmFailed>>
  PROVE  IInv'
<1>1. wasmFailed' \in BOOLEAN
  BY Zenon DEF IInv, TypeOK
<1>2. TypeOK'
  BY <1>1, MaxUintNat DEF IInv, TypeOK, Fail, Pcs
<1> QED BY <1>2, FailedReturn DEF IInv, Fail

\* state.Transfer from the sender to an account other than the coinbase
\* keeps the balances natural, their sum and the coinbase's balance
LEMMA TransferKeeps ==
  ASSUME NEW to \in {"to", "contract"}, NEW v \in Nat,
         balance \in [Accounts -> Nat], balance["from"] >= v,
         Transfer("from", to, v)
  PROVE  /\ balance' \in [Accounts -> Nat]
         /\ Total(balance') = Total(balance)
         /\ balance'["coinbase"] = balance["coinbase"]
BY DEF Transfer, Total, Accounts

\* a step that only moves pc between the calls after buyGas keeps IInv
LEMMA MoveStep ==
  ASSUME IInv,
         UNCHANGED <<msg, gas, initialGas, balance, pool, refund, err,
                     usedGas, wasmFailed>>,
         pc \in Bought \ {"refund"}, pc' \in Bought \ {"refund"},
         pc' \in {"target", "intrinsic", "nonce", "exec"} =>
           balance["from"] >= msg.value
  PROVE  IInv'
<1>1. wasmFailed' \in BOOLEAN
  BY Zenon DEF IInv, TypeOK
<1> QED BY <1>1 DEF IInv, TypeOK, Pcs, Bought, BeforeBuy, AfterBuy,
                    ValueConserved, GasAccounting, Settled

\* a step of execution (Transfer, createWasmAccount, callWasm) that keeps
\* the balances' sum and the coinbase, takes gas and at most fails the Wasm
\* call reaches refundGas in IInv
LEMMA ExecStep ==
  ASSUME IInv, pc = "exec", pc' = "refund",
         balance' \in [Accounts -> Nat],
         Total(balance') = Total(balance),
         balance'["coinbase"] = balance["coinbase"],
         gas' \in 0..gas, err' \in {"none", "ErrWasmExec"},
         UNCHANGED <<msg, initialGas, pool, refund, usedGas, wasmFailed>>
  PROVE  IInv'
<1>1. wasmFailed' \in BOOLEAN
  BY WasmKept DEF IInv, TypeOK
<1>2. TypeOK'
  BY <1>1, MaxUintNat DEF IInv, TypeOK, Pcs
<1>3. AfterBuy'
  BY DEF IInv, TypeOK, Bought, AfterBuy
<1> QED BY <1>2, <1>3 DEF IInv, BeforeBuy, ValueConserved, GasAccounting,
                          Settled

\* refundGas and the coinbase payment: the capped refund c is at most the
\* gas used, so gas + c fits in a word and U wraps nothing; the sender gets
\* gas + c back, the coinbase the rest of msg.Gas()
LEMMA RefundStep ==
  ASSUME IInv, Refund
  PROVE  LET c == RefundCapped(gas)
             p == msg.price
         IN  /\ initialGas = msg.gas /\ gas <= initialGas
             /\ gas \in 0..MaxUint /\ initialGas \in 0..MaxUint
             /\ err \in {"none", "ErrWasmExec"}
             /\ pool = InitPool - msg.gas
             /\ Total(balance) + msg.gas * p = Total(InitBalance)
             /\ balance["coinbase"] = InitBalance["coinbase"]
             /\ refund \in 0..MaxUint /\ balance \in [Accounts -> Nat]
             /\ c \in 0..(initialGas - gas)
             /\ gas + c \in 0..MaxUint /\ initialGas - (gas + c) \in 0..MaxUint
             /\ balance' = [balance EXCEPT !["from"] = @ + (gas + c) * p,
                                  !["coinbase"] = @ + (initialGas - (gas + c)) * p]
             /\ pool' = pool + (gas + c)
             /\ gas' = gas + c
             /\ usedGas' = initialGas - (gas + c)
             /\ pc' = "done" /\ err' = err
             /\ UNCHANGED <<msg, initialGas, refund>>
<1> DEFINE c == RefundCapped(gas)
          p == msg.price
<1>1. /\ initialGas = msg.gas /\ gas <= initialGas
      /\ gas \in 0..MaxUint /\ initialGas \in 0..MaxUint
      /\ err \in {"none", "ErrWasmExec"}
      /\ pool = InitPool - msg.gas
      /\ Total(balance) + msg.gas * p = Total(InitBalance)
      /\ balance["coinbase"] = InitBalance["coinbase"]
      /\ refund \in 0..MaxUint /\ balance \in [Accounts -> Nat]
  BY MsgFields, StateTransitionAssumption DEF Refund, IInv, AfterBuy, Bought, TypeOK
<1>7. initialGas - gas \in 0..MaxUint
  BY <1>1, MaxUintNat
<1>2. GasUsed(gas) = initialGas - gas
  BY <1>7, UId DEF GasUsed
\* the capped refund is at most the gas used, so the sum stays in a word
<1>3. c \in 0..(initialGas - gas)
  BY <1>1, <1>2, MaxUintNat DEF RefundCapped
<1>13. gas + c \in 0..MaxUint /\ initialGas - (gas + c) \in 0..MaxUint
  BY <1>1, <1>3, MaxUintNat
<1>4. U(gas + c) = gas + c
  BY <1>13, UId
<1>5. GasUsed(gas + c) = initialGas - (gas + c)
  BY <1>13, UId DEF GasUsed
<1>6. /\ balance' = [balance EXCEPT !["from"] = @ + (gas + c) * p,
                     !["coinbase"] = @ + (initialGas - (gas + c)) * p]
      /\ pool' = pool + (gas + c)
      /\ gas' = gas + c
      /\ usedGas' = initialGas - (gas + c)
      /\ pc' = "done" /\ err' = err
      /\ UNCHANGED <<msg, initialGas, refund>>
  BY <1>7, <1>4, <1>5 DEF Refund
<1> QED BY <1>1, <1>3, <1>13, <1>6

LEMMA NextIInv == IInv /\ [Next]_vars => IInv'
<1> SUFFICES ASSUME IInv, [Next]_vars PROVE IInv'
  OBVIOUS
<1>0. /\ msg.gas \in 0..MaxUint /\ msg.price \in Nat /\ msg.value \in Nat
      /\ msg.nz \in Nat /\ msg.z \in Nat /\ msg.kind \in {"simple", "wasm"}
  BY MsgFields DEF IInv
<1>1. CASE UNCHANGED vars
  <2>1. wasmFailed' \in BOOLEAN
    BY <1>1, Zenon DEF IInv, TypeOK, vars
  <2> QED BY <1>1, <2>1 DEF vars, IInv, TypeOK, BeforeBuy, AfterBuy,
                            ValueConserved, GasAccounting, Settled
<1>2. CASE ResetFails \/ NonceRejected \/ BuyGasNoBalance \/ BuyGasPoolEmpty
             \/ CanTransferFails \/ NoTarget \/ IntrinsicOverflow
             \/ IntrinsicOutOfGas \/ NonceAddFails
  BY <1>2, FailStep DEF ResetFails, NonceRejected, BuyGasNoBalance,
                        BuyGasPoolEmpty, CanTransferFails, NoTarget,
                        IntrinsicOverflow, IntrinsicOutOfGas, NonceAddFails
<1>3. CASE CanTransfer
  BY <1>3, MoveStep DEF CanTransfer, Bought
<1>4. CASE HasTarget
  BY <1>4, MoveStep DEF HasTarget, Bought, IInv, AfterBuy
<1>5. CASE NonceAdd
  BY <1>5, MoveStep DEF NonceAdd, Bought, IInv, AfterBuy
<1>6. CASE UseIntrinsicGas
  <2>1. Intrinsic.gas \in 0..MaxUint
    BY <1>6, IntrinsicWord, StateTransitionAssumption DEF UseIntrinsicGas, IInv
  <2>2. wasmFailed' \in BOOLEAN
    BY <1>6, WasmKept DEF UseIntrinsicGas, IInv, TypeOK
  <2>6. gas' = gas - Intrinsic.gas /\ gas >= Intrinsic.gas
    BY <1>6 DEF UseIntrinsicGas
  <2>5. gas' \in 0..MaxUint /\ gas' <= gas
    BY <2>1, <2>6, MaxUintNat DEF IInv, TypeOK
  <2>3. TypeOK'
    BY <1>6, <2>2, <2>5 DEF UseIntrinsicGas, IInv, TypeOK, Pcs
  <2>4. AfterBuy'
    BY <1>6, <2>1 DEF UseIntrinsicGas, IInv, TypeOK, Bought, AfterBuy
  <2> QED BY <1>6, <2>3, <2>4
          DEF UseIntrinsicGas, IInv, BeforeBuy, ValueConserved, GasAccounting,
              Settled
<1>7. CASE BuyGas
  <2>1. balance = InitBalance /\ pool = InitPool /\ gas = 0 /\ err = "none"
    BY <1>7 DEF BuyGas, IInv, BeforeBuy
  <2>2. U(msg.gas) = msg.gas
    BY <1>0, UId
  <2>3. gas' = msg.gas
    BY <1>7, <1>0, <2>1, <2>2 DEF BuyGas
  <2>4. msg.gas * msg.price \in Nat /\ balance["from"] >= msg.gas * msg.price
    BY <1>7, <1>0 DEF BuyGas
  <2>5. /\ balance' \in [Accounts -> Nat]
        /\ Total(balance') + msg.gas * msg.price = Total(balance)
        /\ balance'["coinbase"] = balance["coinbase"]
    BY <1>7, <2>4 DEF BuyGas, IInv, TypeOK, Total, Accounts
  <2>6. wasmFailed' \in BOOLEAN
    BY <1>7, WasmKept DEF BuyGas, IInv, TypeOK
  <2>7. TypeOK'
    BY <1>7, <1>0, <2>1, <2>3, <2>5, <2>6 DEF BuyGas, IInv, TypeOK, Pcs
  <2> QED BY <1>7, <1>0, <2>1, <2>3, <2>5, <2>7
          DEF BuyGas, IInv, Bought, BeforeBuy, AfterBuy, ValueConserved,
              GasAccounting, Settled
<1>8. CASE SimpleTransfer
  <2>1. balance["from"] >= msg.value /\ balance \in [Accounts -> Nat]
    BY <1>8 DEF SimpleTransfer, IInv, AfterBuy, Bought, TypeOK
  <2>2. /\ balance' \in [Accounts -> Nat]
        /\ Total(balance') = Total(balance)
        /\ balance'["coinbase"] = balance["coinbase"]
    BY <1>8, <1>0, <2>1, TransferKeeps DEF SimpleTransfer
  <2>3. gas' \in 0..gas
    BY <1>8 DEF SimpleTransfer, IInv, TypeOK
  <2> QED BY <1>8, <2>2, <2>3, ExecStep DEF SimpleTransfer, IInv, AfterBuy, Bought
<1>9. CASE CreateWasmAccount
  <2>1. balance["from"] >= msg.value /\ balance \in [Accounts -> Nat]
    BY <1>9 DEF CreateWasmAccount, IInv, AfterBuy, Bought, TypeOK
  <2>2. /\ balance' \in [Accounts -> Nat]
        /\ Total(balance') = Total(balance)
        /\ balance'["coinbase"] = balance["coinbase"]
    BY <1>9, <1>0, <2>1, TransferKeeps DEF CreateWasmAccount
  <2>3. CreateDataGas \in 0..MaxUint
    BY <1>0, UType, StateTransitionAssumption DEF CreateDataGas, DataLen
  <2>4. gas' \in 0..gas
    BY <1>9, <2>3 DEF CreateWasmAccount, IInv, TypeOK
  <2> QED BY <1>9, <2>2, <2>4, ExecStep DEF CreateWasmAccount, IInv, AfterBuy, Bought
<1>10. CASE CreateOutOfGas
  <2>1. balance["from"] >= msg.value /\ balance \in [Accounts -> Nat]
    BY <1>10 DEF CreateOutOfGas, IInv, AfterBuy, Bought, TypeOK
  <2>2. balance' \in [Accounts -> Nat]
    BY <1>10, <1>0, <2>1, TransferKeeps DEF CreateOutOfGas
  <2>3. wasmFailed' \in BOOLEAN
    BY <1>10, WasmKept DEF CreateOutOfGas, IInv, TypeOK
  <2>4. TypeOK'
    BY <1>10, <2>2, <2>3, MaxUintNat DEF CreateOutOfGas, Fail, IInv, TypeOK, Pcs
  <2> QED BY <1>10, <2>4, FailedReturn DEF CreateOutOfGas, Fail, IInv
<1>11. CASE CallWasm
  <2>1. balance["from"] >= msg.value /\ balance \in [Accounts -> Nat]
    BY <1>11 DEF CallWasm, IInv, AfterBuy, Bought, TypeOK
  <2>2. /\ balance' \in [Accounts -> Nat]
        /\ Total(balance') = Total(balance)
        /\ balance'["coinbase"] = balance["coinbase"]
    BY <1>11, <1>0, <2>1, TransferKeeps DEF CallWasm
  <2>3. \/ gas' \in 0..gas /\ err' \in {"none", "ErrWasmExec"}
        \/ gas' = gas /\ err' = err
    BY <1>11, Zenon DEF CallWasm
  <2>4. gas' \in 0..gas /\ err' \in {"none", "ErrWasmExec"}
    BY <1>11, <2>3 DEF CallWasm, IInv, AfterBuy, Bought, TypeOK
  <2> QED BY <1>11, <2>2, <2>4, ExecStep DEF CallWasm, IInv, AfterBuy, Bought
<1>12. CASE Refund
  <2> DEFINE c == RefundCapped(gas)
             p == msg.price
  <2>1. /\ initialGas = msg.gas /\ gas <= initialGas
        /\ gas \in 0..MaxUint /\ initialGas \in 0..MaxUint
        /\ err \in {"none", "ErrWasmExec"}
        /\ pool = InitPool - msg.gas
        /\ Total(balance) + msg.gas * p = Total(InitBalance)
        /\ balance["coinbase"] = InitBalance["coinbase"]
        /\ refund \in 0..MaxUint /\ balance \in [Accounts -> Nat]
        /\ c \in 0..(initialGas - gas)
        /\ gas + c \in 0..MaxUint /\ initialGas - (gas + c) \in 0..MaxUint
        /\ balance' = [balance EXCEPT !["from"] = @ + (gas + c) * p,
                             !["coinbase"] = @ + (initialGas - (gas + c)) * p]
        /\ pool' = pool + (gas + c)
        /\ gas' = gas + c
        /\ usedGas' = initialGas - (gas + c)
        /\ pc' = "done" /\ err' = err
        /\ UNCHANGED <<msg, initialGas, refund>>
    BY <1>12, RefundStep, StateTransitionAssumption DEF IInv
  <2>3. c \in 0..(initialGas - gas)
    BY <2>1
  <2>13. gas + c \in 0..MaxUint /\ initialGas - (gas + c) \in 0..MaxUint
    BY <2>1
  <2>6. /\ balance' = [balance EXCEPT !["from"] = @ + (gas + c) * p,
                       !["coinbase"] = @ + (initialGas - (gas + c)) * p]
        /\ pool' = pool + (gas + c)
        /\ gas' = gas + c
        /\ usedGas' = initialGas - (gas + c)
        /\ pc' = "done" /\ err' = err
        /\ UNCHANGED <<msg, initialGas, refund>>
    BY <2>1
  <2>7. wasmFailed' \in BOOLEAN
    BY <1>12, Zenon DEF Refund
  <2>8. /\ balance' \in [Accounts -> Nat]
        /\ Total(balance') = Total(balance) + (gas + c) * p
                               + (initialGas - (gas + c)) * p
        /\ balance'["coinbase"]
             = balance["coinbase"] + (initialGas - (gas + c)) * p
    BY <2>1, <2>3, <2>6, <1>0 DEF Total, Accounts
  <2>9. (gas + c) * p + (initialGas - (gas + c)) * p = initialGas * p
    BY <2>1, <2>3, <1>0
  <2>10. TypeOK'
    BY <2>3, <2>6, <2>7, <2>8, <2>13, MaxUintNat DEF IInv, TypeOK, Pcs
  <2>15. Total(balance) \in Nat /\ Total(InitBalance) \in Nat
    BY <2>1, StateTransitionAssumption DEF Total, Accounts
  <2>16. Total(balance') = Total(balance) + initialGas * p
    BY <2>3, <2>8, <2>9, <2>15, <2>13, <1>0
  <2>14. Total(balance') = Total(InitBalance)
    BY <2>1, <2>16, <2>15, <1>0
  <2>11. ValueConserved'
    BY <2>14 DEF ValueConserved
  <2>12. GasAccounting'
    BY <2>1, <2>3, <2>6, <2>8, <1>0, StateTransitionAssumption, MaxUintNat
    DEF GasAccounting, Accounts
  <2> QED BY <2>6, <2>10, <2>11, <2>12, <1>12
          DEF Refund, IInv, BeforeBuy, AfterBuy, Bought
<1> QED BY <1>1, <1>2, <1>3, <1>4, <1>5, <1>6, <1>7, <1>8, <1>9, <1>10,
           <1>11, <1>12 DEF Next


LEMMA IInvSpec == Spec => []IInv
BY InitIInv, NextIInv, PTL DEF Spec

\* IInv carries every invariant the tx_gas run checks
LEMMA IInvImplies ==
  IInv => TypeOK /\ ValueConserved /\ GasAccounting /\ IntrinsicGasExact
<1> SUFFICES ASSUME IInv
             PROVE  TypeOK /\ ValueConserved /\ GasAccounting /\ IntrinsicGasExact
  OBVIOUS
<1>1. msg \in MsgType
  BY StateTransitionAssumption DEF IInv
<1> QED BY <1>1, ExactForMsg DEF IInv

-----------------------------------------------------------------------------
(* The refinement of StateTransitionAbstract                               *)

LEMMA InitTrack == Init => Track
BY DEF Init, Track, Bought

\* the balances buyGas leaves are GasBought
LEMMA BuyGasBought ==
  ASSUME IInv, BuyGas PROVE balance' = TxAbs!GasBought
<1>1. balance = InitBalance
  BY DEF BuyGas, IInv, BeforeBuy
<1> QED BY <1>1 DEF BuyGas, TxAbs!GasBought

\* the value moves to the abstract destination
LEMMA DestOfExec ==
  /\ SimpleTransfer => TxAbs!Dest = "to"
  /\ CreateWasmAccount => TxAbs!Dest = "contract"
  /\ CreateOutOfGas => TxAbs!Dest = "contract"
  /\ CallWasm => TxAbs!Dest = "to"
BY DEF SimpleTransfer, CreateWasmAccount, CreateOutOfGas, CallWasm, Deploy,
       TxAbs!Dest

\* GasBought and Dest depend on the message only
LEMMA MsgKept ==
  ASSUME msg' = msg
  PROVE  TxAbs!GasBought' = TxAbs!GasBought /\ TxAbs!Dest' = TxAbs!Dest
BY DEF TxAbs!GasBought, TxAbs!Dest

LEMMA NextTrack == TxIInv /\ [Next]_vars => Track'
<1> SUFFICES ASSUME IInv, Track, [Next]_vars PROVE Track'
  BY DEF TxIInv
<1>1. CASE pc' \notin Bought
  BY <1>1 DEF Track, Bought
<1>2. CASE UNCHANGED vars
  BY <1>2 DEF vars, Track, TxAbs!GasBought, TxAbs!Dest
<1>3. CASE BuyGas
  BY <1>3, BuyGasBought, MsgKept DEF BuyGas, Track, Bought
<1>4. CASE CanTransfer \/ HasTarget \/ UseIntrinsicGas \/ NonceAdd
  BY <1>4, MsgKept
  DEF CanTransfer, HasTarget, UseIntrinsicGas, NonceAdd, Track, Bought
<1>5. CASE SimpleTransfer \/ CreateWasmAccount \/ CallWasm
  <2>1. balance = TxAbs!GasBought
    BY <1>5 DEF SimpleTransfer, CreateWasmAccount, CallWasm, Track, Bought
  <2>0. TxAbs!GasBought' = TxAbs!GasBought /\ TxAbs!Dest' = TxAbs!Dest
    BY <1>5, MsgKept DEF SimpleTransfer, CreateWasmAccount, CallWasm
  <2>2. CASE SimpleTransfer
    BY <2>0, <2>1, <2>2, DestOfExec DEF SimpleTransfer, Transfer, Track
  <2>3. CASE CreateWasmAccount
    BY <2>0, <2>1, <2>3, DestOfExec DEF CreateWasmAccount, Transfer, Track
  <2>4. CASE CallWasm
    BY <2>0, <2>1, <2>4, DestOfExec DEF CallWasm, Transfer, Track
  <2> QED BY <1>5, <2>2, <2>3, <2>4
<1>6. CASE ~UNCHANGED vars /\ pc' \in Bought
           /\ ~(BuyGas \/ CanTransfer \/ HasTarget \/ UseIntrinsicGas \/ NonceAdd
                \/ SimpleTransfer \/ CreateWasmAccount \/ CallWasm)
  BY <1>6 DEF Next, ResetFails, NonceRejected, BuyGasNoBalance, BuyGasPoolEmpty,
              CanTransferFails, NoTarget, IntrinsicOverflow, IntrinsicOutOfGas,
              NonceAddFails, CreateOutOfGas, Refund, Fail, Bought
<1> QED BY <1>1, <1>2, <1>3, <1>4, <1>5, <1>6

LEMMA TxIInvSpec == Spec => []TxIInv
<1>1. Init => TxIInv
  BY InitIInv, InitTrack DEF TxIInv
<1>2. TxIInv /\ [Next]_vars => TxIInv'
  BY NextIInv, NextTrack DEF TxIInv
<1> QED BY <1>1, <1>2, PTL DEF Spec

\* no action of the transition is enabled once it has returned
LEMMA DoneStops ==
  ASSUME pc = "done", Next PROVE FALSE
BY DEF Next, ResetFails, NonceRejected, BuyGasNoBalance, BuyGasPoolEmpty,
       BuyGas, CanTransferFails, CanTransfer, NoTarget, HasTarget,
       IntrinsicOverflow, IntrinsicOutOfGas, UseIntrinsicGas, NonceAddFails,
       NonceAdd, SimpleTransfer, CreateOutOfGas, CreateWasmAccount, CallWasm,
       Refund

\* the errors of the early returns are none of the settled ones
LEMMA FailErrs ==
  /\ ResetFails \/ NonceRejected \/ BuyGasNoBalance \/ BuyGasPoolEmpty
     \/ CanTransferFails \/ NoTarget \/ IntrinsicOverflow
     \/ IntrinsicOutOfGas \/ NonceAddFails \/ CreateOutOfGas
  => err' \notin TxAbs!SettledErrs
BY DEF ResetFails, NonceRejected, BuyGasNoBalance, BuyGasPoolEmpty,
       CanTransferFails, NoTarget, IntrinsicOverflow, IntrinsicOutOfGas,
       NonceAddFails, CreateOutOfGas, Fail, TxAbs!SettledErrs

\* the steps before the return change nothing the caller sees
LEMMA SilentStep ==
  ASSUME pc # "done", pc' # "done", UNCHANGED <<msg, usedGas>>
  PROVE  UNCHANGED TxAbs!absVars
BY DEF TxAbs!absVars

\* an early return of preCheck or buyGas is a Reject
LEMMA RejectStep ==
  ASSUME IInv,
         ResetFails \/ NonceRejected \/ BuyGasNoBalance \/ BuyGasPoolEmpty
  PROVE  TxAbs!Reject
<1>1. pc = "precheck" /\ pc' = "done" /\ usedGas' = 0
      /\ UNCHANGED <<msg, balance, pool>>
  BY DEF ResetFails, NonceRejected, BuyGasNoBalance, BuyGasPoolEmpty, Fail
<1>2. balance = InitBalance /\ pool = InitPool
  BY <1>1 DEF IInv, BeforeBuy
<1> QED BY <1>1, <1>2, FailErrs DEF TxAbs!Reject

\* an early return after buyGas is an Abort with the gas still bought
LEMMA AbortStep ==
  ASSUME IInv, Track,
         CanTransferFails \/ NoTarget \/ IntrinsicOverflow
         \/ IntrinsicOutOfGas \/ NonceAddFails
  PROVE  TxAbs!Abort
<1>1. pc \in Bought \ {"refund"} /\ pc' = "done" /\ usedGas' = 0
      /\ UNCHANGED <<msg, balance, pool>>
  BY DEF CanTransferFails, NoTarget, IntrinsicOverflow, IntrinsicOutOfGas,
         NonceAddFails, Fail, Bought
<1>2. balance = TxAbs!GasBought /\ pool = InitPool - msg.gas
  BY <1>1 DEF IInv, AfterBuy, Track
<1>3. err' \notin TxAbs!SettledErrs
  BY FailErrs
<1>4. /\ (IF pc = "done" THEN balance ELSE InitBalance)' = TxAbs!GasBought
      /\ (IF pc = "done" THEN pool ELSE InitPool)' = InitPool - msg.gas
      /\ (IF pc = "done" THEN err ELSE "none")' \notin TxAbs!SettledErrs
  BY <1>1, <1>2, <1>3
<1> QED BY <1>1, <1>4 DEF TxAbs!Abort, Bought

\* createWasmAccount out of gas after its transfer: an Abort that leaves
\* the value with the new contract
LEMMA CreateAbortStep ==
  ASSUME IInv, Track, CreateOutOfGas
  PROVE  TxAbs!Abort
<1>1. pc = "exec" /\ pc' = "done" /\ usedGas' = 0 /\ UNCHANGED <<msg, pool>>
  BY DEF CreateOutOfGas, Fail
<1>2. balance = TxAbs!GasBought /\ pool = InitPool - msg.gas
  BY <1>1 DEF IInv, AfterBuy, Track, Bought
<1>3. TxAbs!GasBought' = TxAbs!GasBought /\ TxAbs!Dest' = TxAbs!Dest
  BY <1>1, MsgKept
<1>4. TxAbs!Dest = "contract"
  BY DestOfExec
<1>5. balance' = [TxAbs!GasBought EXCEPT !["from"] = @ - msg.value,
                                         !["contract"] = @ + msg.value]
  BY <1>2 DEF CreateOutOfGas, Transfer
<1> QED BY <1>1, <1>2, <1>3, <1>4, <1>5, FailErrs DEF TxAbs!Abort

\* refundGas and the coinbase payment settle the call: the sender has paid
\* the value and usedGas * gasPrice, the destination has the value, the
\* coinbase exactly usedGas * gasPrice, and the pool lacks exactly usedGas
LEMMA SettleStep ==
  ASSUME IInv, Track, Refund
  PROVE  TxAbs!Settle
<1> DEFINE c == RefundCapped(gas)
           p == msg.price
           v == msg.value
           used == initialGas - (gas + c)
           D == TxAbs!Dest
           GB == TxAbs!GasBought
<1>1. /\ initialGas = msg.gas /\ gas <= initialGas
      /\ gas \in 0..MaxUint /\ initialGas \in 0..MaxUint
      /\ err \in {"none", "ErrWasmExec"}
      /\ pool = InitPool - msg.gas
      /\ c \in 0..(initialGas - gas)
      /\ balance' = [balance EXCEPT !["from"] = @ + (gas + c) * p,
                                    !["coinbase"] = @ + used * p]
      /\ pool' = pool + (gas + c)
      /\ usedGas' = used
      /\ pc' = "done" /\ err' = err
      /\ UNCHANGED msg
  BY RefundStep
<1>2. p \in Nat /\ v \in Nat /\ msg.gas \in 0..MaxUint
  BY MsgFields DEF IInv
<1>3. balance = [GB EXCEPT !["from"] = @ - v, ![D] = @ + v]
  BY DEF Refund, Track
<1>4. D \in {"to", "contract"}
  BY DEF TxAbs!Dest
<1>5. used \in 0..msg.gas
  BY <1>1, <1>2
<1>6. (gas + c) * p - msg.gas * p = 0 - used * p
  BY <1>1, <1>2
<1>7. balance' = [InitBalance EXCEPT !["from"] = @ - v - used * p,
                                    ![D] = @ + v,
                                    !["coinbase"] = @ + used * p]
  <2>1. InitBalance \in [Accounts -> Nat]
    BY StateTransitionAssumption
  <2>2. balance = [InitBalance EXCEPT !["from"] = @ - msg.gas * p - v,
                                      ![D] = @ + v]
    BY <1>3, <1>4, <2>1 DEF TxAbs!GasBought, Accounts
  <2>3. balance' = [InitBalance EXCEPT
                      !["from"] = @ - msg.gas * p - v + (gas + c) * p,
                      ![D] = @ + v,
                      !["coinbase"] = @ + used * p]
    BY <1>1, <1>4, <2>1, <2>2 DEF Accounts
  <2>4. InitBalance["from"] - msg.gas * p - v + (gas + c) * p
          = InitBalance["from"] - v - used * p
    BY <1>1, <1>2, <1>6, <2>1 DEF Accounts
  <2> QED BY <2>3, <2>4
<1>8. pool' = InitPool - used
  BY <1>1, <1>2, StateTransitionAssumption, MaxUintNat
<1>9. /\ pc # "done"
      /\ (IF pc = "done" THEN balance ELSE InitBalance)' = balance'
      /\ (IF pc = "done" THEN pool ELSE InitPool)' = pool'
      /\ (IF pc = "done" THEN err ELSE "none")' \in TxAbs!SettledErrs
  BY <1>1 DEF Refund, TxAbs!SettledErrs
<1> QED BY <1>1, <1>5, <1>7, <1>8, <1>9 DEF TxAbs!Settle

LEMMA InitAbs == Init => TxAbs!ATxInit
BY DEF Init, TxAbs!ATxInit

\* every step of the transition is a step of the abstract call or leaves
\* what the caller sees unchanged
LEMMA TxStep == TxIInv /\ [Next]_vars => [TxAbs!ATxNext]_TxAbs!absVars
<1> SUFFICES ASSUME IInv, Track, [Next]_vars
             PROVE  [TxAbs!ATxNext]_TxAbs!absVars
  BY DEF TxIInv
<1>1. CASE UNCHANGED vars
  BY <1>1 DEF vars, TxAbs!absVars
<1>2. CASE pc = "done" /\ Next
  BY <1>2, DoneStops
<1>3. CASE pc # "done" /\
           (BuyGas \/ CanTransfer \/ HasTarget \/ UseIntrinsicGas \/ NonceAdd
            \/ SimpleTransfer \/ CreateWasmAccount \/ CallWasm)
  <2>1. pc' # "done" /\ UNCHANGED <<msg, usedGas>>
    BY <1>3 DEF BuyGas, CanTransfer, HasTarget, UseIntrinsicGas, NonceAdd,
                SimpleTransfer, CreateWasmAccount, CallWasm
  <2> QED BY <1>3, <2>1, SilentStep
<1>4. CASE ResetFails \/ NonceRejected \/ BuyGasNoBalance \/ BuyGasPoolEmpty
  BY <1>4, RejectStep DEF TxAbs!ATxNext
<1>5. CASE CanTransferFails \/ NoTarget \/ IntrinsicOverflow
           \/ IntrinsicOutOfGas \/ NonceAddFails
  BY <1>5, AbortStep DEF TxAbs!ATxNext
<1>6. CASE CreateOutOfGas
  BY <1>6, CreateAbortStep DEF TxAbs!ATxNext
<1>7. CASE Refund
  BY <1>7, SettleStep DEF TxAbs!ATxNext
<1> QED BY <1>1, <1>2, <1>3, <1>4, <1>5, <1>6, <1>7 DEF Next

-----------------------------------------------------------------------------
(* Theorems                                                                *)

\* Every state of a transition is well typed: gas, initialGas and usedGas
\* stay W-bit words, balances natural (no uint64 wrap in buyGas, useGas,
\* createWasmAccount or refundGas).
THEOREM TypeCorrect == Spec => []TypeOK
BY IInvSpec, IInvImplies, PTL

\* A transition that reaches refundGas creates no coins: buyGas, the
\* transfers, refundGas and the coinbase payment leave the sum of the
\* balances as it was.
THEOREM ValueConservedHolds == Spec => []ValueConserved
BY IInvSpec, IInvImplies, PTL

\* IntrinsicGas returns the exact price of the data, or ErrOutOfGas exactly
\* when that price does not fit in a word.
THEOREM IntrinsicGasExactHolds == Spec => []IntrinsicGasExact
BY IInvSpec, IInvImplies, PTL


\* One call of SimpleTransitionDb or WasmTransitionDb implements the atomic
\* call of StateTransitionAbstract: it settles with the value at its
\* destination and exactly usedGas charged, is rejected by preCheck or
\* buyGas with nothing moved, or returns after buyGas with the gas bought.
THEOREM TxRefinementHolds == Spec => TxRefinement
<1>1. Init => TxAbs!ATxInit
  BY InitAbs
<1>2. TxIInv /\ [Next]_vars => [TxAbs!ATxNext]_TxAbs!absVars
  BY TxStep
<1> QED BY <1>1, <1>2, TxIInvSpec, PTL DEF Spec, TxRefinement, TxAbs!ATxSpec

=============================================================================

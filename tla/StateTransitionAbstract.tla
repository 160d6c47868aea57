----------------------- MODULE StateTransitionAbstract -----------------------
(***************************************************************************)
(* What one call of SimpleTransitionDb or WasmTransitionDb does to the     *)
(* accounts and the block's gas pool, seen as one atomic step: it either  *)
(*  - settles: the value reaches its destination, the sender pays         *)
(*    usedGas * gasPrice, the coinbase receives exactly that and the pool *)
(*    keeps exactly usedGas, for some usedGas up to msg.Gas();            *)
(*  - is rejected by preCheck before any gas is bought: nothing moves;    *)
(*  - returns an error after buyGas: the gas stays bought (the sender has *)
(*    paid msg.Gas() * gasPrice, the pool lacks msg.Gas()), nobody is     *)
(*    refunded or paid, and a deployment's value stays with the contract. *)
(* Undoing the third outcome is left to the caller's state snapshot.      *)
(***************************************************************************)
EXTENDS Integers

CONSTANTS Msgs, InitBalance, InitPool

VARIABLES
  msg,      \* the message applied
  done,     \* the call has returned
  balance,  \* the balances of From, To, Coinbase, Contract
  pool,     \* the block's GasPool
  err,      \* the error returned
  usedGas   \* the usedGas returned

absVars == <<msg, done, balance, pool, err, usedGas>>

\* the account the value goes to: the new contract of a deployment, To()
\* otherwise
Dest == IF msg.kind = "wasm" /\ msg.toNil THEN "contract" ELSE "to"

\* the balances once the sender has bought all the message's gas
GasBought == [InitBalance EXCEPT !["from"] = @ - msg.gas * msg.price]

\* the errors of a settled call: none, or a failed Wasm execution
SettledErrs == {"none", "ErrWasmExec"}

ATxInit ==
  /\ msg \in Msgs
  /\ done = FALSE
  /\ balance = InitBalance
  /\ pool = InitPool
  /\ err = "none"
  /\ usedGas = 0

Settle ==
  /\ ~done /\ done'
  /\ err' \in SettledErrs
  /\ \E used \in 0..msg.gas :
       /\ balance' = [InitBalance EXCEPT
                        !["from"] = @ - msg.value - used * msg.price,
                        ![Dest] = @ + msg.value,
                        !["coinbase"] = @ + used * msg.price]
       /\ pool' = InitPool - used
       /\ usedGas' = used
  /\ UNCHANGED msg

Reject ==
  /\ ~done /\ done'
  /\ err' \notin SettledErrs
  /\ balance' = InitBalance /\ pool' = InitPool /\ usedGas' = 0
  /\ UNCHANGED msg

Abort ==
  /\ ~done /\ done'
  /\ err' \notin SettledErrs
  /\ \/ balance' = GasBought
     \/ /\ Dest = "contract"
        /\ balance' = [GasBought EXCEPT !["from"] = @ - msg.value,
                                        !["contract"] = @ + msg.value]
  /\ pool' = InitPool - msg.gas /\ usedGas' = 0
  /\ UNCHANGED msg

ATxNext == Settle \/ Reject \/ Abort

ATxSpec == ATxInit /\ [][ATxNext]_absVars

=============================================================================

------------------------ MODULE MC_StateTransition ------------------------
(***************************************************************************)
(* Six-bit words (MaxUint = 63) with gas prices in the proportions of    *)
(* the real parameters: a zero data byte is cheap, a non-zero one dear,   *)
(* deploying data dearer still.  Four data bytes are enough to pass       *)
(* MaxUint through either overflow check of IntrinsicGas, and to wrap the *)
(* unchecked len(data) * TxGasContractCreateData of createWasmAccount.    *)
(* Message gas 63 exceeds the pool, 10 is too little for a deployment;    *)
(* refund counters 0, 5 and 40 fall below, near and above half the gas  *)
(* a transaction uses.                                                    *)
(***************************************************************************)
EXTENDS StateTransition

MCMsgs ==
  [kind: {"simple", "wasm"}, toNil: BOOLEAN, gas: {10, 40, 63},
   price: {1, 2}, value: {0, 30}, nz: {0, 1, 3, 4}, z: {0, 1, 4},
   resetOk: BOOLEAN, nonceOk: BOOLEAN, addOk: BOOLEAN, hasCode: BOOLEAN,
   wasmOk: BOOLEAN]

MCInitBalance ==
  [a \in Accounts |-> IF a = "from" THEN 100 ELSE 7]
=============================================================================

\* Every run is one transaction and ends at "done": the final states are
\* the returns of the transition, not deadlocks.
CONSTANTS
  W = 6
  TxGas = 5
  TxGasContractCreation = 9
  TxDataNonZeroGas = 17
  TxDataZeroGas = 4
  TxGasContractCreateData = 20
  Msgs <- MCMsgs
  InitBalance <- MCInitBalance
  InitPool = 50
  Refunds = {0, 5, 40}
SPECIFICATION Spec
INVARIANTS
  TypeOK
  ValueConserved
  IntrinsicGasExact
PROPERTY
  TxRefinement
CHECK_DEADLOCK FALSE

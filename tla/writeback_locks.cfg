SPECIFICATION Spec
CONSTANTS
  Executors = {0, 1}
  Accounts <- MCAccounts
  InitialBank <- MCBank
  Partition <- MCPartition
  Logs <- LocalPaymentLogs
  NoTx = NoTx
  MaxLost = 0
INVARIANT ReadyAtHeads
CHECK_DEADLOCK FALSE

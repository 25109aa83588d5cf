SPECIFICATION Spec
CONSTANTS
  Executors = {0, 1}
  Accounts <- MCAccounts
  InitialBank <- MCBank
  Partition <- MCPartition
  Logs <- MCLogs
  NoTx = NoTx
  MaxLost = 1
INVARIANTS TypeOK AwaitedOnce
PROPERTIES SerialExecution EveryTransactionExecuted
CHECK_DEADLOCK FALSE

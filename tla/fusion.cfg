SPECIFICATION ReplaySpec
CONSTANTS
  Executors = {0, 1}
  Accounts <- MCAccounts
  NotHere = NotHere
  InitialBank <- MCBank
  InitialPartition <- MCPartition
  Logs <- MCAllLogs
  Schedulers = {TRUE, FALSE}
  MaxLost = 1
  Recordings <- MCRecordings
  NumWorkers = 2
  NoReport = NoReport
  MaxReplayFaults = 1
INVARIANTS TypeOK AccountOnce PartitionAgreement ReplayTypeOK ReplayInOrder
PROPERTIES SerialExecution EveryBatchExecuted
CHECK_DEADLOCK FALSE

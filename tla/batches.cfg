SPECIFICATION Spec
CONSTANTS
  A = A
  B = B
  C = C
  Authorities <- MCAuthorities
  Stake <- MCStake
  Keys <- MCKeys
  Author = A
  Silent = {}
  MayRestart = {B}
  NumBatches = 2
  MaxBreaks = 1
INVARIANTS TypeOK QuorumReceived KeptUntilAcked
PROPERTIES EveryBatchProcessed
CHECK_DEADLOCK FALSE

CONSTANTS
  A = A
  B = B
  C = C
  D = D
  Authorities = {A, B, C, D}
  Stake <- MCStake
  Keys <- MCKeys
  Validators = {v1, v2}
  GcDepth = 1
  Dags <- AllDags
  MaxRedeliveries = 1
SPECIFICATION FairSpec
INVARIANTS TypeOK CommitOnce WholeHistory LeaderAgreement CausalCommit AgreementIfChained
PROPERTY SupportedLeadersCommitted
CHECK_DEADLOCK FALSE

CONSTANTS
  A = A
  B = B
  C = C
  D = D
  SortedKeys <- MCKeys
  Validators = {A, B}
  Accounts = {1, 2}
  Home <- MCHome
  Capacity <- MCCapacity
  Latency <- MCLatency
  Dags <- AllDags
  TrackingWindow = 1
  RerouteInterval = 2
  MinDonorDelay = 1
  ShedCapMultiplier = 4
  None = None
  Client = A
  Peers = {D}
  Forgeries <- MCForgeries
  MaxFaults = 2
SPECIFICATION RoutingSpec
INVARIANTS TypeOK NeverStops SameDecisions RoutedByCorrect
PROPERTIES MovesFit MoveFollowed
CHECK_DEADLOCK FALSE

CONSTANTS
  h1 = h1
  h2 = h2
  batch = batch
  Mute = Mute
  Good = Good
  Headers = {h1, h2}
  Batches = {batch}
  Author <- MCAuthor
  Round <- MCRound
  PayloadOf <- MCPayloadOf
  Peers = {Mute, Good}
  Holds <- MCHolds
  GcDepth = 1
  None = None
  MaxLost = 0
SPECIFICATION Spec
PROPERTY CommittedArrives
CHECK_DEADLOCK FALSE

CONSTANTS
  A = A
  B = B
  C = C
  x = x
  y = y
  z = z
  w = w
  Authorities = {A, B, C}
  Stake <- MCStake
  Keys <- MCKeys
  Byzantine = {C}
  MayRestart = {}
  GcDepth = 0
  CommitLag = 0
  MaxRound = 2
  MaxForged = 0
  Forms <- NoForms
  Payload = {x, y}
  Contents <- MCContents
  Late = {}
SPECIFICATION FairSpec
PROPERTY RoundProgress

CONSTANTS
  A = A
  B = B
  C = C
  x = x
  y = y
  z = z
  w = w
  Authorities = {A, B}
  Stake <- SlowStake
  Keys <- SlowKeys
  Byzantine = {}
  MayRestart = {}
  GcDepth = 1
  CommitLag = 3
  MaxRound = 7
  MaxForged = 0
  Forms <- NoForms
  Payload = {x, y}
  Contents <- MCContents
  Late = {}
SPECIFICATION Spec
INVARIANT OwnVoteAccepted
CONSTRAINT InOrder

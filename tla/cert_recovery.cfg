CONSTANTS
  A = A
  B = B
  C = C
  x = x
  y = y
  z = z
  w = w
  Authorities = {A, B}
  Stake <- SlowStake
  Keys <- SlowKeys
  Byzantine = {}
  MayRestart = {B}
  GcDepth = 0
  CommitLag = 1
  MaxRound = 2
  MaxForged = 0
  Forms <- NoForms
  Payload = {x, y}
  Contents <- MCContents
  Late = {}
SPECIFICATION Spec
INVARIANTS CertificateUniqueness ParentsReady NoEquivocation

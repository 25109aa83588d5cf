CONSTANTS
  A = A
  B = B
  C = C
  x = x
  y = y
  z = z
  w = w
  Authorities = {A, B, C}
  Stake <- MCStake
  Keys <- MCKeys
  Byzantine = {C}
  MayRestart = {}
  GcDepth = 1
  CommitLag = 1
  MaxRound = 1
  MaxForged = 2
  Forms <- MCForms
  Payload = {x, y, z, w}
  Contents <- MCContents
  Late = {y}
SPECIFICATION Spec
INVARIANTS TypeOK CertificateUniqueness CertifiedAvailable

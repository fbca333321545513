SPECIFICATION Spec
CONSTANTS
  p1 = p1
  p2 = p2
  f1 = f1
  f2 = f2
  f3 = f3
  f4 = f4
  e1 = e1
  e2 = e2
  big = big
  Processes = {p1, p2}
  Files = {f1, f2, f3, f4}
  NoFile = NoFile
  Envelopes = {e1, e2, big}
  Large = {big}
  Blocks = 2
  NoBlock = NoBlock
  NoContent = NoContent
  MaxMishaps = 1
SYMMETRY Symmetric
INVARIANTS
  TypeOK
  LoadsAreWhole
  LitterOnlyFromMishaps
PROPERTIES
  ImplementsAtomicFile
CHECK_DEADLOCK FALSE

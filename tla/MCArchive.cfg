SPECIFICATION Spec
CONSTANTS
  p1 = p1
  p2 = p2
  c1 = c1
  c2 = c2
  b1 = b1
  b2 = b2
  n1 = n1
  t1 = t1
  t2 = t2
  Procs = {p1, p2}
  Contents = {c1, c2}
  Buckets = {b1, b2}
  Names <- MCNames
  Prefix <- MCPrefix
  Short <- MCShort
  Stamps = {t1, t2}
  None = None
  Damaged = Damaged
  MaxCaptures = 3
  MaxCrashes = 1
  MaxDamages = 1
SYMMETRY MCSymmetry
CHECK_DEADLOCK FALSE
INVARIANTS
  TypeOK
  ObservationsVerify
  HandlesAreSound
  OneWriterPerDirectory
  LinksAreFlat
  CopiesAreBounded
PROPERTIES
  IsImmutableStore

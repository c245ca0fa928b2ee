SPECIFICATION Spec
CONSTANTS
  p1 = p1
  p2 = p2
  a = a
  b = b
  c = c
  html = html
  Procs = {p1, p2}
  Types = {"LOK_SABHA", "ASSEMBLY"}
  Shas = {a, b, c, html}
  Unsupported = {html}
  None = None
  MaxCaptures = 4
  MaxCrashes = 1
SYMMETRY MCSymmetry
CHECK_DEADLOCK FALSE
INVARIANTS
  
  
  FirstsAreRaces
PROPERTIES
  ObservationsAreKept

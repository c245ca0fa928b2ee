SPECIFICATION Spec
CONSTANTS
  p1 = p1
  p2 = p2
  a = a
  b = b
  c = c
  html = html
  Procs = {p1}
  Types = {"LOK_SABHA"}
  Shas = {a, b, c, html}
  Unsupported = {html}
  None = None
  MaxCaptures = 4
  MaxCrashes = 0
CHECK_DEADLOCK FALSE
PROPERTIES
  SameBytesAreUnchanged

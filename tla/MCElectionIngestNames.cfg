SPECIFICATION Spec
CONSTANTS
  original = original
  corrected = corrected
  later = later
  taken = taken
  namesakes = namesakes
  invalid = invalid
  elsewhere = elsewhere
  twins = twins
  asha = asha
  bharat = bharat
  x1 = x1
  x2 = x2
  x3 = x3
  code1 = code1
  NoCode = NoCode
  NoExt = NoExt
  Urls = {u1, u2}
  Shas = {original, corrected, later, taken, namesakes, twins, invalid}
  Payload <- MCPayload
  Polls <- MCPolls
  States <- MCStates
  SeatNames <- MCSeatNames
  Codes = {code1}
  Parties <- MCParties
  Names = {asha, bharat}
  Exts = {x1, x2, x3}
  MaxRuns = 3
  MaxFaults = 1
  MaxCrashes = 1
CHECK_DEADLOCK FALSE
INVARIANTS
  NeverMergedByName

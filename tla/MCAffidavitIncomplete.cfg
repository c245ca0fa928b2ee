SPECIFICATION Spec
CONSTANTS
  complete = complete
  revised = revised
  incomplete = incomplete
  late = late
  contradictory = contradictory
  inner = inner
  scanned = scanned
  nameless = nameless
  asha = asha
  bharat = bharat
  seat = seat
  otherSeat = otherSeat
  x1 = x1
  x3 = x3
  personId = personId
  None = None
  Absent = None
  Urls = {u1, u2}
  Shas = {complete, revised, incomplete, late, contradictory, inner, scanned, nameless}
  Extraction <- MCExtraction
  Form <- MCForm
  Values <- MCValues
  Text <- MCText
  Names = {asha, bharat}
  Years <- MCYears
  Types <- MCTypes
  Seats <- MCSeats
  Exts = {x1, x3, personId}
  Internal = {personId}
  Fields <- MCFields
  Registry <- MCRegistry
  MaxRuns = 1
  MaxFaults = 0
  MaxCrashes = 0
  MaxClosed = 0
SYMMETRY MCSymmetry
CHECK_DEADLOCK FALSE
INVARIANT
  IncompleteIsReviewed

SPECIFICATION FairSpec
CONSTANTS
  Procs = {p1, p2}
  Docs <- MCDocs
  Rows <- MCRows
  UniqueTables <- MCUniqueTables
  MaxRuns = 3
  MaxCrashes = 1
CHECK_DEADLOCK FALSE
INVARIANTS
  OneWriterAtATime
  NothingTwice
  OnlyRacesHarm
PROPERTIES
  IsSerial
  RunsAreClosed

SPECIFICATION FairSpec
CONSTANTS
  page1 = page1
  page2 = page2
  moved = moved
  elsewhere = elsewhere
  Urls = {page1, page2, moved, elsewhere}
  Allowed = {page1, page2, moved}
  NoLocation = NoLocation
  OkOnly = FALSE
  MaxRequests = 3
  MaxRetries = 1
  MaxHops = 1
  Config <- MCConfig
  MaxCanaries = 2
  MaxDeaths = 1
CHECK_DEADLOCK FALSE
INVARIANTS
  StatusTellsTruth
  PersistsArchivedPrefix
PROPERTIES
  NoCallAfterHardStop
  RunsAreClosed

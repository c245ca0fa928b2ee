SPECIFICATION FairHttp
CONSTANTS
  u1 = u1
  u2 = u2
  u3 = u3
  u4 = u4
  elsewhere = elsewhere
  Urls = {u1, u2, u3, u4, elsewhere}
  Allowed = {u1, u2, u3, u4}
  NoLocation = NoLocation
  OkOnly = TRUE
  MaxRequests = 5
  MaxRetries = 1
  MaxHops = 3
CHECK_DEADLOCK FALSE
INVARIANTS
  ContactsAreGuarded
  RetriesAreExact
PROPERTIES
  CallsEnd

SPECIFICATION FairSpec
CONSTANTS
  c1 = c1
  c2 = c2
  c3 = c3
  account = account
  credentials = credentials
  address = address
  w1 = w1
  w2 = w2
  Clients = {c1, c2, c3}
  Items = {account, credentials, address}
  KindOf <- MCKindOf
  Protocols = {"smtp", "imap", "sql"}
  MaxConcurrent = 1
  MaxRequests = 2
  MaxErrors = 1
  Capacity = 1
  TtlPos = 0
  TtlNeg = 0
  MaxTime = 1
  MaxLookups = 3
  Workers = {w1, w2}
CHECK_DEADLOCK FALSE
INVARIANTS
  SlotsExact
  OnePlace
  OwnAnswer
PROPERTIES
  AllAnswered

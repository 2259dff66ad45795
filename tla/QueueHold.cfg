CONSTANTS
  Domains = {d1}
  Mails = {m1, m2}
  Dsns = {}
  ChannelCapacity = 2
  SenderLimit = 1
  RcptLimit = 0
  RateWaits = {}
  ReleaseDelays = {0}
  RetryIntervals = {1}
  NotifyIntervals = {1}
  ExpireAfter = 2
  DeliverBy = {}
  Grace = 1
  Requests = {}
  MaxTime = 1
  MaxRequests = 0
  MaxRestarts = 0
  None = None
SPECIFICATION FairSpec
PROPERTIES
  HeldAreDelivered
CHECK_DEADLOCK FALSE

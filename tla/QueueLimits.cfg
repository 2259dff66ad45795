CONSTANTS
  Domains = {d1}
  Mails = {m1}
  Dsns = {b1}
  ChannelCapacity = 1
  SenderLimit = 2
  RcptLimit = 1
  RateWaits = {}
  ReleaseDelays = {1}
  RetryIntervals = {1}
  NotifyIntervals = {1}
  ExpireAfter = 2
  DeliverBy = {}
  Grace = 1
  Requests = {"cancel", "retry_now"}
  MaxTime = 1
  MaxRequests = 1
  MaxRestarts = 0
  None = None
SPECIFICATION FairSpec
INVARIANTS
  TypeOK
  Reachable
  OneOwner
  LimitersExact
PROPERTIES
  ScheduledAreDelivered
CHECK_DEADLOCK FALSE

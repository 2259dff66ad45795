CONSTANTS
  Domains = {d1, d2}
  Mails = {m1}
  Dsns = {}
  ChannelCapacity = 2
  SenderLimit = 0
  RcptLimit = 0
  RateWaits = {1}
  ReleaseDelays = {0, 1}
  RetryIntervals = {1, 2}
  NotifyIntervals = {2}
  ExpireAfter = 2
  DeliverBy = {2}
  Grace = 1
  Requests = {"stop", "cancel", "cancel_item", "retry_now"}
  MaxTime = 2
  MaxRequests = 1
  MaxRestarts = 1
  None = None
SPECIFICATION Spec
INVARIANTS
  WakesInTime
  OwnedIffOnDisk
  RestartLosesNothing
PROPERTIES
  RemovedWhenFinished
  FinishedForGood
CHECK_DEADLOCK FALSE

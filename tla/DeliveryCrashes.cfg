CONSTANTS
  r1 = r1
  r2 = r2
  r3 = r3
  d1 = d1
  d2 = d2
  Rcpts = {r1, r2}
  Domains = {d1}
  DomainOf <- MCDomainOf
  ReturnPaths = {"sender", "null"}
  Replies = {"ok", "4xx", "5xx"}
  NotifyOptions = {{"success", "failure", "delay"}}
  MaxCrashes = 1
  MaxLost = 1
  MaxErrors = 1
  MaxCancels = 0
  PartialWrites = TRUE
SPECIFICATION FairSpec
INVARIANTS
  DeliveredOnce
  ReportedOnce
  QueuedIsSaved
  DsnsAreTrue

  

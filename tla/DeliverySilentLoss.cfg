CONSTANTS
  r1 = r1
  r2 = r2
  r3 = r3
  d1 = d1
  d2 = d2
  Rcpts = {r1, r2, r3}
  Domains = {d1, d2}
  DomainOf <- MCDomainOf
  ReturnPaths = {"sender"}
  Replies = {"ok", "4xx", "5xx"}
  NotifyOptions = {{"delay", "failure"}}
  MaxCrashes = 0
  MaxLost = 0
  MaxErrors = 0
  MaxCancels = 0
  PartialWrites = FALSE
SPECIFICATION Spec
INVARIANTS
  NoSilentLoss

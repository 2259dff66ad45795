SPECIFICATION FairSpec
CONSTANTS
  d = d
  t = t
  p1 = p1
  p2 = p2
  Dmarc = {d}
  Tls = {t}
  Policies = {p1, p2}
  NoPolicy = NoPolicy
  Intervals = {1, 2}
  MaxSize = 2
  MaxTime = 3
  MaxEvents = 3
  MaxFaults = 1
CHECK_DEADLOCK FALSE
INVARIANTS
  ScheduledInTime
  NotEarly
  RecordReportedOnce
  TlsRepeatedByCrash
  FilesAccounted
PROPERTIES
  AllReported

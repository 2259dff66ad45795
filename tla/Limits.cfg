SPECIFICATION LimitsSpec
CONSTANTS
  l1 = l1
  l2 = l2
  s1 = s1
  s2 = s2
  s3 = s3
  a1 = a1
  k1 = k1
  k2 = k2
  m1 = m1
  m2 = m2
  None = None
  Listeners = {l1, l2}
  Sessions = {s1, s2, s3}
  Attempts = {a1}
  SessionKeys = {k1}
  QueueKeys = {k2}
  MaxConcurrent = 1
  KeyConcurrent = 2
  Requests = 2
  Second = 2
  Period = 2
  MaxGuards = 2
  MaxTime = 5
  Messages = {m1, m2}
  DomainsOf <- MCDomainsOf
  RcptsOf <- MCRcptsOf
  RcptDomain <- MCRcptDomain
  QueueQuotaItems <- MCQueueQuotaItems
  MessageSizes = {1, 2}
  Matching <- MCMatching
  MaxQuotaRestarts = 1
SYMMETRY ThrottleSymmetry
CHECK_DEADLOCK FALSE
INVARIANTS
  GuardsExact
  Bounded
  CleanupInvisible
  RetrySuffices
  QuotaExact
  QuotaReleased

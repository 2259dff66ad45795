SPECIFICATION Spec
CONSTANTS
  h1 = h1
  h2 = h2
  a1 = a1
  a2 = a2
  None = None
  IsSmtp = TRUE
  Helos = {h1, h2}
  Addresses = {a1, a2}
  Chunks = {1, 2}
  EhloRequire = TRUE
  AuthRequire = TRUE
  AuthEnabled = TRUE
  EhloChecks = TRUE
  MailChecks = TRUE
  RcptMax = 2
  RcptErrorsMax = 2
  AuthErrorsMax = 2
  MaxMessages = 2
  MaxMessageSize = 4
  MaxMails = 3
SYMMETRY SessionSymmetry
CHECK_DEADLOCK FALSE
INVARIANT SessionLimits
INVARIANT OwnTransaction
INVARIANT NoPanic

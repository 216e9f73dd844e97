\* Two threads, four requests, one restart: one name and two passwords, two tokens, three embedding models.
CONSTANTS
  ann = ann
  secret = secret
  guess = guess
  small = small
  large = large
  t1 = t1
  t2 = t2
  Threads = {t1, t2}
  MaxRequests = 4
  NoRequest = NoRequest
  Users = {ann}
  Passwords = {secret, guess}
  Configured <- NoneConfigured
  MaxAttempts = 2
  MaxSessions = 1
  NoAccount = NoAccount
  k1 = k1
  k2 = k2
  Tokens = {k1, k2}
  Lexical = Lexical
  Models = {Lexical, small, large}
  Dim <- Lengths
  MaxTurns = 2
  AuthRequired = TRUE
  ServiceTokens = FALSE
  MaxRestarts = 1
SPECIFICATION Spec
SYMMETRY Symmetric
\* Requests run out.
CHECK_DEADLOCK FALSE
INVARIANTS
  TypeOK
  LockoutHolds
  RevokedStaysDead
  HistoryIsTurns
  ModelsNotMixed
PROPERTY
  AccountsKept

SPECIFICATION Spec
CONSTANTS
  Sessions = {s1}
  Requests = {r1, r2}
  MaxApiConcurrency = 2
  MaxTokenRefreshRetries = 1
  TokenExpiryBuffer = 1
  HttpTimeout = 1
  AccessTtl = 2
  RefreshTtl = 2
  MaxTime = 1
  Tokens = {t1, t2, t3}
  Workers = {w1, w2}
  Unknown = Unknown
  None = None
  Client = frontEnd
  Broken = Broken
  Blank = Blank
  Stranger = Stranger
  MaxFaults = 1
SYMMETRY Symmetry
VIEW View
INVARIANTS
  LinksSound
  AnsweredOnce
  RenewedIsUnspent
PROPERTIES
  ExecuterView

SPECIFICATION Spec
CONSTANTS
  Sessions = {s1}
  Requests = {r1, r2, r3}
  MaxApiConcurrency = 2
  MaxTokenRefreshRetries = 1
  TokenExpiryBuffer = 1
  HttpTimeout = 1
  AccessTtl = 2
  RefreshTtl = 2
  MaxTime = 2
  MaxTokens = 2
  MaxDeletes = 1
SYMMETRY Symmetry
VIEW View
INVARIANTS
  TypeOK
  LiveWhenSent
  PermitsConserved
  DoubleCheckNeverPasses
  SomebodyGoesOn
PROPERTIES
  EveryStepIsNearer

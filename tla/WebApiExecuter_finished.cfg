SPECIFICATION FairSpec
CONSTANTS
  Sessions = {s1}
  Requests = {r1, r2, r3}
  MaxApiConcurrency = 2
  MaxTokenRefreshRetries = 1
  TokenExpiryBuffer = 2
  HttpTimeout = 1
  AccessTtl = 2
  RefreshTtl = 3
  MaxTime = 0
  MaxTokens = 1
  MaxDeletes = 1
PROPERTIES
  AnyFinished

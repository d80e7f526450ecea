SPECIFICATION Spec
CONSTANTS
  Sessions = {s1}
  Requests = {r1, r2}
  MaxApiConcurrency = 2
  MaxTokenRefreshRetries = 2
  TokenExpiryBuffer = 1
  HttpTimeout = 1
  AccessTtl = 2
  RefreshTtl = 3
  MaxTime = 1
  MaxTokens = 1
  MaxDeletes = 2
INVARIANTS
  FailuresBounded

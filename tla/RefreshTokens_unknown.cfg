SPECIFICATION Spec
CONSTANTS
  Clients = {c1, c2}
  Blank = Blank
  Stranger = Stranger
  Tokens = {t1, t2, t3}
  Workers = {w1, w2}
  Unknown = Unknown
  None = None
  RefreshTtl = 1
  MaxTime = 2
  MaxFaults = 0
INVARIANTS
  UnknownRevocationRefused

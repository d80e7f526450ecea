SPECIFICATION FairSpec
CONSTANTS
  Clients = {c1, c2}
  Blank = Blank
  Stranger = Stranger
  Tokens = {t1, t2, t3}
  Workers = {w1}
  Unknown = Unknown
  None = None
  RefreshTtl = 1
  MaxTime = 2
  MaxFaults = 1
INVARIANTS
  LineageSound
  SingleUse
  RevocationSticks
PROPERTIES
  RevocationRecordedOnce
  Answered

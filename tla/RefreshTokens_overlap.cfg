SPECIFICATION Spec
CONSTANTS
  Clients = {c1}
  Blank = Blank
  Stranger = Stranger
  Tokens = {t1, t2, t3}
  Workers = {w1, w2}
  Unknown = Unknown
  None = None
  RefreshTtl = 1
  MaxTime = 1
  MaxFaults = 1
SYMMETRY Symmetry
INVARIANTS
  TypeOK
  AwaitsSound
  LineageSound
  SuccessorsBoundedByOverlap
  SecretUntilAnswered
  AnswersHold
  StrandedOnlyByFaultOrBlank
PROPERTIES
  Lifecycle

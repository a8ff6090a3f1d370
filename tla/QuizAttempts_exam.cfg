CONSTANTS
  m1 = m1
  t1 = t1
  Tabs = {t1}
  Members = {m1}
  Owner <- MCOwner
  Scores <- MCScores
  PassingScore = 2
  MaxAttempts = 2
  RequiredForCert = TRUE
  TimeLimit = TRUE
  Opening = 2
  MaxRows = 3
  MaxRequests = 2
  MaxUpsets = 1
SPECIFICATION FairSpec
INVARIANTS
  TypeOK
  CertifiedAttemptsPassed
  ExcessOnlyByOverlap
  AnswersLostOnlyByTimer
PROPERTIES
  PassedIsServed
CHECK_DEADLOCK FALSE

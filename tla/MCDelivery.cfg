SPECIFICATION FairSpec
CONSTANTS
  a1 = a1
  a2 = a2
  i1 = i1
  i2 = i2
  w1 = w1
  w2 = w2
  Activities = {a1}
  Inboxes = {i1, i2}
  Unparseable = Unparseable
  Audiences <- TwoAudiences
  Workers = {w1, w2}
  AttemptLimits = {0, 2}
  MaxRuns = 2
  MaxMishaps = 2
INVARIANTS
  TypeOK
  NoneForgotten
  NoneTwice
  GivenUpAfterAllAttempts
PROPERTIES
  KeepsPromise
CHECK_DEADLOCK FALSE

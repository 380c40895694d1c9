SPECIFICATION SpecHistory
CONSTANTS
  NumPosts = 5
  Published <- MCPublished
  Millisecond = 2
  NumInitial = 3
  Removable = {2, 3, 4}
  BatchSize = 2
  PageSize = 2
  MaxRuns = 2
  MaxMishaps = 1
INVARIANTS TypeOK BackfillComplete ImportComplete OnceEach NoGhost
PROPERTY WalksEnd
CHECK_DEADLOCK FALSE

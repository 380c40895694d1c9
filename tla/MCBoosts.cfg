SPECIFICATION Spec
CONSTANTS
  Ttl = 2
  Timeout = 1
  Budgets <- MCBudgets
  MaxMishaps = 2
INVARIANTS TypeOK SignedWithServedKey BoostsAgree
PROPERTY CacheFreshEnough
CHECK_DEADLOCK FALSE

SPECIFICATION Spec
CONSTANTS
  r1 = r1
  r2 = r2
  r3 = r3
  a1 = a1
  a2 = a2
  d1 = d1
  Activities = {a1}
  Domains = {d1}
  DomainOf <- OneDomain
  Requests = {r1}
  NoActivity = NoActivity
  MaxDeliveries = 2
  MaxFaults = 1
  MaxCrashes = 0
  MaxChanges = 0
INVARIANTS
  RetryAfterErrIsHandled
CHECK_DEADLOCK FALSE

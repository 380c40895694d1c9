SPECIFICATION Spec
CONSTANTS
  r1 = r1
  r2 = r2
  r3 = r3
  a1 = a1
  a2 = a2
  d1 = d1
  Activities = {a1}
  Domains = {d1}
  DomainOf <- OneDomain
  Requests = {r1, r2}
  NoActivity = NoActivity
  MaxDeliveries = 3
  MaxFaults = 2
  MaxCrashes = 1
  MaxChanges = 2
SYMMETRY RequestSymmetry
INVARIANTS
  TypeOK
  AtMostOnce
  NothingLostWithoutIncident
PROPERTIES
  NoEffectFromBlockedDomain
CHECK_DEADLOCK FALSE

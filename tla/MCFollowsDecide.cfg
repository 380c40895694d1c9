SPECIFICATION Spec
CONSTANTS
  alice = alice
  bob = bob
  carol = carol
  east = east
  west = west
  t1 = t1
  t2 = t2
  t3 = t3
  Users = {alice, bob}
  Servers = {east, west}
  Home <- TwoHomes
  Scripts <- Decisions
  Tasks = {t1, t2}
  NoUser = NoUser
  MaxOperations = 4
  MaxMishaps = 1
SYMMETRY TaskSymmetry
INVARIANTS
  TypeOK
  AcceptAnswersSavedFollow
  AcceptedWasGranted
  SettledAgreement
CHECK_DEADLOCK FALSE

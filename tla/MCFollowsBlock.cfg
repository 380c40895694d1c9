SPECIFICATION Spec
CONSTANTS
  alice = alice
  bob = bob
  carol = carol
  east = east
  west = west
  t1 = t1
  t2 = t2
  t3 = t3
  Users = {alice, bob}
  Servers = {east, west}
  Home <- TwoHomes
  Scripts <- Blocks
  Tasks = {t1, t2, t3}
  NoUser = NoUser
  MaxOperations = 3
  MaxMishaps = 1
SYMMETRY TaskSymmetry
INVARIANTS
  BlockedIsNoFollower
  SettledAgreement
CHECK_DEADLOCK FALSE

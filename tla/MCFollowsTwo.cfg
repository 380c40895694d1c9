SPECIFICATION Spec
CONSTANTS
  alice = alice
  bob = bob
  carol = carol
  east = east
  west = west
  t1 = t1
  t2 = t2
  t3 = t3
  Users = {alice, bob, carol}
  Servers = {east, west}
  Home <- ThreeHomes
  Scripts <- TwoFollows
  Tasks = {t1}
  NoUser = NoUser
  MaxOperations = 3
  MaxMishaps = 0
PROPERTIES
  RemovedActorFollowsNobody
CHECK_DEADLOCK FALSE

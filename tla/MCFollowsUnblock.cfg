SPECIFICATION Spec
CONSTANTS
  alice = alice
  bob = bob
  carol = carol
  east = east
  west = west
  t1 = t1
  t2 = t2
  t3 = t3
  Users = {alice, bob}
  Servers = {east, west}
  Home <- TwoHomes
  Scripts <- Unblocking
  Tasks = {t1}
  NoUser = NoUser
  MaxOperations = 2
  MaxMishaps = 0
PROPERTIES
  UndoBlockSentBeforeUnblocking
CHECK_DEADLOCK FALSE

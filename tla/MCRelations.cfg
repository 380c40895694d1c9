SPECIFICATION SpecRelations
CONSTANTS
  u1 = u1
  u2 = u2
  u3 = u3
  u4 = u4
  v1 = v1
  v2 = v2
  Users = {u1, u2, u3, u4}
  Initial <- MCInitial
  Requests <- MCRequests
  MaxMishaps = 1
  MaxRemovals = 1
  PageSize = 2
  Width = 8
  Locals = {v1, v2}
  Moves = {"m1", "m2"}
  Deliveries <- MCDeliveries
  MaxFailures = 1
INVARIANTS TypeOK TypeOKMove SidesAgree WalkComplete NoneListedTwice  RefollowedOnce MoveTakesEffect
SYMMETRY MCSymmetry
CHECK_DEADLOCK FALSE

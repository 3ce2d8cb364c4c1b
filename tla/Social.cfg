SPECIFICATION Spec
CONSTANTS
  Clients = {c1, c2, c3}
  Visitors = {c1, c2}
  ann = ann
  bob = bob
  eve = eve
  Users = {ann, bob, eve}
  Numbers = {2}
  MaxKept = 2
  Late = {"hometimeline"}
  Populated <- MCPopulated
  ManyLists <- MCManyLists
SYMMETRY Symmetric
CHECK_DEADLOCK FALSE
INVARIANTS TypeOK  FannedOut FollowedBothWays

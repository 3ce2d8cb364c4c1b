SPECIFICATION Spec
CONSTANTS
  Clients = {c1, c2, c3}
  h1 = h1
  h2 = h2
  paris = paris
  ann = ann
  bob = bob
  right = right
  wrong = wrong
  Hotels = {h1, h2}
  Locations = {paris}
  Users = {ann}
  Passwords = {right, wrong}
  Rooms = {1}
  Capacities = {1}
  SeedCapacity = 2
  MaxKept = 2
  Late = {"rate", "search", "user", "profile", "reservation"}
  Catalog <- MCCatalog
  SeedUsers <- MCSeedUsers
  Stays <- MCStays
SYMMETRY Symmetric
CHECK_DEADLOCK FALSE
INVARIANTS TypeOK KeptUnlessRaced ReservationsFit KnownOnceStored

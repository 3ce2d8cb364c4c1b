SPECIFICATION Spec
CONSTANTS
  Clients = {c1, c2, c3}
  ann = ann
  bob = bob
  right = right
  wrong = wrong
  alien = alien
  brazil = brazil
  m0 = m0
  m1 = m1
  star = star
  extra = extra
  Users = {ann, bob}
  Passwords = {right, wrong}
  Titles = {alien, brazil}
  Movies = {m0, m1}
  Casts = {star, extra}
  KnownCasts = {star}
  MaxKept = 2
  Late = {"userreviews"}
  Catalog <- MCCatalog
  SeedUsers <- MCSeedUsers
SYMMETRY Symmetric
CHECK_DEADLOCK FALSE
INVARIANTS TypeOK ReviewsFound IndexesKept

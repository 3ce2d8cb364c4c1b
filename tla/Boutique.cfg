SPECIFICATION Spec
CONSTANTS
  Clients = {c1, c2, c3}
  Visitors = {c1, c2}
  ann = ann
  lamp = lamp
  mug = mug
  sofa = sofa
  Users = {ann}
  ProductIds = {lamp, mug, sofa}
  Currencies = {"USD", "EUR"}
  CatalogSize = 3
  PageSizes = {1}
  NanosMod = 100
  ItemShipping = 899
  Truncated = {3, 6, 7, 9, 12, 14, 15, 18}
  ThisMonth = 24
  Failing = {"shipping"}
  Wanted <- MCWanted
  Payments <- MCPayments
  InitialRates <- MCInitialRates
  NewRates <- MCNewRates
  Catalog <- MCCatalog
  NewProducts <- MCNewProducts
  Stored <- MCStored
SYMMETRY Symmetric
CHECK_DEADLOCK FALSE
INVARIANTS TypeOK   CatalogKept

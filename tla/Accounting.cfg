SPECIFICATION AccountingFairSpec
CONSTANTS
  w1 = w1
  w2 = w2
  Worker = {w1, w2}
  Func = {"home", "cart"}
  prerun = TRUE
  processingTime = 2
  Quantum = {1, 3}
  MaxChecks = 3
INVARIANTS
  AccountingTypeOK
  CountsConserved
  SpinConserved
PROPERTIES
  CountsPrinted

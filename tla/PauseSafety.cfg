SPECIFICATION Spec
CONSTANTS
  front = front
  cart = cart
  mail = mail
  w1 = w1
  w2 = w2
  NoThread = NoThread
  Service = {front, cart, mail}
  Target = front
  Worker = {w1}
  Threshold = 1
  delayNanos <- UnitDelays
  Calls <- ThreeCalls
  MaxReq <- OnePhase
INVARIANTS
  TypeOK
  PhaseLed
  
  BatchPaidOnce
  DelayLedger
  RegisteredBothWays
  ToldBeforePause

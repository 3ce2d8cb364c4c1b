SPECIFICATION Spec
CONSTANTS
  front = front
  cart = cart
  mail = mail
  w1 = w1
  w2 = w2
  NoThread = NoThread
  Service = {front, cart}
  Target = cart
  Worker = {w1, w2}
  Threshold = 1
  delayNanos <- UnitDelays
  Calls <- TwoCalls
  MaxReq <- TwoPhases
INVARIANTS
  BatchAsDocumented

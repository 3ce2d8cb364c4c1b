SPECIFICATION Spec
CONSTANTS
  s1 = s1
  s2 = s2
  s3 = s3
  Clients = {c1, c2}
  Services = {s1, s2, s3}
  Failing = {s2, s3}
  Configs <- MCConfigs
CHECK_DEADLOCK FALSE
INVARIANTS OneConnection 
PROPERTIES RequestsEnd

CONSTANTS
  h = h
  a = a
  b = b
  N = 2
  IPs = {h, a, b}
  Host = h
  NoIP = NoIP
SPECIFICATION FairSpec
CHECK_DEADLOCK FALSE
INVARIANTS ReadyIsVerified NothingSurvives
 

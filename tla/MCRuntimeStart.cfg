CONSTANTS
  a = a
  b = b
  c = c
  IPs = {a, b, c}
  Pin = a
  OtherPins = {b}
  NoIP = NoIP
  Ops = {o1}
  Methods = {"route.start"}
SPECIFICATION Spec
INVARIANT DownStatusClosesGate

CONSTANTS
  Conns = {c1}
  Routes = {r1, r2}
  NoRoute = NoRoute
  Callers = {m}
  Self = m
  IPs = {a, b}
  Pin = a
  OtherPins = {b}
  NoIP = NoIP
SPECIFICATION SupervisedSpec
INVARIANT DownKeepsGateClosed
PROPERTY RuntimeSpec

CONSTANTS
  a = a
  b = b
  IPs = {a, b}
  Pin = a
  OtherPins = {b}
  NoIP = NoIP
  Ops = {o1}
  Methods = {"route.stop", "route.start", "diagnostics.run"}
SPECIFICATION FairSpec
PROPERTIES RecoveryReopens UnfitRouteIsClosed SettledGateMatchesPin

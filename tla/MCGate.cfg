CONSTANTS
  Conns = {c1}
  Routes = {r1, r2}
  NoRoute = NoRoute
  Callers = {k1, k2}
SPECIFICATION FairSpec
CHECK_DEADLOCK FALSE
INVARIANTS ClosedGateCarriesNothing ShutdownLeavesNothing
           LiveTunnelsUseTheRoute
PROPERTIES ContractSpec ShutdownReturns

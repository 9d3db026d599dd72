CONSTANTS
  Procs = {p1, p2}
  Fresh = {p2}
  Clients = {c1}
  Nobody = Nobody
SPECIFICATION FairSpec
INVARIANTS SequentialRunIsReachable StoppedMeansDown
PROPERTY AcknowledgedStopHappens
CHECK_DEADLOCK FALSE

CONSTANTS
  Kinds = {"decodo", "local", "mullvad", "install"}
  Procs = {p1, p2}
  N = 2
  MaxSession = 4
  Daemons = {1, 2, 3, 4}
  Exits = {e1, e2}
  NoExit = NoExit
  NoDaemon = 0
  NoSlot = NoSlot
  Accounts = {a1, a2}
  Devices = {1, 2, 3}
  MaxDevices = 2
  r1 = r1
  r2 = r2
  r3 = r3
  Relays = {r1, r2, r3}
  Country <- MCCountry
  NoAccount = NoAccount
  NoDevice = 0
  NoRelay = NoRelay
  Starts = {x1, x2, x3}
  Entries = 2
  Binary = 1
  NoFile = NoFile
SPECIFICATION Spec
INVARIANTS PathsAreSeparate NoOrphans DevicesAreAccountedFor OnlyWholeBuildsRun
PROPERTIES SessionIsKept PinSurvivesRestarts ExistingDevicesAreKept
SYMMETRY Symmetry
CHECK_DEADLOCK FALSE

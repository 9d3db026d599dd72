CONSTANTS
  Licenses = {1, 2}
  Installs = {i1, i2}
  Limit <- MCLimit
  Dedicated = {2}
  Expiring = {1}
  NoLicense = NoLicense
  NoInstall = NoInstall
  MaxToken = 3
  Clients = {c1, c2}
  Keychain = {c1, c2}
  MaxCalls = 3
  MaxCmds = 3
  MaxWork = 5
SPECIFICATION Spec
INVARIANTS WithinLimit EndingsStick SavedTokenIsCurrent SlotsAreAccountedFor
SYMMETRY Symmetry
CHECK_DEADLOCK FALSE

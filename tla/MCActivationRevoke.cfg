CONSTANTS
  Licenses = {1}
  Installs = {i1, i2}
  Limit <- MCLimit
  Dedicated = {}
  Expiring = {1}
  NoLicense = NoLicense
  NoInstall = NoInstall
  MaxToken = 3
  Clients = {c1, c2}
  Keychain = {c1, c2}
  MaxCalls = 4
  MaxCmds = 2
  MaxWork = 6
SPECIFICATION Spec
INVARIANT RevokedIsRefused
CHECK_DEADLOCK FALSE

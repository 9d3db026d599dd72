CONSTANTS
  Sides = {"navigation", "diagnostics"}
  MaxDocs = 3
  MaxAttempts = 2
  Calls = {c1, c2}
  M = 2
  MaxEvents = 2
  Busy = {1}
  MaxDials = 1
  NoCall = NoCall
SPECIFICATION Spec
SYMMETRY Symmetry
INVARIANTS ResultIsItsOwn DiagnosticsCleansUp ResumeIsSeen
CHECK_DEADLOCK FALSE

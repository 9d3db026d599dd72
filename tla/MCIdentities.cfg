CONSTANTS
  Runs = {r1, r2, r3}
  MaxSets = 3
  N = 2
  Envs = {e1, e2}
  NoRun = NoRun
  NoEnv = NoEnv
  Partial = Partial
SPECIFICATION Spec
INVARIANTS CurrentExists SequentialExclusion StaleLockReclaimed
PROPERTY IdentitiesArePermanent
SYMMETRY Symmetry
CHECK_DEADLOCK FALSE

SPECIFICATION Spec
CONSTANTS
  w1 = w1
  w2 = w2
  c1 = c1
  None = None
  Workers = {w1, w2}
  Calls = {c1}
  CallHost <- ByFirst
  EnvInterval = 4
  EnvMaxCycles = 2
  EnvMode = "Daily"
  Window = 4
  Grace = 1
  Second = 2
  Asked <- AnyCall
  MaxTime = 8
  MaxFaults = 1
CHECK_DEADLOCK FALSE
INVARIANTS
  CyclesSpaced
  ModeKept
  TypeOK
  QuotaKeptUnlessLost

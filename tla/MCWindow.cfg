SPECIFICATION Spec
CONSTANTS
  None = None
  i1 = i1
  i2 = i2
  Invoices = {i1, i2}
  Slots = {2, 5}
  EnvLookback = 3
  Grace = 1
  MaxTime = 6
SYMMETRY Alike
CHECK_DEADLOCK FALSE
INVARIANTS
  PaidInTimeIsRecovered

SPECIFICATION DashboardSpec
CONSTANTS
  i1 = i1
  i2 = i2
  i3 = i3
  w1 = w1
  w2 = w2
  r1 = r1
  r2 = r2
  j1 = j1
  j2 = j2
  b1 = b1
  None = None
  d1 = d1
  Invoices = {i1, i2}
  External = {}
  Batches = {b1}
  LotOf <- OneBatch
  Lapsing = {}
  Issued <- Hundred
  Gross <- PaidLate
  Fee <- Fees
  Requests = {}
  Reconcilers = {j1}
  Workers = {w1, w2}
  Host <- TwoWorkers
  Subscribed <- CreditedOnly
  BankErrors <- JustDown
  Budget <- CrashOnly
  MaxKinds = 1
  Readers = {d1}
SYMMETRY Alike
CHECK_DEADLOCK FALSE
INVARIANTS
  PayoutsOnTheBooks
  LiquidatedIsCovered

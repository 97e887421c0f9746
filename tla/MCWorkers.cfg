SPECIFICATION Spec
CONSTANTS
  i1 = i1
  i2 = i2
  i3 = i3
  w1 = w1
  w2 = w2
  r1 = r1
  r2 = r2
  j1 = j1
  j2 = j2
  b1 = b1
  None = None
  Invoices = {i1}
  External = {}
  Batches = {b1}
  LotOf <- OneBatch
  Lapsing = {}
  Issued <- Hundred
  Gross <- Worth
  Fee <- Fees
  Requests = {r1, r2}
  Reconcilers = {}
  Workers = {w1, w2}
  Host <- TwoWorkers
  Subscribed <- CreditedAndTransfers
  BankErrors <- JustDown
  Budget <- EveryFault
  MaxKinds = 3
CHECK_DEADLOCK FALSE
INVARIANTS
  TypeOK
  PayoutHoldsLock
  OneRowPerCause
  EventWithRow
  RetriesFindNothing
  PayoutsPerInvoice
  AckedIsStored
  RowsAreReal
  PayoutJustified
PROPERTIES
  SkippedForGood
  FailedDeliveryIsClean
  LedgerImplemented

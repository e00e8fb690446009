SPECIFICATION Spec
CONSTANTS
  Session = {"s1", "s2"}
  Key = {"k1", "k2", "k3"}
  Receipts <- MCReceipts
  MaxBytes = 3
  WordMax = 2600
  Sizes <- MCSizes
  Ticks = {0, 2, 3}
  Rates <- MCRates
  MaxVisible = 2
CHECK_DEADLOCK FALSE
INVARIANTS BooksBalance MirrorExact HeldUnderConsent SweepExact
PROPERTIES ImplementsAgeStore

SPECIFICATION Spec
CONSTANTS
  Variants = {v1}
  Receipts = {p1, p2, p3}
  None = None
  Requests = {r1}
  Adjustments <- MCAdjustments
  MaxUnits = 2
  MaxServed = 8
SYMMETRY Alike
INVARIANTS TypeOK BooksMatch ReceiptTakenOnce ShortfallOrdered ClosedBySupplement
CHECK_DEADLOCK FALSE

SPECIFICATION Spec
CONSTANTS
  Customers = {c1}
  v1 = v1
  v2 = v2
  Variants = {v1}
  Orders = {o1, o2}
  Requests = {r1, r2}
  NoOrder = NoOrder
  InitLots <- MCLots
  FlashLimit <- MCFlashLimit
  UsageLimit = 1
  GiftOffers <- MCSameGift
  MaxQty = 1
  MaxServed = 6
SYMMETRY Alike
INVARIANTS ShippedWasPacked CancelledWasRestored HeldRowsWereReal
CHECK_DEADLOCK FALSE

SPECIFICATION Spec
CONSTANTS
  Customers = {c1}
  v1 = v1
  v2 = v2
  Variants = {v1}
  Orders = {o1, o2}
  Requests = {r1}
  NoOrder = NoOrder
  InitLots <- MCLots
  FlashLimit <- MCFlashLimit
  UsageLimit = 1
  GiftOffers <- NoGifts
  MaxQty = 2
  MaxServed = 9
SYMMETRY OrdersAlike
INVARIANTS TypeOK ShelfMatchesBooks PicksAreRecorded NeverOversold
PROPERTIES StatusFollowsTable PromiseKept
CHECK_DEADLOCK FALSE

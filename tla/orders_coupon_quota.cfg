SPECIFICATION Spec
CONSTANTS
  Customers = {c1}
  v1 = v1
  v2 = v2
  Variants = {v1}
  Orders = {o1}
  Requests = {r1}
  NoOrder = NoOrder
  InitLots <- MCLots
  FlashLimit <- MCFlashLimit
  UsageLimit = 1
  GiftOffers <- NoGifts
  MaxQty = 1
  MaxServed = 3
INVARIANTS QuotaForConfirmedOnly
CHECK_DEADLOCK FALSE

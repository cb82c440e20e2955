SPECIFICATION FairSpec
CONSTANTS
  Customers = {c1}
  v1 = v1
  v2 = v2
  Variants = {v1}
  Orders = {o1}
  Requests = {r1, r2}
  NoOrder = NoOrder
  InitLots <- MCLots
  FlashLimit <- MCFlashLimit
  UsageLimit = 1
  GiftOffers <- NoGifts
  MaxQty = 1
  MaxServed = 4
PROPERTIES EveryRequestEnds
CHECK_DEADLOCK FALSE

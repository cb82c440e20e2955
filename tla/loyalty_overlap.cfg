SPECIFICATION AccountSpec
CONSTANTS
  c1 = c1
  Customers = {c1, c2}
  Rewards = {gift}
  Orders = {o1}
  None = None
  Owner <- MCOwner
  Requests = {r1, r2}
  Price <- MCPrice
  Limit <- MCLimit
  Amounts <- MCAmounts
  MaxServed = 5
  Editors = {}
  MaxEdits = 0
SYMMETRY Alike
INVARIANTS TypeOK LedgerChains BalanceIsLedgerSum RewardsPaidFor
CHECK_DEADLOCK FALSE

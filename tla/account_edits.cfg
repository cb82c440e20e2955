SPECIFICATION AccountSpec
CONSTANTS
  c1 = c1
  Customers = {c1}
  Rewards = {gift}
  Orders = {o1}
  None = None
  Owner <- MCOwner
  Requests = {r1, r2}
  Price <- MCPrice
  Limit <- MCLimit
  Amounts <- MCAmounts
  MaxServed = 5
  Editors = {e1}
  MaxEdits = 2
SYMMETRY Alike
INVARIANTS NeverInDebt RowsAddUp
CHECK_DEADLOCK FALSE

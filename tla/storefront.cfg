SPECIFICATION Spec
INVARIANTS StorefrontTypeOK CartTellsTheCharge OffersTieUp SessionsEnd
  ProfilesTieUp BuildsTieUp ReturnsTieUp PaidMeansCaptured ReviewsTieUp
  TicketsTieUp
PROPERTIES VerdictsLast StorefrontSteps
CHECK_DEADLOCK FALSE

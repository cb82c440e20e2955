SPECIFICATION Spec
INVARIANTS BackOfficeTypeOK AccessTiesUp CatalogueTiesUp ContentTiesUp
  ReportsTieUp
PROPERTIES BackOfficeSteps
CHECK_DEADLOCK FALSE

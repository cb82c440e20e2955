SPECIFICATION Spec
INVARIANTS EveryHandlerIsReached
CHECK_DEADLOCK FALSE

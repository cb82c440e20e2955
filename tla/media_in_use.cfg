SPECIFICATION Spec
INVARIANTS AssetInUseIsKept
CHECK_DEADLOCK FALSE

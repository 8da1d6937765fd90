SPECIFICATION Spec
CONSTANTS
  a = a
  b = b
  Device <- TwoDevices
  LegacyRows <- MCLegacyRows
  NoEdit = NoEdit
  NoOp = NoOp
  RING_SIZE = 2
  VETO_WINDOW = 1
  MICROS = 10
  StartTime = 1
  MaxTime = 2
  MaxEdits = 2
  MaxCrashes = 1
INVARIANTS TypeOK OwnTextIsKept PriorMatchesLastEdit DocIsUnionOfAppliedEdits
PROPERTY RollbackIsExact
CHECK_DEADLOCK FALSE

SPECIFICATION Spec
CONSTANTS
  a = a
  b = b
  Device <- TwoDevices
  LegacyRows <- OneLegacyRow
  NoEdit = NoEdit
  NoOp = NoOp
  RING_SIZE = 2
  VETO_WINDOW = 1
  MICROS = 10
  StartTime = 1
  MaxTime = 4
  MaxEdits = 1
  MaxCrashes = 0
INVARIANT VetoWithinWindow
CHECK_DEADLOCK FALSE

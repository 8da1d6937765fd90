SPECIFICATION Spec
CONSTANTS
  a = a
  b = b
  Device <- TwoDevices
  Unseen = Unseen
  NoButton = NoButton
  TTL = 1
  MICROS = 10
  MaxDepth = 2
  MaxPages = 3
  MaxTime = 2
  MaxFaults = 1
INVARIANTS TypeOK PresenceIsLatest 
PROPERTY LeaversDisappear
CHECK_DEADLOCK FALSE

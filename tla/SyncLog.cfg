SPECIFICATION Spec
CONSTANTS
  a = a
  b = b
  c = c
  Device <- ThreeDevices
  Author <- OneAuthor
  Server <- OneRelay
  NoOp = NoOp
  INBOUND_CAP = 1
  EVENTS_CAP = 1
  MaxOps = 2
  MaxFaults = 1
INVARIANTS TypeOK 
  
CHECK_DEADLOCK FALSE

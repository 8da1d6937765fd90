SPECIFICATION Spec
CONSTANTS
  a = a
  b = b
  Device <- Devices
  Owner = a
  Guest <- Guests
  Nothing = Nothing
  MaxSeq <- LogBounds
  MaxFaults = 1
INVARIANTS
  TypeOK
  RevokedReadsNothing
  
CHECK_DEADLOCK FALSE

  

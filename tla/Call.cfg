SPECIFICATION CallSpec
CONSTANTS
  a = a
  b = b
  Caller <- Devices
  WithMicrophone <- Microphones
  Nobody = Nobody
  MaxPresses = 4
  MaxDrops = 1
INVARIANTS CallTypeOK QuietCallsAgree
PROPERTIES NewCallIsHeard
CHECK_DEADLOCK FALSE

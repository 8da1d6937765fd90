SPECIFICATION Spec
CONSTANTS
  alice = alice
  bob = bob
  carol = carol
  None = None
  Device <- Pair
  Proposer <- Pair
  Faults = {"drop", "fail", "crash", "remove"}
  MaxFaults = 2
  MaxChannels = 2
CHECK_DEADLOCK FALSE
SYMMETRY Swap
INVARIANTS TypeOK  

SPECIFICATION Spec
CONSTANTS
  k1 = k1
  k2 = k2
  Key <- TwoKeys
  Rows <- TwoRows
  Baseline <- OneText
  None = None
  MaxOpens = 2
  MaxEdits = 2
  MaxClicks = 2
INVARIANTS ReadingsDoNotMix DraftsAreDisclosed ScreenIsCurrent
CHECK_DEADLOCK FALSE

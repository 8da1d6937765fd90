SPECIFICATION Spec
CONSTANTS
  own = own
  k1 = k1
  k2 = k2
  Key <- TwoKeys
  OwnKeys <- OneOwn
  GRACE = 2
  EXPIRY_CAP = 1
  NoTouch = NoTouch
  CanFail = TRUE
  MaxViews = 3
  MaxEdits = 1
PROPERTY TouchedIsClosed
INVARIANTS TypeOK TouchedStaysOpen NoForgottenTouch
CHECK_DEADLOCK FALSE

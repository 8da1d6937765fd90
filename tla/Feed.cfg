SPECIFICATION Spec
CONSTANTS
  me = me
  p = p
  q = q
  Author <- ThreeAuthors
  Text <- Texts
  Me = me
  Ops <- Arrivals
  Handed <- HandedOver
  NoBody = NoBody
  NoStamp = NoStamp
  Transits = {1}
  InitialRows <- OwnReading
  NoParent = NoParent
  NoName = NoName
  MaxEvents = 4
  MAILBOX = 2
INVARIANTS TypeOK  MaterialisedFromApplied RevokedIsGone  CardsMatchBacklog
CHECK_DEADLOCK FALSE

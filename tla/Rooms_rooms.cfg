SPECIFICATION FairSpec
CONSTANTS
  b1 = b1  b2 = b2  m1 = m1  r1 = r1
  Bots = {b1, b2}
  Messages = {m1}
  Resumes = {r1}
  None = None
  MaxTurns = 3
  MaxCards = 2
INVARIANT OneSpeaker
INVARIANT SpeaksOnce
INVARIANT CardsHoldTheClock
PROPERTY RoomRests
CHECK_DEADLOCK FALSE

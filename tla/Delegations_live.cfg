SPECIFICATION FairSpec
CONSTANTS
  o1 = o1  o2 = o2  o3 = o3  ta = ta  ta2 = ta2  tb = tb  tc = tc
  h1 = h1  h2 = h2  h3 = h3
  Bots = {o1, o2}
  Threads = {ta, tb}
  Handoffs = {h1, h2}
  Owner <- MCOwner
  Home <- MCHome
  Source <- OneRun
  To <- ToPeers
  None = None
  Room = Room
  MaxQueued = 2
  MaxBusy = 2
  Gates = TRUE
  Rooms = FALSE
  SilentEnds = FALSE
  MaxCrashes = 0
INVARIANT RequeuedIsRetried
INVARIANT OnlyRunsFail
PROPERTY HandoffEnds
CHECK_DEADLOCK FALSE

SPECIFICATION VmEndingSpec
CONSTANTS
  o1 = o1  o2 = o2  t1 = t1  t2 = t2  u = u
  Bots = {o1, o2}
  Threads = {t1, t2, u}
  Turns = {n1, n2}
  Owner <- MCOwner
  None = None
  Interrupts = TRUE
  Restores = FALSE
  Wedges = FALSE
  StopsFast = TRUE
  MaxReloads = 0
  MaxLong = 1
  MaxOps = 2
  MaxFails = 1
  MaxBlind = 1
  MaxRestarts = 1
INVARIANT OneDriver
INVARIANT DesktopStays
INVARIANT LeaseHasUser
PROPERTY Reclaimed
CHECK_DEADLOCK FALSE

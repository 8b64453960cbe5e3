SPECIFICATION FairSpec
CONSTANTS
  o1 = o1  o2 = o2  t1 = t1  t2 = t2  u = u
  Bots = {o1}
  Threads = {t1, t2}
  Turns = {n1, n2, n3}
  Owner <- MCOwner
  None = None
  Interrupts = TRUE
  Restores = FALSE
  Wedges = TRUE
  StopsFast = FALSE
  MaxReloads = 1
PROPERTY WedgedIsFreed
CHECK_DEADLOCK FALSE

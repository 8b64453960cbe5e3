SPECIFICATION Spec
CONSTANTS
  o1 = o1  o2 = o2  t1 = t1  t2 = t2  u = u
  Bots = {o1, o2}
  Threads = {t1, t2, u}
  Turns = {n1, n2, n3}
  Owner <- MCOwner
  None = None
  Interrupts = TRUE
  Restores = TRUE
  Wedges = FALSE
  StopsFast = TRUE
  MaxReloads = 0
INVARIANT OneProcess
INVARIANT LiveIsBusy
INVARIANT RestoreAlone
CHECK_DEADLOCK FALSE

SPECIFICATION FairSpec
CONSTANTS
  b1 = b1  b2 = b2  t1 = t1  t2 = t2  s1 = s1  s2 = s2  s3 = s3
  Bots = {b1, b2}
  Threads = {t1, t2}
  Sends = {s1, s2, s3}
  Owner <- TwoBotOwner
  Target <- SendTargets
  None = None
  Gate = Gate
  PeerGates = FALSE
  DiskMayFail = FALSE
  MaxCrashes = 1
  MaxRetakes = 1
INVARIANT IdleIsDrained
PROPERTY QueuedLands

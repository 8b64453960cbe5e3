SPECIFICATION Spec
CONSTANTS
  b1 = b1  b2 = b2  t1 = t1  t2 = t2  s1 = s1  s2 = s2  s3 = s3
  Bots = {b1}
  Threads = {t1, t2}
  Sends = {s1, s2, s3}
  Owner <- OneBotOwner
  Target <- SendTargets
  None = None
  Gate = Gate
  PeerGates = TRUE
  DiskMayFail = TRUE
  MaxCrashes = 1
  MaxRetakes = 1
INVARIANT NothingLost
INVARIANT OnceInTranscript
INVARIANT CancelledStaysGone
INVARIANT FiredOnce
INVARIANT LandsInOrder

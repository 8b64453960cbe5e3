SPECIFICATION FairSpec
CONSTANTS
  Threads = {t1, t2}
  MayFail <- LaterWrites
  MaxFails = 2
  LateTurns = FALSE
INVARIANT OwnerOrPlan
INVARIANT OwnersKeepTheirs
PROPERTY DeletedIsErased

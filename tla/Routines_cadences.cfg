CONSTANTS
  q1 = q1
  d1 = d1
  Cards = {q1}
  Deliveries = {d1}
  None = None
  CardActs = {"run_now"}
  MaxDue = 1
  MaxRuns = 2
  MaxRevs = 1
  MaxPending = 1
  MaxFaults = 1
  MaxFails = 1
SPECIFICATION FairSpec
INVARIANT RunsOnce
INVARIANT AnswersHold
INVARIANT CardsAreHonest
INVARIANT RunningHasTurn
PROPERTY ReceiptsAreFinal
CHECK_DEADLOCK FALSE

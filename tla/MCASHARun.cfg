CONSTANTS
  Initial = 4
  Eta = 2
  Rungs = 3
  Score <- MCScore
  Workers = 2
  MaxRetries = 1
  Doubtful = {3}
  MaxFailures = 2
  MaxRuns = 2
SPECIFICATION Spec
CHECK_DEADLOCK FALSE
INVARIANT PromotionsKeepPace
INVARIANT OneRunDecides
INVARIANT PromotionsReplay
INVARIANT EveryTrialIsSettled
INVARIANT LeaderIsPromoted
PROPERTY RunEnds

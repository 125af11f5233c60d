CONSTANTS
  k1 = k1  k2 = k2  k3 = k3  w1 = w1  w2 = w2  s1 = s1  s2 = s2  cost = cost  loss = loss
  Candidates = {k1, k2, k3}
  Metrics = {cost, loss}
  Objectives <- MCObjectives
  MetricOrder <- MCMetricOrder
  Id <- MCId
  Sessions = {w1, w2}
  Seeds = {s1, s2}
  Pools <- MCPools
  Verdicts <- MCVerdicts
  MaxRuns = 3
SPECIFICATION DiscoverySpec
SYMMETRY SessionSymmetry
CHECK_DEADLOCK FALSE
INVARIANT OnlyTheWinnerIsFrozen

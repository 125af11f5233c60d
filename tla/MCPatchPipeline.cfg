CONSTANTS
  g1 = g1
  g2 = g2
  g3 = g3
  tokens = tokens
  w1 = w1
  w2 = w2
  Experiments = {g1, g2, g3}
  Dims = {tokens}
  Requested <- MCRequested
  Limit <- MCLimit
  Usages <- MCUsages
  Workers = {w1, w2}
  Runners = {w1, w2}
  RootOf <- MCRootOf
  MaxCalls = 3
  MaxSessions = 2
  MaxTransitions = 1
SPECIFICATION PipelineSpec
SYMMETRY MCSymmetry
CHECK_DEADLOCK FALSE
INVARIANT OneRepairPerRoot
INVARIANT RecordsAreSettled
INVARIANT RunsCleanUp
INVARIANT AdmittedRanAwake

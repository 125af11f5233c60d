CONSTANTS
  Stagnation = 1
  MinReplicates = 2
  Proximity = 0
  Floor <- MCFloor
  Downstream <- MCDownstream
  Budget = 10
  MaxSteps = 4
  LocalLimit = 2
  StructuralLimit = 2
  Rungs = 2
  Eta = 2
  Initial = 4
  MinDeltas = 0
  Attempts = 2
  Resample <- MCResample
  Seeds = 3
  FirstEvidence <- MCFirstEvidence
  Values = {1, 3}
  Costs = {2}
  Deltas = {1}
  EvaluationCost = 1
  ParentMode <- MCParentMode
  MaxStarts = 2
SPECIFICATION Spec
CHECK_DEADLOCK FALSE
INVARIANT OnlyLastOverspends
INVARIANT LostSettlementStopsEscapes
INVARIANT ActionsChargeTheirGenerations
INVARIANT HistoryIsReadable
PROPERTY OnlyReevaluationRegresses

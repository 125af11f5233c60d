CONSTANTS
  e1 = e1  e2 = e2  w1 = w1  w2 = w2  cpu = cpu
  Experiments = {e1, e2}
  Workers = {w1, w2}
  Dims = {cpu}
  Outcomes = {"VALID"}
  MaxAttempts = 4
  Requested <- MCRequested
  Limit <- MCLimit
  Usages <- MCUsages
SPECIFICATION ExecutionSpec
SYMMETRY WorkerSymmetry
CHECK_DEADLOCK FALSE
INVARIANT ExecutionTypeOK
INVARIANT ReceiptBacksEvidence
INVARIANT ScientificEvidenceIsSettled
INVARIANT BudgetFailureIsReplayable
INVARIANT ScientificSpendFits
INVARIANT UndisturbedAttemptsComplete
PROPERTY PublishedIsFinal

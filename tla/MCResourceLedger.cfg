CONSTANTS
  e1 = e1  e2 = e2  e3 = e3
  cpu = cpu  gpu = gpu
  Experiments = {e1, e2, e3}
  Dims = {cpu, gpu}
  Requested <- MCRequested
  Limit <- MCLimit
  Usages <- MCUsages
SPECIFICATION Spec
INVARIANT OverspendIsFlagged
PROPERTY SettlementIsFinal
PROPERTY ImplementsAccount

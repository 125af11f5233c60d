CONSTANTS
  direct = direct  lineage = lineage  router = router
  ledger = ledger  registry = registry  controller = controller
  Plugins = {direct, lineage, router}
  Profile <- MCProfile
  Services = {ledger, registry, controller}
  Authority = {ledger}
  RootServices = {ledger}
  Requires <- MCRequires
  Provides <- MCProvides
  Needed = {registry, controller}
  MaxCloses = 2
SPECIFICATION HarnessSpec
CHECK_DEADLOCK FALSE
INVARIANT FailedBootLeavesNothing

CONSTANTS
  MaxTasks = 4
  MaxPrio = 2
  CfgMaxTasks = 3
  Attrs <- OneTick
  NullAttr = TRUE
  Policies = {"HRT_SCHED_PRIORITY"}
  Slices = {0}
  CfgPolicy = "HRT_SCHED_PRIORITY_RR"
  CfgSlice = 1
  SleepTicks = {}
  TickMod = 1
  TickSrc = "EXTERNAL"
  Services = {"create", "yield", "give", "delete"}
SPECIFICATION FairSpec
INVARIANTS TypeOK OnReadyQueue RunsOnlyReady QuantumFresh
PROPERTIES TopPrioRuns HighestFirst ImplementsSched

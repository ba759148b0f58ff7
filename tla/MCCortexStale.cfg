SPECIFICATION Spec
CONSTANTS
  MaxTasks = 3
  MaxPrio = 2
  CfgMaxTasks = 2
  Attrs = {}
  NullAttr = FALSE
  Policies = {}
  Slices = {}
  CfgPolicy = "HRT_SCHED_PRIORITY_RR"
  CfgSlice = 5
  SleepTicks = {}
  TickMod = 16
  Apps <- Measuring
  TickHz = 7
  Target = 2
  TurnTicks = 1
CHECK_DEADLOCK FALSE
INVARIANT GivenWhenResumed

CONSTANTS
  MaxTasks = 3
  MaxPrio = 2
  CfgMaxTasks = 2
  Attrs <- TwoClasses
  NullAttr = FALSE
  Policies = {}
  Slices = {}
  CfgPolicy = "HRT_SCHED_PRIORITY_RR"
  CfgSlice = 2
  SleepTicks = {1, 3}
  TickMod = 8
  TickSrc = "EXTERNAL"
  Services = {"yield", "give", "sleep"}
SPECIFICATION Spec
INVARIANT NoLateWake
PROPERTY NoEarlyWake

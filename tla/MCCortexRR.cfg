SPECIFICATION FairSpec
CONSTANTS
  MaxTasks = 3
  MaxPrio = 2
  CfgMaxTasks = 2
  Attrs = {}
  NullAttr = FALSE
  Policies = {}
  Slices = {}
  CfgPolicy = "HRT_SCHED_PRIORITY_RR"
  CfgSlice = 5
  SleepTicks = {}
  TickMod = 16
  Apps <- Computing
  TickHz = 7
  Target = 2
  TurnTicks = 1
CHECK_DEADLOCK FALSE
PROPERTY HandsOff

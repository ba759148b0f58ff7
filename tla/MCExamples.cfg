SPECIFICATION ExSpec
CONSTANTS
  MaxTasks = 3
  MaxPrio = 2
  CfgMaxTasks = 2
  Attrs <- AppAttrs
  NullAttr = FALSE
  Policies = {}
  Slices = {}
  CfgPolicy = "HRT_SCHED_PRIORITY_RR"
  CfgSlice = 5
  SleepTicks <- AppSleeps
  TickMod = 16
  TickSrc = "SYSTICK"
  Services = {"give", "sleep"}
  Apps <- AllApps
  TickHz = 7
  QueueCap = 2
  WindowTicks = 1
INVARIANTS NoLostSwitch OneAtATime
PROPERTIES KeepsGoing UsesSemaphore UsesMutex UsesQueue

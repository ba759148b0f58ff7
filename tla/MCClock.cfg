SPECIFICATION ClockSpec
CONSTANTS
  Timers <- BothPorts
  Sleeps = {0, 1, 4, 11, 30}
  ReloadMax = 30
  Word = 32
INVARIANTS NowIsTime
PROPERTY SleepWindow

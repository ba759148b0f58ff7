SPECIFICATION ClockSpec
CONSTANTS
  Timers <- WholeTicks
  Sleeps = {4, 11}
  ReloadMax = 30
  Word = 32
PROPERTY SleepsAtLeast

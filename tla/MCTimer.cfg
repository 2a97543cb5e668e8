SPECIFICATION TimerSpec
CONSTANTS
  Kilo = 2
  MaxClock = 19
INVARIANTS
  Accurate

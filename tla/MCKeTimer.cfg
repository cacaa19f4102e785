CONSTANTS
  x1 = x1  x2 = x2
  None = None
  Timers = {x1, x2}
  WithDpc = {x1, x2}
  Targeted = {x2}
  TableSize = 2
  MaxIncrement = 3
  Increments = {2}
  Settings <- SomeSettings
  Deltas = {2}
  BatchSize = 1
  LowSize = 4
  Multiprocessor = TRUE
  MaxTime = 6
SPECIFICATION Spec
INVARIANTS TypeOK TimersExact DpcNotLost
PROPERTY MissedOnlyByReset

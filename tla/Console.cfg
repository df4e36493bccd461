SPECIFICATION Spec
CONSTANTS
  Phases = 2
  HivePhase = 1
  PoolPhase = 2
  Workers <- TwoWorkers
  PipeSize = 1
  MaxPrints = 2
  MaxSteps = 2
CHECK_DEADLOCK FALSE
INVARIANTS TerminalHolds OutputHolds
PROPERTIES RunEnds

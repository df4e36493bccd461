SPECIFICATION Spec
CONSTANTS
  Paths <- FourPaths
  Logs <- ThreeLogs
  Damaged = Damaged
  CPUs = 3
  ChunksPerBatch = 2
  MayVanish <- AnyOpen
CHECK_DEADLOCK FALSE
INVARIANTS CountsBalance UnreadIsUnopened
PROPERTIES SequentialSpec

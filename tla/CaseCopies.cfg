SPECIFICATION Spec
CONSTANTS
  Discovered <- MCDiscovered
  Kind <- MCKind
  Holds <- MCHolds
  LogsOf <- MCLogsOf
  Missing <- MCMissing
  Unlooked <- MCUnlooked
  Rules <- MCRules
  MaxOdd = 0
INVARIANT CopiesOfTheirViews
CHECK_DEADLOCK FALSE

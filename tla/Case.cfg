SPECIFICATION Spec
CONSTANTS
  Discovered <- MCDiscovered
  Kind <- MCKind
  Holds <- MCHolds
  LogsOf <- MCLogsOf
  Missing <- MCMissing
  Unlooked <- MCUnlooked
  Rules <- MCRules
  MaxOdd = 2
INVARIANTS RowsGrounded CitationsMatch DerivedFromTheCase ManifestIsTheCase LossReachesTheCase HostSettingsHold
CHECK_DEADLOCK FALSE

SPECIFICATION Spec
CONSTANTS
  Identity <- MCIdentity
  Hosts <- MCHosts
  DeviceOf <- MCDeviceOf
  Trace <- MCTrace
  NoValue = NoValue
  Placeholder = Placeholder
  Short = {"1234"}
  Truncates <- MCTruncates
  Before <- MCBefore
INVARIANTS GroupingHolds WrongLinksExplained WholeEvidenceIsDevices

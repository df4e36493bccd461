SPECIFICATION Spec
CONSTANTS
    stick = stick
    other = other
    Device = {stick, other}
    NoDevice = NoDevice
    Tolerance = 1
    MaxTime = 4
    MaxLog = 5
    Habits <- HostsReportingLate
    Letter = {1, 2}
    None = None
    Serial <- MCSerial
    Label <- MCLabel
    Portable <- MCPortable
    EMDMgmt <- MCEMDMgmt
    Usb = {stick, other}
    Resolved = {stick, other}
    Day = 2
CHECK_DEADLOCK FALSE
INVARIANT StaysInSession

SPECIFICATION Spec
CONSTANTS
    stick = stick
    other = other
    Device = {stick, other}
    NoDevice = NoDevice
    Tolerance = 1
    MaxTime = 5
    MaxLog = 5
    Habits <- HostsRestarted
    Letter = {1, 2}
    None = None
    Serial <- MCSerial
    Label <- MCLabel
    Portable <- MCPortable
    EMDMgmt <- MCEMDMgmt
    Usb = {stick, other}
    Resolved = {stick, other}
    Day = 2
CHECK_DEADLOCK FALSE
INVARIANT SoleAbstains

SPECIFICATION Spec
CONSTANTS
    MaxReparseDepth = 3
    OSReparseLimit = 6
    EvidenceRoot <- SomeRoot
    Outputs <- SomeOutputs
    Trees <- SomeTrees
    Accessors = {"auto", "ntfs"}
    MachineHives = {"SYSTEM"}
    ShortcutDirs <- SomeShortcutDirs
    LogsOf <- SomeLogs
    ExtensionOf <- SomeExtension
    Folded <- SomeFolded
    Rank <- SomeRank
CHECK_DEADLOCK FALSE
INVARIANTS CollectionAnswered EveryPathAdmitted BoundaryHolds

SPECIFICATION Spec
CONSTANTS
  Links <- MCLinks
  CustomFiles <- MCCustomFiles
  ItemLists <- MCItemLists
  PrefetchFiles <- MCPrefetchFiles
  Layouts <- MCLayouts
  JumpLists <- MCJumpLists
  Trees <- MCTrees
  Logs <- MCLogs
  hostVolumes <- MCHostVolumes
  usbDevices <- MCUsbDevices
  Lists <- MCLists
  Huge = 999
  maxStreamBytes = 30
  maxFileBudget = 45
INVARIANTS LinksClaimNoMore JumpListsHold PlacesHold VolumesHold TimesHold WithinBudget

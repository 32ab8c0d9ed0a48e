SPECIFICATION SystemSpec
CONSTANTS
  Paths <- MCPaths
  Targets <- MCTargets
  InodeAddr = {i1}
  OpsAddr = {o1, o2}
  DeviceAddr = {d1, d2, d3}
  DiskNames <- MCDiskNames
  NULL = NULL
  MAX_FILE_DESCRIPTORS = 1
  MAX_MOUNT_POINTS = 3
  MAX_FILESYSTEMS = 2
  MAX_DEVICES = 2
  MAX_BLOCK_DEVICES = 2
  MAX_DRIVER_SIZE = 1
  MaxFunctions = 4
  Lines = {1, 14, 255}
  Directories = 3
INVARIANTS SystemTypeOK DevicesLive KeyboardWired MountsRestored
PROPERTIES KernelProgress
CHECK_DEADLOCK FALSE

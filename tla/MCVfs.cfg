SPECIFICATION VfsSpec
CONSTANTS
  Paths <- MCPaths
  Targets <- MCTargets
  InodeAddr = {i1, i2, i3}
  OpsAddr = {o1, o2, o3}
  DeviceAddr = {d1}
  DiskNames <- MCDiskNames
  NULL = NULL
  MAX_FILE_DESCRIPTORS = 2
  MAX_MOUNT_POINTS = 2
  MAX_FILESYSTEMS = 2
  MAX_DEVICES = 1
SYMMETRY MCSymmetry
INVARIANTS InodesOwned RegularFilesIntact MountsAgree LongestMountWins
CHECK_DEADLOCK FALSE

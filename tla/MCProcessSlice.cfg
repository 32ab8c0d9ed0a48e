SPECIFICATION Spec
CONSTANTS
  PROCESS_MAX_COUNT = 2
  MAX_PRIORITY_LEVELS = 2
  TIME_SLICE_BASE = 1
  REAP_PERIOD = 2
  TICK_MOD = 4
  SLICE_MOD = 4
  Priorities = {0, 1}
  WaitTimes = {1}
INVARIANTS SliceWithinQuota
CHECK_DEADLOCK FALSE

SPECIFICATION Spec
CONSTANTS
  PROCESS_MAX_COUNT = 2
  MAX_PRIORITY_LEVELS = 2
  TIME_SLICE_BASE = 1
  REAP_PERIOD = 2
  TICK_MOD = 3
  SLICE_MOD = 3
  Priorities = {0, 2}
  WaitTimes = {1, 2}
INVARIANTS TypeOK QueueIntegrity OneRunning SlotsAgree
PROPERTIES ImplementsTable TickDispatchesBest SleepersWake ZombiesReaped
CHECK_DEADLOCK FALSE

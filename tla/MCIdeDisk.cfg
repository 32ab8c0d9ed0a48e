SPECIFICATION IdeSpec
CONSTANTS
  Ctx = {c1, c2}
  Sector = {s1, s2}
  Content = {v1, v2}
  TIMEOUT = 2
  COUNTER_MOD = 4
INVARIANTS FoundDriveIsReady ReadsReturnLastWrite
PROPERTIES ReadsGiveLockBack

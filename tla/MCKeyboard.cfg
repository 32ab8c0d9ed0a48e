SPECIFICATION KeyboardSpec
CONSTANTS
  RING_SIZE = 3
  Keys = {"LEFT_SHIFT", "RIGHT_SHIFT", "LEFT_CTRL", "CAPS_LOCK", "LETTER", "ENTER", "ESC"}
INVARIANTS KeyboardTypeOK NoStuckModifier
PROPERTIES ImplementsQueue

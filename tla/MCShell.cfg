SPECIFICATION ShellSpec
CONSTANTS
  RING_SIZE = 4
  Keys = {"LETTER", "SPACE", "ENTER", "BACKSPACE"}
  MAX_COMMAND_LENGTH = 6
  MAX_ARGS = 2
  VIDEO_WIDTH = 3
  VIDEO_HEIGHT = 3
  Glyphs <- MCGlyphs
  Prompt <- MCPrompt
  Outputs <- MCOutputs
INVARIANTS ShellTypeOK ArgsAreWords ScreenShowsLine
PROPERTIES EnterIsAnswered

\* Lines that reach FINSH_CMD_SIZE.
SPECIFICATION ShellSpec
CONSTANTS
  FINSH_CMD_SIZE = 3
  FINSH_HISTORY_LINES = 2
  Keys = {"enter", "backspace", "tab", "s", "q"}
  Printable = {"s", "q"}
  Names <- MCOneName
  QuitNames = {}
  LongLines = TRUE
INVARIANTS ClearedLine

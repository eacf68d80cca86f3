\* Every key, on lines of up to three characters, with a history of two; an
\* arrow's letter is also typed as text.
SPECIFICATION ShellSpec
CONSTANTS
  FINSH_CMD_SIZE = 4
  FINSH_HISTORY_LINES = 2
  Keys = {"esc", "[", "A", "B", "C", "D", "tab", "backspace", "nul", "enter", "q"}
  Printable = {"A", "q"}
  Names <- MCNames
  QuitNames <- MCQuitNames
  LongLines = FALSE
INVARIANTS ShellTypeOK CleanLine NoRepeats
PROPERTIES ImplementsEditor
CHECK_DEADLOCK FALSE

\* Lines of up to three words for a command that takes two; quit and a
\* crash end the program.
SPECIFICATION FairMshSpec
CONSTANTS
  FINSH_ARG_MAX = 2
  Syscalls = {"m_enable", "m_enable2", "quit"}
  Quits = {"quit"}
  Name <- McName
  head = "func_list"
  Characters <- McCharacters
  LineMax = 10
  WordMax = 3
  Words <- McWords
  Gaps <- McGaps
INVARIANTS RegistrationOrder RightCommand ArgumentsAsTyped
PROPERTIES Answered
CHECK_DEADLOCK FALSE

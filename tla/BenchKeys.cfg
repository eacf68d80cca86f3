\* The tests that a key ends, and the protocol of motor 1 changed between them.
SPECIFICATION BenchSpec
CONSTANTS
  MotorNum = 2
  HalfSteps = 1
  Levels <- MCLevels
  Protocols = {0, 1}
  Commands = {"dir_test", "dir_test2", "change_protocol1"}
INVARIANTS AtRestAfterTest TorqueOffBeforeTurn
CHECK_DEADLOCK FALSE

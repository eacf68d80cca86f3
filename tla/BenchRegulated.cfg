\* The tests that put motor 1 under the velocity regulator (protocol 2), and those
\* that fail for want of a file or an argument.
SPECIFICATION BenchSpec
CONSTANTS
  MotorNum = 2
  HalfSteps = 1
  Levels <- MCLevels
  Protocols = {0, 2}
  Commands = {"ttor_test_new", "ttor_test_new_nofile", "vves_test", "vves_test_noargs"}
INVARIANTS AtRestAfterTest RampsReturn RecordIsMode
CHECK_DEADLOCK FALSE

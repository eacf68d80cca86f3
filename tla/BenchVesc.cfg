\* vesc_tor_test, with and without its file, alone.
SPECIFICATION BenchSpec
CONSTANTS
  MotorNum = 2
  HalfSteps = 2
  Levels <- MCLevels
  Protocols = {0}
  Commands = {"vesc_tor_test", "vesc_tor_test_nofile"}
INVARIANTS VescWithinMax
CHECK_DEADLOCK FALSE

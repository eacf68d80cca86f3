\* The tests of torque alone, the operator typing them again or not.
SPECIFICATION FairBenchSpec
CONSTANTS
  MotorNum = 2
  HalfSteps = 1
  Levels <- MCLevels
  Protocols = {0}
  Commands = {"tor_test", "a_max_speed_tor_test", "extreme_condition_testing"}
INVARIANTS BenchTypeOK AtRestAfterTest RampsReturn
PROPERTIES TestStopsMotors
CHECK_DEADLOCK FALSE

\* One motor, every protocol, two set-point levels.
SPECIFICATION FairSpec
CONSTANTS
  MotorNum = 1
  Levels = {0, 1}
  Protocols = {0, 1, 2, 3}
INVARIANTS TypeOK RecordIsMode CommandOnlyIfSeenEnabled ModeExplained
PROPERTIES ImplementsSwitch SwitchObeyed SetPointReaches DisabledIsRelaxed

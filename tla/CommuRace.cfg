SPECIFICATION FaultlessSpec
CONSTANTS
  MotorNum = 1
  Levels = {0}
  Protocols = {0}
PROPERTIES DisableStops

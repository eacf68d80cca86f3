SPECIFICATION FairRegSpec
CONSTANTS
  NaN = NaN
  Inf = Inf
  NegInf = NegInf
  FloatMax = 8
  InitKp = 1
  InitKi = 1
  Kd = 0
  OutputMax = 2
  ErrorMax = 1
  ErrorAllMax = 2
  MaxPos = 2
  MaxVel = 3
  MaxTorque = 1
  SetPoints <- McSetPoints
  Gains <- McGains
  Speeds <- McSpeeds
  Torques <- McTorques
INVARIANTS RegTypeOK PidBounded
PROPERTIES TorqueOnWire Unwinds

SPECIFICATION FairSensorSpec
CONSTANTS
  Frames <- McFrames
  MODBUS_CRC16 <- Crc16
  TtyMax = 2
  MaxFaults = 2
INVARIANTS SensorTypeOK FlushExplained PublishedWasSent TripleFresh
PROPERTIES KeepsPublishing NoticesLostStep

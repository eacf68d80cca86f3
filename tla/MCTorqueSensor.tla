--------------------------- MODULE MCTorqueSensor ---------------------------
(***************************************************************************)
(* Instance of TorqueSensor: a sensor that turns freely and one with a     *)
(* negative torque, with the CRC the sensor computes.                      *)
(***************************************************************************)
EXTENDS TorqueSensor, ModbusCrc

McFrames == {<<0, 0, 0, 10, 128, 35>>, <<1, 44, 128, 60, 161, 192>>}

ASSUME SensorSendsModbus ==
  \A f \in McFrames : ModbusCrc(SubSeq(f, 1, 4)) = f[5] + 256 * f[6]

\* With the polynomial's CRC, no window across frames or losses is accepted.
ASSUME ModbusTellsWindows ==
  \A sent \in Sent, s \in 0 .. FrameLen - 1, d \in Losses :
    LET w == WindowAt(sent, s, d)
    IN ModbusCrc(SubSeq(w, 1, 4)) = w[5] + 256 * w[6] => w \in McFrames
=============================================================================

--------------------------- MODULE MCTestCommands ---------------------------
(* Instances of TestCommands for TLC.                                      *)
EXTENDS TestCommands

\* One step either side of a ramp of HalfSteps.
MCLevels == -HalfSteps .. HalfSteps + 1

\* "test param, max:%.3f" (test.c:801): the torque vesc_tor_test commands
\* stays within the max it announces.
VescWithinMax ==
  cmd = "vesc_tor_test" /\ Ramping(0) => t_ff[0] <= HalfSteps
=============================================================================

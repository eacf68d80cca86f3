----------------------------- MODULE Regulator -----------------------------
(***************************************************************************)
(* The regulator of protocol 2: src/src/pid_control.c as commu_thread uses *)
(* it (src/src/test.c), from the speed a motor replied to the torque in    *)
(* the frame it is sent.                                                   *)
(*                                                                         *)
(* There is one pid_control, g_motor[1].pid, for whichever motor is in     *)
(* protocol 2, so input is any speed; CommuThread says which motor is      *)
(* served when.  Values are those of MitCodec: results overflow to the     *)
(* infinities, rounding is left out, which is monotone and keeps the       *)
(* limits.                                                                 *)
(***************************************************************************)
EXTENDS MitCodec

CONSTANTS
  InitKp, InitKi, Kd,               \* gains of motor_test_init; kd stays 0
  OutputMax, ErrorMax, ErrorAllMax,
  FloatMax,                             \* largest finite float
  MaxPos, MaxVel, MaxTorque,            \* g_motor[m].param
  SetPoints, Gains, Speeds, Torques     \* what is typed or replied

Finite == -FloatMax .. FloatMax

\* A gain whose product with an error or an integral never overflows.
Tame(g) == g \in Int /\ g * ErrorMax \in Finite /\ g * ErrorAllMax \in Finite

\* error_all_max is output_max / ki (test.c:345), the output as large as the
\* largest torque.
ASSUME RegulatorAssumption ==
  /\ InitKp \in Nat /\ InitKi \in Nat /\ Kd \in Int
  /\ OutputMax \in Nat /\ ErrorMax \in Nat /\ ErrorAllMax \in Nat
  /\ FloatMax \in Nat /\ Tame(InitKp) /\ Tame(InitKi)
  /\ 2 * ErrorMax \in Finite /\ (2 * ErrorMax) * Kd \in Finite
  /\ InitKi * ErrorAllMax <= OutputMax
  /\ MaxPos \in Nat \ {0} /\ MaxVel \in Nat \ {0} /\ MaxTorque \in Nat \ {0}
  /\ SetPoints \subseteq Number /\ Gains \subseteq Number
  /\ Speeds \subseteq Int /\ Torques \subseteq Number

VARIABLES
  kp, ki, des, input, output,        \* g_motor[1].pid
  error, error_last, error_all,
  t_ff, v_des,                       \* control of the motor that is served
  pc,                                \* where commu_thread is
  data,                              \* can_tx.data of the last command
  tainted                            \* history: what was typed that spoils results

gains == <<kp, ki>>
errors == <<input, error, error_last, error_all>>
regVars == <<gains, des, errors, output, t_ff, v_des, pc, data, tainted>>

-----------------------------------------------------------------------------
(* pid_control.c                                                           *)

\* A result as a float.
ToFloat(x) == IF x > FloatMax THEN Inf ELSE IF x < -FloatMax THEN NegInf ELSE x

Plus(x, y) ==
  IF NaN \in {x, y} \/ {x, y} = {Inf, NegInf} THEN NaN
  ELSE IF {x, y} \subseteq Int THEN ToFloat(x + y)
  ELSE IF Inf \in {x, y} THEN Inf ELSE NegInf

Negative(x) ==
  IF x \in Int THEN -x ELSE IF x = Inf THEN NegInf ELSE IF x = NegInf THEN Inf ELSE NaN

Minus(x, y) == Plus(x, Negative(y))

Times(x, y) ==
  IF {x, y} \subseteq Int THEN ToFloat(x * y)
  ELSE IF {x, y} \cap {0, NaN} # {} THEN NaN
  ELSE IF Greater(x, 0) = Greater(y, 0) THEN Inf ELSE NegInf

\* Mutant: only one side is limited.
pid_limit_upper(val, max) == IF Greater(val, max) THEN max ELSE val

pid_limit(val, max) ==
  IF Greater(val, max) THEN max
  ELSE IF Greater(-max, val) THEN -max
  ELSE val

\* pid_zero clears all, motor_test_init sets the gains and the limits.
RegInit ==
  /\ kp = InitKp /\ ki = InitKi /\ des = 0 /\ output = 0
  /\ input = 0 /\ error = 0 /\ error_last = 0 /\ error_all = 0
  /\ t_ff = 0 /\ v_des = 0
  /\ pc = "next"
  /\ data = Enter
  /\ tainted = {}

\* Mutant: no integration while the output is at its limit.
CalcErrorsHeld ==
  /\ pc = "next"
  /\ input' \in Speeds
  /\ error_last' = error
  /\ error' = pid_limit(Minus(des, input'), ErrorMax)
  /\ error_all' = IF output \in {OutputMax, -OutputMax} THEN error_all
                  ELSE pid_limit(Plus(error_all, error'), ErrorAllMax)
  /\ pc' = "output"
  /\ UNCHANGED <<gains, des, output, t_ff, v_des, data, tainted>>

\* pid.input = motor->state.v and the first half of pid_caculate.
CalcErrors ==
  /\ pc = "next"
  /\ input' \in Speeds
  /\ error_last' = error
  /\ error' = pid_limit(Minus(des, input'), ErrorMax)
  /\ error_all' = pid_limit(Plus(error_all, error'), ErrorAllMax)
  /\ pc' = "output"
  /\ UNCHANGED <<gains, des, output, t_ff, v_des, data, tainted>>

\* The second half, with the gains as they are by now, and t_ff = pid.output.
CalcOutput ==
  /\ pc = "output"
  /\ LET sum == Plus(Plus(Times(error, kp), Times(error_all, ki)),
                     Times(Minus(error, error_last), Kd))
     IN output' = pid_limit(sum, OutputMax)
  /\ t_ff' = output'
  /\ pc' = "pack"
  /\ UNCHANGED <<gains, des, errors, v_des, data, tainted>>

\* A disabled motor of protocol 2: no torque, the regulator stands still.
Relax ==
  /\ pc = "next"
  /\ t_ff' = 0
  /\ pc' = "pack"
  /\ UNCHANGED <<gains, des, errors, output, v_des, data, tainted>>

\* A motor of protocol 0 goes straight to its command.
Pack ==
  /\ pc \in {"next", "pack"}
  /\ data' = pack_cmd_new([p_des |-> 0, v_des |-> v_des, kp |-> 0, kd |-> 0,
                           t_ff |-> t_ff], MaxPos, MaxVel, MaxTorque)
  /\ pc' = "next"
  /\ UNCHANGED <<gains, des, errors, output, t_ff, v_des, tainted>>

-----------------------------------------------------------------------------
(* Stores of the shell thread, at any time.  atof gives a NaN for "nan",   *)
(* an infinity for "inf" and for what a float cannot hold.                 *)

Typed(what, spoils) == tainted' = IF spoils THEN tainted \cup {what} ELSE tainted

s_pid_vel ==
  /\ \E vel \in SetPoints : des' = vel /\ Typed("set-point", vel = NaN)
  /\ UNCHANGED <<gains, errors, output, t_ff, v_des, pc, data>>

\* vves_test stores the gains one after the other, error_all_max stays.
vves_test ==
  /\ \E g \in Gains :
       /\ \/ kp' = g /\ UNCHANGED ki
          \/ ki' = g /\ UNCHANGED kp
       /\ Typed("gain", ~Tame(g))
  /\ UNCHANGED <<des, errors, output, t_ff, v_des, pc, data>>

s_torq ==
  /\ \E tor \in Torques : t_ff' = tor
  /\ UNCHANGED <<gains, des, errors, output, v_des, pc, data, tainted>>

s_vel ==
  /\ \E vel \in Torques : v_des' = vel
  /\ UNCHANGED <<gains, des, errors, output, t_ff, pc, data, tainted>>

RegNext ==
  \/ CalcErrors \/ CalcOutput \/ Relax \/ Pack
  \/ s_pid_vel \/ vves_test \/ s_torq \/ s_vel

RegSpec == RegInit /\ [][RegNext]_regVars

CommuSteps == CalcErrors \/ CalcOutput \/ Relax \/ Pack

\* commu_thread never blocks (CommuThread); the shell thread need not type.
FairRegSpec == RegSpec /\ WF_regVars(CommuSteps)

-----------------------------------------------------------------------------
\* Type invariant.
RegTypeOK ==
  /\ kp \in Gains \cup {InitKp} /\ ki \in Gains \cup {InitKi}
  /\ des \in SetPoints \cup {0} /\ input \in Speeds \cup {0}
  /\ {output, error, error_last, error_all} \subseteq Number
  /\ t_ff \in Number /\ v_des \in Torques \cup {0}
  /\ pc \in {"next", "output", "pack"}
  /\ data \in [1 .. 8 -> 0 .. 255]
  /\ tainted \subseteq {"set-point", "gain"}

Within(x, max) == x = NaN \/ x \in -max .. max

\* The errors, the integral and the output keep within their limits for all
\* gains and set-points, also those changed half way through a cycle.  No NaN
\* arises by itself: in the errors and the integral there is one only if a NaN
\* was typed as the set-point (an infinite one is limited), in the output only
\* after that or after a gain that is no number, infinite, or so large that a
\* product with it overflows (0 * inf, inf - inf).
PidBounded ==
  /\ Within(error, ErrorMax) /\ Within(error_last, ErrorMax)
  /\ Within(error_all, ErrorAllMax)
  /\ Within(output, OutputMax)
  /\ NaN \in {error, error_last, error_all} => "set-point" \in tainted
  /\ output = NaN => tainted # {}

\* What is packed last, as the motor reads it.
ReadAsAsked ==
  LET cmd == Unpack(data')
      read == uint_to_float(cmd.t, -MaxTorque, MaxTorque, 12)
      asked == IF Greater(t_ff, MaxTorque) \/ t_ff = NaN THEN MaxTorque
               ELSE IF Greater(-MaxTorque, t_ff) THEN -MaxTorque
               ELSE t_ff
  IN /\ cmd.kp = 0 /\ cmd.kd = 0
     /\ asked * 4095 - read \in 0 .. 2 * MaxTorque - 1
     /\ data' \notin {Enter, Exit, Zero}

\* What the motor reads in a command is the set-point: the torque is at most
\* one step of the field below the set-point limited to the motor's range (and
\* never above it), a NaN is read as the largest torque, no position or
\* velocity gain comes with it, and no set-point makes the frame one of the
\* three that switch a motor.
TorqueOnWire == [][Pack => ReadAsAsked]_regVars

Overshoot == tainted = {} /\ kp >= 0 /\ ki > 0 /\ error < 0

\* The integral that an earlier test or a long error left behind never pushes
\* the motor the wrong way for good: when the motor stays above its set-point
\* and the regulator keeps being called, its output turns negative and stays
\* so, also when the output was at its limit.
Unwinds ==
  <>[]Overshoot /\ []<><<CalcErrors>>_regVars => <>[]Greater(0, output)
=============================================================================

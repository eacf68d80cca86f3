---------------------------- MODULE TestCommands ----------------------------
(***************************************************************************)
(* The commands test.c exports to the shell, run by the shell thread one   *)
(* after the other beside commu_thread (CommuThread), until the process    *)
(* ends.                                                                   *)
(*                                                                         *)
(* A command is the sequence of its stores into g_motor.  What it prints,  *)
(* the sensor values it reads and how long it sleeps are left out: between *)
(* any two stores commu_thread may do any number of steps.  An argument is *)
(* a set of values one of which is stored; a torque ramp of hundreds of    *)
(* small steps is one of HalfSteps steps up and as many down.              *)
(***************************************************************************)
EXTENDS CommuThread, Sequences, FiniteSets

CONSTANTS
  HalfSteps,  \* steps from zero to the target torque of a ramp
  Commands    \* the commands the operator may type

VARIABLES
  cmd,      \* the command being run, or the last one
  step,     \* its next store; 0 when the shell is at its prompt
  pid_des,  \* g_motor[1].pid.des
  running   \* the process is alive

benchVars == <<vars, cmd, step, pid_des, running>>

-----------------------------------------------------------------------------
(* Stores.  A jump goes to the step in vals.                                *)

Op(op, m, vals) == [op |-> op, m |-> m, vals |-> vals]
Enable(m, v) == <<Op("enable", m, {v})>>
Tor(m, vals) == <<Op("tor", m, vals)>>
Vel(m, vals) == <<Op("vel", m, vals)>>
Protocol(m, vals) == <<Op("protocol", m, vals)>>
Des(vals) == <<Op("des", 1, vals)>>
Crash == <<Op("crash", 0, {})>>
IfKey(to) == <<Op("key", 0, {to})>>
Jump(to) == <<Op("jump", 0, {to})>>

Torques == -HalfSteps .. HalfSteps

\* for (i = 0; i < n; i++) { current += i \in ups ? step : -step; set_motor_tor }
Ramp(m, n, from, ups) ==
  [k \in 1 .. n |->
     Op("tor", m, {from + 2 * Cardinality(ups \cap 0 .. k - 1) - k})]

\* Mutant: the ramp turns one step late.
UpDownLate(m) == Ramp(m, 2 * HalfSteps, 0, 0 .. HalfSteps)

\* tor_test and the others: i >= times/2 ? -1 : 1
UpDown(m) == Ramp(m, 2 * HalfSteps, 0, 0 .. HalfSteps - 1)

TorTest == Enable(0, 1) \o UpDown(0) \o Enable(0, 0)

\* The data file is opened first and closed last; fclose(NULL) is a crash.
Closed(file) == IF file THEN <<>> ELSE Crash

\* Mutant: the test returns without taking back the regulator's set-point.
TtorTestNewKeepsDes(file) ==
  Protocol(1, {2}) \o Enable(0, 1) \o Enable(1, 1) \o Des({HalfSteps})
    \o UpDown(0)
    \o Enable(0, 0) \o Enable(1, 0) \o Protocol(1, {0})
    \o Closed(file)

TtorTestNew(file) ==
  Protocol(1, {2}) \o Enable(0, 1) \o Enable(1, 1) \o Des({HalfSteps})
    \o UpDown(0)
    \o Enable(0, 0) \o Enable(1, 0) \o Des({0}) \o Protocol(1, {0})
    \o Closed(file)

\* atof(argv[2]) without the argument is a crash; torques are not set.
VvesTest(args) ==
  Protocol(1, {2}) \o
    IF args THEN Enable(1, 1) \o Des({HalfSteps}) \o Enable(1, 0)
                   \o Des({0}) \o Protocol(1, {0})
            ELSE Crash

\* Mutant: the second motor stays enabled.
AMaxSpeedTorTestOneOff(file) ==
  Enable(0, 1) \o Enable(1, 1)
    \o Ramp(0, HalfSteps, 0, 0 .. HalfSteps - 1)
    \o UpDown(1)
    \o Ramp(0, HalfSteps, HalfSteps, {})
    \o Enable(0, 0) \o Closed(file)

AMaxSpeedTorTest(file) ==
  Enable(0, 1) \o Enable(1, 1)
    \o Ramp(0, HalfSteps, 0, 0 .. HalfSteps - 1)
    \o UpDown(1)
    \o Ramp(0, HalfSteps, HalfSteps, {})
    \o Enable(0, 0) \o Enable(1, 0) \o Closed(file)

\* Both random torques of a round go to motor 0; one round stands for 7200.
ExtremeConditionTesting ==
  Enable(0, 1) \o Enable(1, 1) \o Tor(0, Torques) \o Tor(0, Torques)
    \o Enable(0, 0) \o Enable(1, 0)

\* i <= times ? 1 : -1.  A parameter out of range is reported and used; no
\* motor is switched.  fwrite to a file that did not open is a crash.
VescTorTest(file) ==
  IF file THEN Ramp(0, 2 * HalfSteps, 0, 0 .. HalfSteps) ELSE Crash

\* Mutant: the way out of the loop leaves the second motor enabled.
UntilKeyOneOff(forth, back) ==
  LET start == 3
      out == start + Len(forth) + Len(back) + 4
  IN Enable(0, 1) \o Enable(1, 1)
       \o IfKey(out) \o forth \o IfKey(out) \o back \o IfKey(out) \o Jump(start)
       \o Enable(0, 0)

\* while (!kbhit()) { forth; if (kbhit()) break; back; if (kbhit()) break; }
UntilKey(forth, back) ==
  LET start == 3
      out == start + Len(forth) + Len(back) + 4
  IN Enable(0, 1) \o Enable(1, 1)
       \o IfKey(out) \o forth \o IfKey(out) \o back \o IfKey(out) \o Jump(start)
       \o Enable(0, 0) \o Enable(1, 0)

\* Mutant: the velocity turns round before the torque is taken off.
DirTestVelFirst ==
  UntilKey(Vel(1, {-1}) \o Tor(0, {0}) \o Tor(0, {HalfSteps}),
           Vel(1, {1}) \o Tor(0, {0}) \o Tor(0, {-HalfSteps}))

DirTest ==
  UntilKey(Tor(0, {0}) \o Vel(1, {-1}) \o Tor(0, {HalfSteps}),
           Tor(0, {0}) \o Vel(1, {1}) \o Tor(0, {-HalfSteps}))

\* The way back is at half the torque, which any lower level stands for.
DirTest2 ==
  UntilKey(Tor(0, {HalfSteps}) \o Vel(1, {-1}), Tor(0, {-1}) \o Vel(1, {-1}))

Script ==
  [s_torq |-> Tor(0, Torques),
   s2_torq |-> Tor(1, Torques),
   s_vel |-> Vel(1, Torques),
   s_pid_vel |-> Des(Torques),
   m_enable |-> <<Op("enable", 0, Bit)>>,
   m_enable2 |-> <<Op("enable", 1, Bit)>>,
   change_protocol0 |-> Protocol(0, Protocols),
   change_protocol1 |-> Protocol(1, Protocols),
   tor_test |-> TorTest,
   ttor_test_new |-> TtorTestNew(TRUE),
   ttor_test_new_nofile |-> TtorTestNew(FALSE),
   vves_test |-> VvesTest(TRUE),
   vves_test_noargs |-> VvesTest(FALSE),
   a_max_speed_tor_test |-> AMaxSpeedTorTest(TRUE),
   a_max_speed_tor_test_nofile |-> AMaxSpeedTorTest(FALSE),
   extreme_condition_testing |-> ExtremeConditionTesting,
   vesc_tor_test |-> VescTorTest(TRUE),
   vesc_tor_test_nofile |-> VescTorTest(FALSE),
   dir_test |-> DirTest,
   dir_test2 |-> DirTest2]

ASSUME CommandsAssumption ==
  /\ HalfSteps \in Nat \ {0}
  /\ -HalfSteps .. HalfSteps + 1 \subseteq Levels
  /\ Commands \subseteq DOMAIN Script
  /\ {0, 1} \subseteq Motors
  /\ \/ 2 \in Protocols
     \/ Commands \cap {"ttor_test_new", "ttor_test_new_nofile",
                       "vves_test", "vves_test_noargs"} = {}

-----------------------------------------------------------------------------
BenchInit ==
  /\ Init
  /\ cmd = "none" /\ step = 0 /\ pid_des = 0 /\ running = TRUE

\* finsh reads a line and msh_exec calls the command's function.
StartCommand ==
  /\ running /\ step = 0
  /\ cmd' \in Commands
  /\ step' = 1
  /\ UNCHANGED <<vars, pid_des, running>>

\* Mutant: a command runs one step past its end.
AfterOffByOne(k) == IF k <= Len(Script[cmd]) THEN k + 1 ELSE 0

\* The step after k: the next one, or back to the prompt.
After(k) == IF k < Len(Script[cmd]) THEN k + 1 ELSE 0

StoreStep ==
  /\ running /\ step > 0
  /\ LET s == Script[cmd][step]
     IN /\ s.op \in {"enable", "tor", "vel", "protocol", "des"}
        /\ \E v \in s.vals :
             \/ s.op = "enable" /\ SetEnable(s.m, v) /\ UNCHANGED pid_des
             \/ s.op = "tor" /\ set_motor_tor(s.m, v) /\ UNCHANGED pid_des
             \/ s.op = "vel" /\ set_motor_vel(s.m, v) /\ UNCHANGED pid_des
             \/ s.op = "protocol" /\ change_protocol(s.m, v) /\ UNCHANGED pid_des
             \/ s.op = "des" /\ pid_des' = v /\ UNCHANGED vars
  /\ step' = After(step)
  /\ UNCHANGED <<cmd, running>>

\* kbhit() sees the key the operator may have hit, and leaves it in stdin.
FlowStep ==
  /\ running /\ step > 0
  /\ LET s == Script[cmd][step]
     IN \/ s.op \in {"key", "jump"} /\ step' \in s.vals
        \/ s.op = "key" /\ step' = After(step)
  /\ UNCHANGED <<vars, cmd, pid_des, running>>

\* The process dies in the middle of a command and its threads with it.
CrashStep ==
  /\ running /\ step > 0
  /\ Script[cmd][step].op = "crash"
  /\ running' = FALSE
  /\ UNCHANGED <<vars, cmd, step, pid_des>>

\* quit: finsh returns, main returns, every thread ends where it is.
Quit ==
  /\ running /\ step = 0
  /\ running' = FALSE
  /\ UNCHANGED <<vars, cmd, step, pid_des>>

CommuStep == running /\ Commu /\ UNCHANGED <<cmd, step, pid_des, running>>
CommandStep == StoreStep \/ FlowStep \/ CrashStep

BenchNext == StartCommand \/ CommandStep \/ Quit \/ CommuStep

BenchSpec == BenchInit /\ [][BenchNext]_benchVars

\* Both threads keep running while the process lives.  What the operator types,
\* when a key is hit and which frames are lost is left open.
FairBenchSpec ==
  /\ BenchSpec
  /\ WF_benchVars(CommuStep)
  /\ WF_benchVars(CommandStep)

-----------------------------------------------------------------------------
BenchTypeOK ==
  /\ TypeOK
  /\ cmd \in Commands \cup {"none"}
  /\ step \in Nat /\ (step > 0 => step \in DOMAIN Script[cmd])
  /\ pid_des \in Torques
  /\ running \in BOOLEAN

Switching == {"tor_test", "ttor_test_new", "vves_test", "a_max_speed_tor_test",
              "extreme_condition_testing", "dir_test", "dir_test2"}
SwitchedBy(c) ==
  {Script[c][k].m : k \in {j \in DOMAIN Script[c] : Script[c][j].op = "enable"}}

\* A finished test leaves the bench at rest: the motors it switched on are
\* switched off, none is left under the regulator by it and the regulator's
\* set-point is the one from before the test or zero.
AtRestAfterTest ==
  running /\ step = 0 /\ cmd \in Switching
    => /\ \A m \in SwitchedBy(cmd) : motor_enable[m] = 0
       /\ cmd \in {"ttor_test_new", "vves_test"}
            => pid_des = 0 /\ protocol[1] = 0

\* cmd has begun the torque ramp of m.
Ramping(m) ==
  \E k \in DOMAIN Script[cmd] :
    /\ Script[cmd][k].op = "tor" /\ Script[cmd][k].m = m
    /\ step = 0 \/ k < step

Balanced == {"tor_test", "ttor_test_new", "a_max_speed_tor_test"}

\* A ramp on a motor the regulator does not share stays within the target, and
\* the torque set-point it leaves behind, which the next enable of the motor
\* would apply at once, is zero.
RampsReturn ==
  cmd \in Balanced => \A m \in {0, 1} :
    Ramping(m) => /\ t_ff[m] \in 0 .. HalfSteps
                  /\ step = 0 => t_ff[m] = 0

\* dir_test stores a torque of zero for motor 0 before it turns the velocity of
\* motor 1 round, at every step of its loop and whichever leg of it a key ends:
\* the two set-points never oppose each other.  This is about set-points: each
\* motor is sent its own in a frame of its own, which may be lost, so what the
\* two motors hold may oppose for a while.
TorqueOffBeforeTurn ==
  (cmd = "dir_test" /\ Ramping(0) /\ step \in 5 .. Len(Script[cmd]) - 2)
    => /\ t_ff[0] > 0 => v_des[1] < 0
       /\ t_ff[0] < 0 => v_des[1] > 0

\* After a finished test each motor it ran leaves motor mode, unless the
\* operator goes on, the process ends first or the edge was missed.
TestStopsMotors ==
  \A m \in {0, 1} :
    (/\ running /\ step = 0 /\ protocol[m] \in 0 .. 2
     /\ cmd \in Switching /\ m \in SwitchedBy(cmd))
      ~> (Mode(m) = 0 \/ glitch[m] \/ step # 0 \/ ~running)
=============================================================================

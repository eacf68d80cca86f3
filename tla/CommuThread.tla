---------------------------- MODULE CommuThread ----------------------------
(***************************************************************************)
(* src/src/test.c: the thread commu_thread, which polls the shared array   *)
(* g_motor and sends each motor one CAN frame per cycle, against the       *)
(* functions with which the shell thread stores into the same array.       *)
(*                                                                         *)
(* Every pthread_spin_lock of that file is commented out and the build     *)
(* (CMakeLists.txt) does not optimise, so a step here is what lies between *)
(* two accesses of the thread to a field another thread writes: each load  *)
(* of protocol and of motor_enable is a step of its own.                   *)
(*                                                                         *)
(* Set-points are abstract levels.  The 8 data bytes of can_tx are the     *)
(* kind of frame and its level; every branch of the loop writes all of     *)
(* them before the frame is sent, so can_tx is not kept between cycles.    *)
(***************************************************************************)
EXTENDS Integers

CONSTANTS
  MotorNum,   \* MOTOR_NUM
  Levels,     \* set-point values (torque, velocity)
  Protocols   \* values stored in protocol; other than 0, 1, 2 is "none of them"

ASSUME BenchAssumption ==
  /\ MotorNum \in Nat \ {0}
  /\ 0 \in Levels
  /\ 0 \in Protocols

VARIABLES
  motor_enable, protocol,  \* g_motor[m].motor_enable, .protocol
  t_ff, v_des,             \* g_motor[m].control.t_ff, .v_des
  enable_last,             \* local array of commu_thread
  motor,                   \* loop index i of commu_thread
  branch,                  \* protocol number the else-if chain is at
  pc,                      \* where commu_thread is
  can_tx,                  \* g_motor[motor].can_tx of this cycle
  seen,                    \* motor_enable as loaded by the edge test
  device,                  \* device[m]: the last frame the motor m acted on
  pending,                 \* history: switch requests not answered by a frame
  glitch                   \* history: m missed an edge and was not told since

shared == <<motor_enable, protocol, t_ff, v_des>>
thread == <<enable_last, motor, branch, pc, can_tx, seen>>
vars == <<shared, thread, device, pending, glitch>>

Motors == 0 .. MotorNum - 1
Bit == {0, 1}

EdgeKinds == {"enter", "exit"}
CommandKinds == {"cmd", "vel"}
Frame == [kind : EdgeKinds \cup CommandKinds \cup {"none"}, level : Levels]
NoFrame == [kind |-> "none", level |-> 0]
EnterFrame == [kind |-> "enter", level |-> 0]
ExitFrame == [kind |-> "exit", level |-> 0]

\* The switch position an edge frame answers.
EdgeValue(f) == IF f.kind = "enter" THEN 1 ELSE 0

\* A motor is in motor mode from EnterMotorMode until ExitMotorMode.
Mode(m) == IF device[m].kind = "exit" THEN 0 ELSE 1

(***************************************************************************)
(* Initially: motor_test_init cleared g_motor, protocol is 0, and          *)
(* commu_thread cleared enable_last.  A motor left in motor mode by an     *)
(* earlier run of the program is still in it: nothing is sent at start.    *)
(***************************************************************************)
Init ==
  /\ motor_enable = [m \in Motors |-> 0]
  /\ protocol = [m \in Motors |-> 0]
  /\ t_ff = [m \in Motors |-> 0]
  /\ v_des = [m \in Motors |-> 0]
  /\ enable_last = [m \in Motors |-> 0]
  /\ motor = 0 /\ branch = 0 /\ pc = "delay"
  /\ can_tx = NoFrame /\ seen = 0
  /\ device \in [Motors -> {ExitFrame, EnterFrame}]
  /\ pending = [m \in Motors |-> {}]
  /\ glitch = [m \in Motors |-> Mode(m) = 1]

-----------------------------------------------------------------------------
(* Stores of the shell thread.                                             *)

\* motor_enable(&g_motor[m], v)
SetEnable(m, v) ==
  /\ motor_enable' = [motor_enable EXCEPT ![m] = v]
  /\ pending' = IF v = motor_enable[m] THEN pending
                ELSE [pending EXCEPT ![m] = @ \cup {v}]
  /\ UNCHANGED <<protocol, t_ff, v_des, thread, device, glitch>>

set_motor_tor(m, tor) ==
  /\ t_ff' = [t_ff EXCEPT ![m] = tor]
  /\ UNCHANGED <<motor_enable, protocol, v_des, thread, device, pending, glitch>>

set_motor_vel(m, vel) ==
  /\ v_des' = [v_des EXCEPT ![m] = vel]
  /\ UNCHANGED <<motor_enable, protocol, t_ff, thread, device, pending, glitch>>

change_protocol(m, p) ==
  /\ protocol' = [protocol EXCEPT ![m] = p]
  /\ UNCHANGED <<motor_enable, t_ff, v_des, thread, device, pending, glitch>>

Shell ==
  \E m \in Motors :
    \/ \E v \in Bit : SetEnable(m, v)
    \/ \E tor \in Levels : set_motor_tor(m, tor)
    \/ \E vel \in Levels : set_motor_vel(m, vel)
    \/ \E p \in Protocols : change_protocol(m, p)

-----------------------------------------------------------------------------
(* Steps of commu_thread.                                                  *)

DelayDone ==
  /\ pc = "delay"
  /\ pc' = "dispatch"
  /\ UNCHANGED <<shared, enable_last, motor, branch, can_tx, seen>>
  /\ UNCHANGED <<device, pending, glitch>>

\* Mutant: one motor too many.
NextMotorOffByOne ==
  /\ branch' = 0
  /\ motor' = IF motor = MotorNum THEN 0 ELSE motor + 1
  /\ pc' = IF motor = MotorNum THEN "delay" ELSE "dispatch"

NextMotor ==
  /\ branch' = 0
  /\ motor' = IF motor = MotorNum - 1 THEN 0 ELSE motor + 1
  /\ pc' = IF motor = MotorNum - 1 THEN "delay" ELSE "dispatch"

\* One test of the chain protocol == 0, == 1, == 2; each loads protocol anew.
DispatchProtocol ==
  /\ pc = "dispatch"
  /\ \/ /\ protocol[motor] = branch
        /\ pc' = "decide"
        /\ UNCHANGED <<motor, branch>>
     \/ /\ protocol[motor] # branch
        /\ branch < 2
        /\ branch' = branch + 1
        /\ UNCHANGED <<motor, pc>>
     \/ /\ protocol[motor] # branch
        /\ branch = 2
        /\ NextMotor
  /\ UNCHANGED <<shared, enable_last, can_tx, seen, device, pending, glitch>>

\* Mutants: the test for the exit edge is missing; the test for the enter edge
\* looks at the switch only, or at the record only.
DecideEdgeNoExit ==
  /\ pc = "decide"
  /\ seen' = motor_enable[motor]
  /\ IF enable_last[motor] = 0 /\ motor_enable[motor] = 1
     THEN can_tx' = EnterFrame /\ pc' = "send"
     ELSE UNCHANGED can_tx /\ pc' = IF branch = 2 THEN "regulate" ELSE "pack"
  /\ UNCHANGED <<shared, enable_last, motor, branch, device, pending, glitch>>

DecideEdgeBy(enter) ==
  /\ pc = "decide"
  /\ seen' = motor_enable[motor]
  /\ IF enter
     THEN can_tx' = EnterFrame /\ pc' = "send"
     ELSE IF enable_last[motor] = 1 /\ motor_enable[motor] = 0
     THEN can_tx' = ExitFrame /\ pc' = "send"
     ELSE UNCHANGED can_tx /\ pc' = IF branch = 2 THEN "regulate" ELSE "pack"
  /\ UNCHANGED <<shared, enable_last, motor, branch, device, pending, glitch>>
DecideEdgeBySwitch == DecideEdgeBy(motor_enable[motor] = 1)
DecideEdgeByRecord == DecideEdgeBy(enable_last[motor] = 0)

\* The short-circuit tests load motor_enable once, whatever enable_last is.
DecideEdge ==
  /\ pc = "decide"
  /\ seen' = motor_enable[motor]
  /\ \/ /\ enable_last[motor] = 0 /\ motor_enable[motor] = 1
        /\ can_tx' = EnterFrame
        /\ pc' = "send"
     \/ /\ enable_last[motor] = 1 /\ motor_enable[motor] = 0
        /\ can_tx' = ExitFrame
        /\ pc' = "send"
     \/ /\ enable_last[motor] = motor_enable[motor]
        /\ pc' = IF branch = 2 THEN "regulate" ELSE "pack"
        /\ UNCHANGED can_tx
  /\ UNCHANGED <<shared, enable_last, motor, branch, device, pending, glitch>>

\* Protocol 2 loads motor_enable again.
Regulate ==
  /\ pc = "regulate"
  /\ pc' = IF motor_enable[motor] = 1 THEN "output" ELSE "relax"
  /\ UNCHANGED <<shared, enable_last, motor, branch, can_tx, seen>>
  /\ UNCHANGED <<device, pending, glitch>>

StoreTorque(tor) ==
  /\ t_ff' = [t_ff EXCEPT ![motor] = tor]
  /\ pc' = "pack"
  /\ UNCHANGED <<motor_enable, protocol, v_des, enable_last, motor, branch>>
  /\ UNCHANGED <<can_tx, seen, device, pending, glitch>>

\* The output of pid_caculate, of which this module only knows that it is a
\* level.  The shell may have switched the motor off while it was computed.
StoreOutput == pc = "output" /\ \E output \in Levels : StoreTorque(output)

\* Mutant: a disabled motor keeps the regulator's last output.
RelaxKeeps == pc = "relax" /\ StoreTorque(t_ff[motor])

Relax == pc = "relax" /\ StoreTorque(0)

\* Mutant: the branches of protocols 0 and 1 are swapped.
PackCommandSwapped ==
  /\ pc = "pack"
  /\ can_tx' = IF branch = 0 THEN [kind |-> "vel", level |-> v_des[motor]]
               ELSE [kind |-> "cmd", level |-> t_ff[motor]]
  /\ pc' = "send"
  /\ UNCHANGED <<shared, enable_last, motor, branch, seen, device, pending, glitch>>

PackCommand ==
  /\ pc = "pack"
  /\ can_tx' = IF branch = 1 THEN [kind |-> "vel", level |-> v_des[motor]]
               ELSE [kind |-> "cmd", level |-> t_ff[motor]]
  /\ pc' = "send"
  /\ UNCHANGED <<shared, enable_last, motor, branch, seen, device, pending, glitch>>

Sent(m) ==
  /\ pc = "send"
  /\ motor = m
  /\ pc' = "record"
  /\ pending' = IF can_tx.kind \in EdgeKinds
                THEN [pending EXCEPT ![m] = @ \ {EdgeValue(can_tx)}]
                ELSE pending
  /\ UNCHANGED <<shared, enable_last, motor, branch, can_tx, seen>>

\* can_commu_send succeeds; the motor ignores commands outside motor mode.
Deliver(m) ==
  /\ Sent(m)
  /\ device' = IF can_tx.kind \in EdgeKinds \/ Mode(m) = 1
               THEN [device EXCEPT ![m] = can_tx] ELSE device
  /\ glitch' = [glitch EXCEPT ![m] = @ /\ can_tx.kind \notin EdgeKinds]

\* send() fails (the interface queue is full, the bus is off) or the frame is
\* lost: the return value is not looked at.
Lose(m) ==
  /\ Sent(m)
  /\ glitch' = [glitch EXCEPT ![m] = @ \/ can_tx.kind \in EdgeKinds]
  /\ UNCHANGED device

\* Mutants: enable_last is set, never cleared; the whole array is copied.
RecordEnableOnce ==
  /\ pc = "record"
  /\ enable_last' = [enable_last EXCEPT ![motor] = IF motor_enable[motor] = 1
                                                   THEN 1 ELSE @]
  /\ glitch' = [glitch EXCEPT ![motor] = @ \/ motor_enable[motor] # seen]
  /\ can_tx' = NoFrame /\ seen' = 0
  /\ NextMotor
  /\ UNCHANGED <<shared, device, pending>>

RecordEnableAll ==
  /\ pc = "record"
  /\ enable_last' = motor_enable
  /\ glitch' = [glitch EXCEPT ![motor] = @ \/ motor_enable[motor] # seen]
  /\ can_tx' = NoFrame /\ seen' = 0
  /\ NextMotor
  /\ UNCHANGED <<shared, device, pending>>

\* enable_last takes a later load of motor_enable than the edge test's.
RecordEnable ==
  /\ pc = "record"
  /\ enable_last' = [enable_last EXCEPT ![motor] = motor_enable[motor]]
  /\ glitch' = [glitch EXCEPT ![motor] = @ \/ motor_enable[motor] # seen]
  /\ can_tx' = NoFrame /\ seen' = 0
  /\ NextMotor
  /\ UNCHANGED <<shared, device, pending>>

Commu ==
  \/ DelayDone
  \/ DispatchProtocol
  \/ DecideEdge
  \/ Regulate
  \/ StoreOutput
  \/ Relax
  \/ PackCommand
  \/ \E m \in Motors : Deliver(m)
  \/ \E m \in Motors : Lose(m)
  \/ RecordEnable

Next == Shell \/ Commu

Spec == Init /\ [][Next]_vars

\* The thread never stops by itself, and a bus that is used keeps working:
\* of the frames sent to a motor not all are lost.  Nothing is assumed of
\* the operator.
FairSpec ==
  /\ Spec
  /\ WF_vars(Commu)
  /\ \A m \in Motors : SF_vars(Deliver(m))

-----------------------------------------------------------------------------
(* Type invariant.                                                         *)
TypeOK ==
  /\ motor_enable \in [Motors -> Bit]
  /\ protocol \in [Motors -> Protocols]
  /\ t_ff \in [Motors -> Levels]
  /\ v_des \in [Motors -> Levels]
  /\ enable_last \in [Motors -> Bit]
  /\ motor \in Motors
  /\ branch \in 0 .. 2
  /\ pc \in {"delay", "dispatch", "decide", "regulate", "output", "relax", "pack",
             "send", "record"}
  /\ can_tx \in Frame
  /\ seen \in Bit
  /\ device \in [Motors -> Frame]
  /\ pending \in [Motors -> SUBSET Bit]
  /\ glitch \in [Motors -> BOOLEAN]

\* commu_thread is between the edge test of m and the end of m's cycle.
InCycle(m) ==
  motor = m /\ pc \in {"regulate", "output", "relax", "pack", "send", "record"}

\* Between cycles, commu_thread's record of a motor (enable_last) is the mode
\* the motor is in, unless the motor's last edge was missed: its frame was
\* lost, or motor_enable moved between the edge test and the second load
\* that updates enable_last.  So these two are the only ways to lose an edge.
RecordIsMode ==
  \A m \in Motors : ~InCycle(m) /\ ~glitch[m] => enable_last[m] = Mode(m)

\* A command is sent to a motor in motor mode only in a cycle whose edge test
\* saw it enabled: after a disable the first frame built is the exit frame,
\* so torque commands in flight are bounded by the cycle under way.
CommandOnlyIfSeenEnabled ==
  pc = "send" /\ can_tx.kind \in CommandKinds /\ Mode(motor) = 1
    => seen = 1 \/ glitch[motor]

\* Whenever commu_thread stops, at quit or in a crash, a motor it leaves in
\* motor mode is enabled, was disabled too late for an answer, or missed an
\* edge: a motor disabled in good time is off.
ModeExplained ==
  \A m \in Motors :
    Mode(m) = 1 => motor_enable[m] = 1 \/ 0 \in pending[m] \/ glitch[m]

\* Every start and stop of a motor answers a request of its own, and no
\* request is answered twice (MotorSwitch), whatever frames are lost and
\* however the shell's stores and the thread's loads interleave.
Switch == INSTANCE MotorSwitch WITH want <- motor_enable,
                                    mode <- [m \in Motors |-> Mode(m)]
ImplementsSwitch == Switch!SwitchSpec

\* A motor whose switch stays at v, whose protocol stays one the thread
\* serves and that misses no edge, gets into mode v.
SwitchObeyed ==
  \A m \in Motors, v \in Bit, p \in Protocols \cap 0 .. 2 :
    (motor_enable[m] = v /\ protocol[m] = p /\ ~glitch[m])
      ~> (Mode(m) = v \/ motor_enable[m] # v \/ protocol[m] # p \/ glitch[m])

\* A torque set-point that stays put reaches a motor running in protocol 0
\* though frames are lost: commands, unlike edges, are repeated every cycle.
SetPointReaches ==
  \A m \in Motors, x \in Levels :
    (Mode(m) = 1 /\ motor_enable[m] = 1 /\ protocol[m] = 0 /\ t_ff[m] = x)
      ~> \/ device[m] = [kind |-> "cmd", level |-> x]
         \/ Mode(m) = 0 \/ motor_enable[m] = 0 \/ protocol[m] # 0 \/ t_ff[m] # x

\* A motor of protocol 2 that stays disabled loses its torque set-point, so
\* the regulator's last output does not survive in a motor left in protocol 2.
DisabledIsRelaxed ==
  \A m \in Motors :
    (motor_enable[m] = 0 /\ protocol[m] = 2)
      ~> (t_ff[m] = 0 \/ motor_enable[m] = 1 \/ protocol[m] # 2)
=============================================================================

-------------------------- MODULE CommuThreadProofs --------------------------
(***************************************************************************)
(* What TLC checks of CommuThread on one and two motors, proved for any    *)
(* number of motors, any levels and any protocol values.                   *)
(***************************************************************************)
EXTENDS CommuThread, TLAPS

\* Every step keeps the variables of CommuThread in their types.
THEOREM TypeCorrect == Spec => []TypeOK
<1>1. Init => TypeOK
  BY BenchAssumption DEF Init, TypeOK, Motors, Bit, Frame, NoFrame, EnterFrame,
     ExitFrame, EdgeKinds, CommandKinds, Mode
<1>2. TypeOK /\ [Next]_vars => TypeOK'
  <2> SUFFICES ASSUME TypeOK, [Next]_vars PROVE TypeOK'
    OBVIOUS
  <2> USE BenchAssumption DEF TypeOK, Motors, Bit
  <2>1. ASSUME NEW m \in Motors, NEW v \in Bit, SetEnable(m, v) PROVE TypeOK'
    BY <2>1 DEF SetEnable, thread
  <2>2. ASSUME NEW m \in Motors, NEW tor \in Levels, set_motor_tor(m, tor)
        PROVE  TypeOK'
    BY <2>2 DEF set_motor_tor, thread
  <2>3. ASSUME NEW m \in Motors, NEW vel \in Levels, set_motor_vel(m, vel)
        PROVE  TypeOK'
    BY <2>3 DEF set_motor_vel, thread
  <2>4. ASSUME NEW m \in Motors, NEW p \in Protocols, change_protocol(m, p)
        PROVE  TypeOK'
    BY <2>4 DEF change_protocol, thread
  <2>5. CASE DelayDone
    BY <2>5 DEF DelayDone, shared
  <2>6. CASE DispatchProtocol
    BY <2>6 DEF DispatchProtocol, NextMotor, shared
  <2>7. CASE DecideEdge
    BY <2>7 DEF DecideEdge, shared, Frame, EnterFrame, ExitFrame, EdgeKinds
  <2>8. CASE Regulate \/ StoreOutput \/ Relax
    BY <2>8 DEF Regulate, StoreOutput, Relax, StoreTorque, shared
  <2>9. CASE PackCommand
    BY <2>9 DEF PackCommand, shared, Frame, CommandKinds
  <2>10. ASSUME NEW m \in Motors, Sent(m)
         PROVE  /\ pending' \in [Motors -> SUBSET Bit]
                /\ pc' = "record"
    BY <2>10 DEF Sent
  <2>11. ASSUME NEW m \in Motors, Deliver(m) PROVE TypeOK'
    BY <2>10, <2>11 DEF Deliver, Sent, shared
  <2>12. ASSUME NEW m \in Motors, Lose(m) PROVE TypeOK'
    BY <2>10, <2>12 DEF Lose, Sent, shared
  <2>13. CASE RecordEnable
    BY <2>13 DEF RecordEnable, NextMotor, shared, Frame, NoFrame
  <2>14. CASE UNCHANGED vars
    BY <2>14 DEF vars, shared, thread
  <2>15. QED
    BY <2>1, <2>2, <2>3, <2>4, <2>5, <2>6, <2>7, <2>8, <2>9, <2>11, <2>12,
       <2>13, <2>14 DEF Next, Shell, Commu
<1>3. QED
  BY <1>1, <1>2, PTL DEF Spec

-----------------------------------------------------------------------------
(* The strengthening of RecordIsMode.  The frame under construction, the   *)
(* sample it was decided on and the record of the motor belong together    *)
(* until the frame is sent; from then until RecordEnable the motor is in   *)
(* the mode of the sample, not of the record.                              *)

FrameMatchesSample ==
  /\ pc \in {"regulate", "output", "relax", "pack"} => seen = enable_last[motor]
  /\ pc \in {"send", "record"} =>
       /\ can_tx.kind \in EdgeKinds \cup CommandKinds
       /\ can_tx.kind \in EdgeKinds =>
            /\ seen = EdgeValue(can_tx)
            /\ enable_last[motor] # seen
       /\ can_tx.kind \in CommandKinds => seen = enable_last[motor]

ModeMatches ==
  \A m \in Motors :
    ~glitch[m] => Mode(m) = IF motor = m /\ pc = "record" THEN seen
                            ELSE enable_last[m]

SyncInv == FrameMatchesSample /\ ModeMatches

\* The sample, the frame and the motor's mode agree in every reachable state.
THEOREM Synchronised == Spec => []SyncInv
<1>1. Init => SyncInv
  BY BenchAssumption DEF Init, SyncInv, FrameMatchesSample, ModeMatches, Mode,
     Motors, EnterFrame, ExitFrame
<1>2. TypeOK /\ SyncInv /\ [Next]_vars => SyncInv'
  <2> SUFFICES ASSUME TypeOK, SyncInv, [Next]_vars PROVE SyncInv'
    OBVIOUS
  <2> USE DEF SyncInv, TypeOK, Bit
  <2>1. ASSUME UNCHANGED <<thread, device, glitch>> PROVE SyncInv'
    BY <2>1 DEF thread, FrameMatchesSample, ModeMatches, Mode, EdgeValue
  <2>2. CASE Shell
    BY <2>1, <2>2 DEF Shell, SetEnable, set_motor_tor, set_motor_vel,
       change_protocol
  <2>3. CASE DelayDone
    BY <2>3 DEF DelayDone, FrameMatchesSample, ModeMatches, Mode
  <2>4. CASE DispatchProtocol
    BY <2>4 DEF DispatchProtocol, NextMotor, FrameMatchesSample, ModeMatches, Mode
  <2>5. CASE DecideEdge
    <3>1. FrameMatchesSample'
      BY <2>5 DEF DecideEdge, FrameMatchesSample, EdgeValue, EnterFrame,
         ExitFrame, EdgeKinds, CommandKinds
    <3>2. ModeMatches'
      BY <2>5 DEF DecideEdge, ModeMatches, Mode
    <3>3. QED
      BY <3>1, <3>2
  <2>6. CASE Regulate \/ StoreOutput \/ Relax
    BY <2>6 DEF Regulate, StoreOutput, Relax, StoreTorque, shared, FrameMatchesSample,
       ModeMatches, Mode
  <2>7. CASE PackCommand
    <3>1. FrameMatchesSample'
      BY <2>7 DEF PackCommand, FrameMatchesSample, EdgeKinds, CommandKinds
    <3>2. ModeMatches'
      BY <2>7 DEF PackCommand, ModeMatches, Mode
    <3>3. QED
      BY <3>1, <3>2
  <2>8. ASSUME NEW m \in Motors, Sent(m) PROVE FrameMatchesSample'
    BY <2>8 DEF Sent, FrameMatchesSample, EdgeValue
  <2>9. ASSUME NEW m \in Motors, Deliver(m) PROVE ModeMatches'
    <3>1. /\ pc = "send" /\ motor = m /\ pc' = "record"
          /\ UNCHANGED <<enable_last, motor, can_tx, seen>>
      BY <2>9 DEF Deliver, Sent
    <3>2. CASE can_tx.kind \in EdgeKinds
      <4>1. /\ device' = [device EXCEPT ![m] = can_tx]
            /\ Mode(m)' = seen
        BY <2>9, <3>1, <3>2 DEF Deliver, Mode, FrameMatchesSample, EdgeValue,
           EdgeKinds
      <4>2. QED
        BY <2>9, <3>1, <4>1 DEF Deliver, ModeMatches, Mode
    <3>3. CASE can_tx.kind \in CommandKinds
      <4>1. /\ Mode(m)' = Mode(m)
            /\ seen = enable_last[m]
            /\ can_tx.kind \notin EdgeKinds
        BY <2>9, <3>1, <3>3 DEF Deliver, Mode, FrameMatchesSample, EdgeKinds,
           CommandKinds
      <4>2. QED
        BY <2>9, <3>1, <4>1 DEF Deliver, ModeMatches, Mode
    <3>4. QED
      BY <3>1, <3>2, <3>3 DEF FrameMatchesSample
  <2>10. ASSUME NEW m \in Motors, Lose(m) PROVE ModeMatches'
    <3>1. /\ pc = "send" /\ motor = m /\ pc' = "record"
          /\ UNCHANGED <<enable_last, motor, can_tx, seen, device>>
      BY <2>10 DEF Lose, Sent
    <3>2. can_tx.kind \notin EdgeKinds => seen = enable_last[m]
      BY <3>1 DEF FrameMatchesSample
    <3>3. QED
      BY <2>10, <3>1, <3>2 DEF Lose, ModeMatches, Mode
  <2>11. CASE RecordEnable
    <3>1. FrameMatchesSample'
      BY <2>11 DEF RecordEnable, NextMotor, FrameMatchesSample
    <3>2. ModeMatches'
      BY <2>11 DEF RecordEnable, NextMotor, ModeMatches, Mode
    <3>3. QED
      BY <3>1, <3>2
  <2>12. CASE UNCHANGED vars
    BY <2>1, <2>12 DEF vars
  <2>13. QED
    BY <2>2, <2>3, <2>4, <2>5, <2>6, <2>7, <2>8, <2>9, <2>10, <2>11, <2>12
       DEF Next, Commu, Deliver, Lose
<1>3. QED
  BY <1>1, <1>2, TypeCorrect, PTL DEF Spec

\* An edge is lost only with its frame, or by a store of motor_enable between
\* commu_thread's two loads of it; otherwise the record is the motor's mode.
THEOREM RecordIsModeAlways == Spec => []RecordIsMode
<1>1. SyncInv => RecordIsMode
  BY DEF SyncInv, ModeMatches, RecordIsMode, InCycle
<1>2. QED
  BY <1>1, Synchronised, PTL

\* No command is built for a running motor on a sample that said disabled.
THEOREM CommandsOnlyWhenEnabled == Spec => []CommandOnlyIfSeenEnabled
<1>1. TypeOK /\ SyncInv => CommandOnlyIfSeenEnabled
  BY DEF TypeOK, SyncInv, ModeMatches, FrameMatchesSample,
     CommandOnlyIfSeenEnabled
<1>2. QED
  BY <1>1, TypeCorrect, Synchronised, PTL

-----------------------------------------------------------------------------
(* The requests that commu_thread is about to answer are still pending.    *)

RequestInv ==
  /\ \A m \in Motors :
       (enable_last[m] # motor_enable[m] /\ ~(motor = m /\ pc = "record"))
         => motor_enable[m] \in pending[m]
  /\ (InCycle(motor) /\ seen # motor_enable[motor])
       => motor_enable[motor] \in pending[motor]
  /\ pc = "send" /\ can_tx.kind \in EdgeKinds
       => EdgeValue(can_tx) \in pending[motor]

\* A difference between the switch and the record is a request not yet
\* answered, and so is the edge frame on its way.
THEOREM Requested == Spec => []RequestInv
<1>1. Init => RequestInv
  BY DEF Init, RequestInv, InCycle
<1>2. TypeOK /\ SyncInv /\ RequestInv /\ [Next]_vars => RequestInv'
  <2> SUFFICES ASSUME TypeOK, SyncInv, RequestInv, [Next]_vars
               PROVE  RequestInv'
    OBVIOUS
  <2> USE DEF TypeOK, Bit, RequestInv, InCycle
  <2>1. ASSUME NEW m \in Motors, NEW v \in Bit, SetEnable(m, v)
        PROVE  RequestInv'
    BY <2>1 DEF SetEnable, thread, EdgeValue
  <2>2. ASSUME UNCHANGED <<thread, motor_enable, pending>> PROVE RequestInv'
    BY <2>2 DEF thread, EdgeValue
  <2>3. CASE DelayDone
    BY <2>3 DEF DelayDone, shared
  <2>4. CASE DispatchProtocol
    BY <2>4 DEF DispatchProtocol, NextMotor, shared
  <2>5. CASE DecideEdge
    BY <2>5 DEF DecideEdge, shared, EdgeValue, EnterFrame, ExitFrame, EdgeKinds
  <2>6. CASE Regulate \/ StoreOutput \/ Relax
    BY <2>6 DEF Regulate, StoreOutput, Relax, StoreTorque, shared
  <2>7. CASE PackCommand
    BY <2>7 DEF PackCommand, shared, EdgeKinds
  <2>8. ASSUME NEW m \in Motors, Sent(m) PROVE RequestInv'
    BY <2>8 DEF Sent, shared, SyncInv, FrameMatchesSample
  <2>9. CASE RecordEnable
    BY <2>9 DEF RecordEnable, NextMotor, shared
  <2>10. CASE UNCHANGED vars
    BY <2>2, <2>10 DEF vars, shared
  <2>11. QED
    BY <2>1, <2>2, <2>3, <2>4, <2>5, <2>6, <2>7, <2>8, <2>9, <2>10
       DEF Next, Shell, Commu, Deliver, Lose, set_motor_tor, set_motor_vel,
           change_protocol
<1>3. QED
  BY <1>1, <1>2, TypeCorrect, Synchronised, PTL DEF Spec

\* A motor that is left running was not disabled in time, or missed an edge.
THEOREM ModeExplainedAlways == Spec => []ModeExplained
<1>1. TypeOK /\ SyncInv /\ RequestInv => ModeExplained
  <2> SUFFICES ASSUME TypeOK, SyncInv, RequestInv,
                      NEW m \in Motors,
                      Mode(m) = 1, motor_enable[m] # 1, ~glitch[m]
               PROVE  0 \in pending[m]
    BY DEF ModeExplained
  <2>1. motor_enable[m] = 0
    BY DEF TypeOK, Bit
  <2>2. CASE motor = m /\ pc = "record"
    BY <2>1, <2>2 DEF SyncInv, ModeMatches, RequestInv, InCycle
  <2>3. CASE ~(motor = m /\ pc = "record")
    BY <2>1, <2>3 DEF SyncInv, ModeMatches, RequestInv
  <2>4. QED
    BY <2>2, <2>3
<1>2. QED
  BY <1>1, TypeCorrect, Synchronised, Requested, PTL

Modes == [m \in Motors |-> Mode(m)]

\* commu_thread and the shell implement the switch of MotorSwitch: no start or
\* stop without a request, and none twice.
THEOREM RefinesSwitch == Spec => ImplementsSwitch
<1> USE DEF Bit
<1>1. Init => Switch!SwitchInit
  BY DEF Init, Switch!SwitchInit, Mode
<1>2. TypeOK /\ RequestInv /\ [Next]_vars
        => [Switch!SwitchNext]_(Switch!switchVars)
  <2> SUFFICES ASSUME TypeOK, RequestInv, [Next]_vars
               PROVE  [Switch!SwitchNext]_(Switch!switchVars)
    OBVIOUS
  <2>1. ASSUME UNCHANGED <<motor_enable, pending, device>>
        PROVE  UNCHANGED Switch!switchVars
    BY <2>1 DEF Switch!switchVars, Mode
  <2>2. ASSUME NEW m \in Motors, NEW v \in Bit, SetEnable(m, v)
        PROVE  [Switch!SwitchNext]_(Switch!switchVars)
    <3>1. CASE v = motor_enable[m]
      BY <2>1, <2>2, <3>1 DEF SetEnable, TypeOK
    <3>2. CASE v # motor_enable[m]
      <4>1. Switch!Request(m, v)
        BY <2>2, <3>2 DEF SetEnable, Switch!Request, Mode
      <4>2. QED
        BY <4>1 DEF Switch!SwitchNext
    <3>3. QED
      BY <3>1, <3>2
  <2>3. ASSUME NEW m \in Motors, Sent(m), can_tx.kind \in EdgeKinds
        PROVE  /\ EdgeValue(can_tx) \in Bit
               /\ EdgeValue(can_tx) \in pending[m]
               /\ pending' = [pending EXCEPT ![m] = @ \ {EdgeValue(can_tx)}]
               /\ UNCHANGED motor_enable
    BY <2>3 DEF Sent, RequestInv, EdgeValue, shared
  <2>4. ASSUME NEW m \in Motors, Deliver(m)
        PROVE  [Switch!SwitchNext]_(Switch!switchVars)
    <3>1. CASE can_tx.kind \in EdgeKinds
      <4>1. device' = [device EXCEPT ![m] = can_tx]
        BY <2>4, <3>1 DEF Deliver
      <4>2. Modes' = [Modes EXCEPT ![m] = EdgeValue(can_tx)]
        BY <3>1, <4>1 DEF Modes, Mode, EdgeValue, EdgeKinds, TypeOK
      <4>3. Switch!Answer(m, EdgeValue(can_tx))
        BY <2>3, <2>4, <3>1, <4>2 DEF Deliver, Switch!Answer, Modes
      <4>4. QED
        BY <2>3, <2>4, <3>1, <4>3 DEF Deliver, Switch!SwitchNext
    <3>2. CASE can_tx.kind \notin EdgeKinds
      <4>1. UNCHANGED Modes
        BY <2>4, <3>2 DEF Deliver, Modes, Mode, EdgeKinds, TypeOK
      <4>2. QED
        BY <2>4, <3>2, <4>1 DEF Deliver, Sent, shared, Modes, Switch!switchVars
    <3>3. QED
      BY <3>1, <3>2
  <2>5. ASSUME NEW m \in Motors, Lose(m)
        PROVE  [Switch!SwitchNext]_(Switch!switchVars)
    <3>1. CASE can_tx.kind \in EdgeKinds
      <4>1. Switch!Drop(m, EdgeValue(can_tx))
        BY <2>3, <2>5, <3>1 DEF Lose, Switch!Drop, Mode
      <4>2. QED
        BY <2>3, <2>5, <3>1, <4>1 DEF Lose, Switch!SwitchNext
    <3>2. CASE can_tx.kind \notin EdgeKinds
      BY <2>1, <2>5, <3>2 DEF Lose, Sent, shared
    <3>3. QED
      BY <3>1, <3>2
  <2>6. CASE DelayDone \/ DispatchProtocol \/ DecideEdge \/ Regulate \/ StoreOutput
             \/ Relax \/ PackCommand \/ RecordEnable
    BY <2>1, <2>6 DEF DelayDone, DispatchProtocol, DecideEdge, Regulate,
       StoreOutput, Relax, StoreTorque, PackCommand, RecordEnable, shared
  <2>7. CASE UNCHANGED vars
    BY <2>1, <2>7 DEF vars, shared
  <2>8. QED
    BY <2>1, <2>2, <2>4, <2>5, <2>6, <2>7 DEF Next, Shell, Commu,
       set_motor_tor, set_motor_vel, change_protocol
<1>3. QED
  BY <1>1, <1>2, TypeCorrect, Requested, PTL DEF Spec, ImplementsSwitch,
     Switch!SwitchSpec
=============================================================================

------------------------- MODULE TorqueSensorProofs -------------------------
(***************************************************************************)
(* TorqueSensor for any frames, CRC and lengths of the queue: the thread   *)
(* stays within its buffer, a triple is made of fresh samples, and no      *)
(* frame that arrives whole is thrown away.                                *)
(***************************************************************************)
EXTENDS TorqueSensor, SequenceTheorems, TLAPS

\* What the compiler's arithmetic makes of six bytes.
LEMMA SampleTyped ==
  ASSUME NEW b \in Seq(Byte), Len(b) = FrameLen
  PROVE  Torque(b) \in Int /\ Speed(b) \in Nat
<1>1. b[1] \in Byte /\ b[2] \in Byte /\ b[3] \in Byte /\ b[4] \in Byte
  BY ElementOfSeq, SMT DEF FrameLen
<1>2. ASSUME NEW w \in Byte, NEW x \in Byte, NEW y \in Byte, NEW z \in Byte
      PROVE  Word(w, x) \in Int /\ Word(y % 128, z) \in Nat
  <2>1. w \in 0 .. 255 /\ x \in 0 .. 255 /\ y \in 0 .. 255 /\ z \in 0 .. 255
    BY <1>2, Zenon DEF Byte
  <2>2. QED
    BY <2>1, SMT DEF Word
<1>3. Torque(b) = Word(b[1], b[2]) * (-1) \/ Torque(b) = Word(b[1], b[2]) * 1
  BY SMT DEF Torque
<1>4. Word(b[1], b[2]) \in Int /\ Speed(b) \in Nat
  BY <1>1, <1>2, Zenon DEF Speed
<1>5. Torque(b) \in Int
  BY <1>3, <1>4, SMT
<1>6. QED
  BY <1>4, <1>5

\* The first n elements and the rest of the input queue.
LEMMA Split ==
  ASSUME NEW S, NEW s \in Seq(S), NEW n \in 0 .. Len(s)
  PROVE  /\ SubSeq(s, 1, n) \in Seq(S) /\ Len(SubSeq(s, 1, n)) = n
         /\ SubSeq(s, n + 1, Len(s)) \in Seq(S)
         /\ Len(SubSeq(s, n + 1, Len(s))) = Len(s) - n
<1>1. Len(s) \in Nat /\ \A i \in 1 .. Len(s) : s[i] \in S
  BY LenProperties, ElementOfSeq
<1>2. /\ SubSeq(s, 1, n) \in Seq(S)
      /\ Len(SubSeq(s, 1, n)) = IF 1 <= n THEN n - 1 + 1 ELSE 0
  <2>1. \A i \in 1 .. n : s[i] \in S
    BY <1>1, SMT
  <2>2. 1 \in Int /\ n \in Int
    BY SMT
  <2>3. QED
    BY <2>1, <2>2, SubSeqProperties, SMT
<1>3. /\ SubSeq(s, n + 1, Len(s)) \in Seq(S)
      /\ Len(SubSeq(s, n + 1, Len(s)))
           = IF n + 1 <= Len(s) THEN Len(s) - (n + 1) + 1 ELSE 0
  <2>1. \A i \in n + 1 .. Len(s) : s[i] \in S
    BY <1>1, SMT
  <2>2. n + 1 \in Int /\ Len(s) \in Int
    BY <1>1, SMT
  <2>3. QED
    BY <2>1, <2>2, SubSeqProperties, Zenon
<1>4. QED
  BY <1>1, <1>2, <1>3, SMT

-----------------------------------------------------------------------------
\* The variables that have nothing to do with the window.
Rest ==
  /\ frame \in Frames /\ at \in 0 .. FrameLen - 1
  /\ flushes \in 0 .. 3
  /\ reader \in {"idle", "speed", "power", "done"}
  /\ faults \in 0 .. MaxFaults

Bytes == tty \in Seq(Byte) /\ buf \in Seq(Byte)

\* buf and what is missing of it make a frame.
Window ==
  /\ Len(tty) \in 0 .. TtyMax
  /\ pc \in {"flush", "read", "check", "torque", "speed", "power", "broken"}
  /\ Len(buf) \in Nat
  /\ rest_len = FrameLen - Len(buf) /\ rest_len \in 0 .. FrameLen
  /\ pc \in {"check", "torque", "speed", "power"} => rest_len = 0
  /\ flushes > 0 \/ pc # "flush"

Values == g_torque \in Int /\ g_speed \in Nat /\ g_power \in Int

\* Each action keeps the counters, the line and the call in their types.
LEMMA RestKept == ASSUME Rest, Window, [SensorNext]_sensorVars PROVE Rest'
<1> USE SensorAssumption DEF Rest, FrameLen
<1>1. CASE Transmit \/ LoseByte
  <2>1. /\ at' = (at + 1) % 6
        /\ frame' \in Frames
        /\ UNCHANGED <<flushes, reader>>
        /\ faults' = faults \/ (faults < MaxFaults /\ faults' = faults + 1)
    BY <1>1, SMT DEF Transmit, LoseByte, NextByte, thread, call
  <2>2. QED
    BY <2>1, SMT
<1>2. CASE Flush
  BY <1>2, SMT DEF Flush, StartFrame, wire, call, Window
<1>3. CASE Receive \/ ReadFails \/ Check
  BY <1>3, SMT DEF Receive, ReadFails, Check, wire, call
<1>4. CASE StoreTorque \/ StoreSpeed \/ StorePower \/ get_dy200_info
            \/ UNCHANGED sensorVars
  BY <1>4, SMT DEF StoreTorque, StoreSpeed, StorePower, get_dy200_info,
     LoadTorque, LoadSpeed, LoadPower, Return, sensorVars, wire, call, thread
<1>5. QED
  BY <1>1, <1>2, <1>3, <1>4, Zenon DEF SensorNext, Dy200

\* Whatever length read() returns, the window ends at the end of the frame.
LEMMA WindowKept ==
  ASSUME Rest, Bytes, Window, [SensorNext]_sensorVars PROVE Bytes' /\ Window'
<1>0. Len(tty) \in Nat /\ Len(buf) \in Nat /\ TtyMax \in Nat
  BY LenProperties, SensorAssumption DEF Bytes
<1>e. <<>> \in Seq(Byte) /\ Len(<<>>) = 0
  BY EmptySeq
<1>1. CASE Transmit
  <2>1. frame[at + 1] \in Byte
    <3>1. frame \in Seq(Byte) /\ Len(frame) = 6
      BY SensorAssumption, Zenon DEF Rest, FrameLen
    <3>2. at + 1 \in 1 .. 6
      BY SMT DEF Rest, FrameLen
    <3>3. QED
      BY <3>1, <3>2, ElementOfSeq, Zenon
  <2>2. /\ Len(tty) < TtyMax /\ tty' = Append(tty, frame[at + 1])
        /\ pc' = pc /\ flushes' = flushes /\ buf' = buf /\ rest_len' = rest_len
    BY <1>1, SMT DEF Transmit, thread
  <2>3. tty' \in Seq(Byte) /\ Len(tty') = Len(tty) + 1
    BY <2>1, <2>2, AppendProperties, Zenon DEF Bytes
  <2>4. Bytes'
    BY <2>2, <2>3, Zenon DEF Bytes
  <2>5. Window'
    BY <1>0, <2>2, <2>3, SMT DEF Window, FrameLen
  <2>6. QED
    BY <2>4, <2>5
<1>2. CASE Flush
  <2>1. /\ pc = "flush" /\ tty' = <<>> /\ flushes' = flushes - 1
        /\ IF flushes > 1 THEN pc' = pc /\ buf' = buf /\ rest_len' = rest_len
           ELSE pc' = "read" /\ buf' = <<>> /\ rest_len' = 6
    BY <1>2, SMT DEF Flush, StartFrame, FrameLen
  <2>2. Bytes' /\ Len(tty') = 0
    BY <2>1, <1>e, Zenon DEF Bytes
  <2>3. \/ flushes > 1 /\ Len(buf') = Len(buf) /\ rest_len' = rest_len /\ pc' = pc
        \/ flushes <= 1 /\ Len(buf') = 0 /\ rest_len' = 6 /\ pc' = "read"
    <3>1. flushes > 1 \/ flushes <= 1
      BY SMT DEF Rest
    <3>2. QED
      BY <2>1, <3>1, <1>e, Zenon
  <2>4. Window'
    <3>1. flushes' = flushes - 1 /\ flushes \in 0 .. 3 /\ pc = "flush"
      BY <2>1 DEF Rest
    <3>2. Len(tty') = 0
      BY <2>2
    <3>3. CASE flushes > 1
      <4>1. Len(buf') = Len(buf) /\ rest_len' = rest_len /\ pc' = "flush"
        BY <2>3, <3>1, <3>3, SMT
      <4>2. flushes' > 0
        BY <3>1, <3>3, SMT
      <4>3. Len(tty') \in 0 .. TtyMax
        BY <1>0, <3>2, SMT
      <4>4. QED
        BY <4>1, <4>2, <4>3, Zenon DEF Window
    <3>4. CASE flushes <= 1
      BY <1>0, <2>3, <3>1, <3>2, <3>4, SMT DEF Window, FrameLen
    <3>5. QED
      BY <3>1, <3>3, <3>4, SMT
  <2>5. QED
    BY <2>2, <2>4
<1>3. CASE Receive
  <2> DEFINE n == IF Len(tty) < rest_len THEN Len(tty) ELSE rest_len
  <2>1. /\ pc = "read"
        /\ buf' = buf \o SubSeq(tty, 1, n)
        /\ tty' = SubSeq(tty, n + 1, Len(tty))
        /\ rest_len' = rest_len - n
        /\ pc' = IF rest_len' = 0 THEN "check" ELSE "read"
        /\ flushes' = flushes
    BY <1>3, Zenon DEF Receive
  <2>2. n \in 0 .. Len(tty) /\ n <= rest_len
    <3>1. rest_len \in 0 .. 6
      BY SMT DEF Window, FrameLen
    <3>2. QED
      BY <1>0, <3>1, SMT
  <2> HIDE DEF n
  <2>3. /\ SubSeq(tty, 1, n) \in Seq(Byte) /\ Len(SubSeq(tty, 1, n)) = n
        /\ SubSeq(tty, n + 1, Len(tty)) \in Seq(Byte)
        /\ Len(SubSeq(tty, n + 1, Len(tty))) = Len(tty) - n
    BY <2>2, Split DEF Bytes
  <2>4. buf' \in Seq(Byte) /\ Len(buf') = Len(buf) + n
    BY <2>1, <2>3, ConcatProperties DEF Bytes
  <2>5. tty' \in Seq(Byte) /\ Len(tty') = Len(tty) - n
    BY <2>1, <2>3
  <2>6. Len(buf') = Len(buf) + n /\ Len(tty') = Len(tty) - n
    BY <2>4, <2>5
  <2>7. Window'
    BY <1>0, <2>1, <2>2, <2>6, SMT DEF Window, FrameLen
  <2>8. QED
    BY <2>4, <2>5, <2>7, Zenon DEF Bytes
<1>4. CASE ReadFails
  <2>1. CASE buf # <<>>
    <3>1. /\ buf' = SubSeq(buf, 1, Len(buf) - 1)
          /\ rest_len' = rest_len + 1
          /\ tty' = tty /\ pc' = pc /\ flushes' = flushes /\ pc = "read"
      BY <1>4, <2>1, Zenon DEF ReadFails
    <3>2. Len(buf) \in Nat \ {0}
      BY <2>1, EmptySeq DEF Bytes
    <3>3. buf' \in Seq(Byte) /\ Len(buf') = Len(buf) - 1
      <4>1. Len(buf) - 1 \in 0 .. Len(buf)
        BY <3>2, SMT
      <4>2. QED
        BY <3>1, <4>1, Split DEF Bytes
    <3>4. Len(buf') = Len(buf) - 1
      BY <3>3
    <3>5. Window'
      <4>1. rest_len' = rest_len + 1 /\ Len(tty') = Len(tty) /\ pc' = "read"
        BY <3>1
      <4>2. QED
        BY <3>2, <3>4, <4>1, SMT DEF Window, FrameLen
    <3>6. QED
      BY <3>1, <3>3, <3>5, Zenon DEF Bytes
  <2>2. CASE buf = <<>>
    <3>1. /\ tty' = tty /\ buf' = buf /\ pc' = "broken"
          /\ flushes' = flushes /\ rest_len' = rest_len
      BY <1>4, <2>2, SMT DEF ReadFails
    <3>2. QED
      BY <3>1, SMT DEF Bytes, Window
  <2>3. QED
    BY <2>1, <2>2, Zenon
<1>5. CASE StorePower
  <2>1. /\ tty' = tty /\ flushes' = flushes
        /\ pc' = "read" /\ buf' = <<>> /\ rest_len' = 6
    BY <1>5, SMT DEF StorePower, StartFrame, FrameLen
  <2>2. Bytes' /\ Len(tty') = Len(tty) /\ Len(buf') = 0
    BY <2>1, <1>e, Zenon DEF Bytes
  <2>3. Window'
    BY <2>1, <2>2, SMT DEF Window, FrameLen
  <2>4. QED
    BY <2>2, <2>3
<1>6. CASE Check \/ StoreTorque \/ StoreSpeed
  <2>1. /\ tty' = tty /\ buf' = buf /\ rest_len' = rest_len
        /\ pc \in {"check", "torque", "speed"}
        /\ \/ pc' \in {"torque", "speed", "power"}
           \/ pc' = "flush" /\ flushes' = 3
    BY <1>6, SMT DEF Check, StoreTorque, StoreSpeed
  <2>2. QED
    BY <2>1, SMT DEF Bytes, Window
<1>7. CASE LoseByte \/ get_dy200_info \/ UNCHANGED sensorVars
  <2>1. /\ tty' = tty /\ pc' = pc /\ flushes' = flushes
        /\ buf' = buf /\ rest_len' = rest_len
    BY <1>7, SMT DEF LoseByte, get_dy200_info, LoadTorque, LoadSpeed,
       LoadPower, Return, sensorVars, thread
  <2>2. QED
    BY <2>1, SMT DEF Bytes, Window
<1>8. QED
  BY <1>1, <1>2, <1>3, <1>4, <1>5, <1>6, <1>7, Zenon DEF SensorNext, Dy200

-----------------------------------------------------------------------------
\* Every step keeps the variables in their types: no store behind the sixth
\* byte, for every pattern of lengths and failures of read().
THEOREM SensorTypeCorrect == SensorSpec => []SensorTypeOK
<1> DEFINE Typed == Rest /\ Bytes /\ Window /\ Values /\ disturbed \in BOOLEAN
<1>1. SensorInit => Typed
  <2> SUFFICES ASSUME SensorInit PROVE Typed
    OBVIOUS
  <2>1. <<>> \in Seq(Byte) /\ Len(<<>>) = 0
    BY EmptySeq
  <2>2. Rest /\ Bytes /\ Window /\ Values
    BY <2>1, SensorAssumption, SMT
       DEF SensorInit, Rest, Bytes, Window, Values, FrameLen
  <2>3. disturbed \in BOOLEAN
    BY Zenon DEF SensorInit
  <2>4. QED
    BY <2>2, <2>3
<1>2. Typed /\ [SensorNext]_sensorVars => Typed'
  <2> SUFFICES ASSUME Rest, Bytes, Window, Values, disturbed \in BOOLEAN,
                      [SensorNext]_sensorVars
               PROVE  Typed'
    OBVIOUS
  <2>1. Rest' /\ Bytes' /\ Window'
    BY RestKept, WindowKept
  <2>2. Values'
    <3>1. CASE StoreTorque \/ StoreSpeed
      <4>1. Len(buf) = FrameLen
        BY <3>1, SMT DEF StoreTorque, StoreSpeed, Window, FrameLen
      <4>2. Torque(buf) \in Int /\ Speed(buf) \in Nat
        BY <4>1, SampleTyped DEF Bytes
      <4>3. QED
        BY <3>1, <4>2, SMT DEF StoreTorque, StoreSpeed, Values
    <3>2. CASE StorePower
      BY <3>2, SMT DEF StorePower, Values
    <3>3. CASE UNCHANGED published
      BY <3>3, SMT DEF published, Values
    <3>4. QED
      BY <3>1, <3>2, <3>3, Zenon DEF SensorNext, Dy200, Transmit, LoseByte,
         Flush, Receive, ReadFails, Check, get_dy200_info, LoadTorque,
         LoadSpeed, LoadPower, Return, sensorVars, published
  <2>3. disturbed' \in BOOLEAN
    <3>1. UNCHANGED disturbed \/ disturbed' = TRUE \/ disturbed' = (at # 0)
      BY Zenon DEF SensorNext, Dy200, Transmit, LoseByte,
         Flush, Receive, ReadFails, Check, StoreTorque, StoreSpeed, StorePower,
         get_dy200_info, LoadTorque, LoadSpeed, LoadPower, Return, sensorVars
    <3>2. QED
      BY <3>1, Zenon
  <2>4. QED
    BY <2>1, <2>2, <2>3
<1>3. SensorSpec => []Typed
  <2> HIDE DEF Typed
  <2>1. QED
    BY <1>1, <1>2, PTL DEF SensorSpec
<1>4. Typed => SensorTypeOK
  BY SMT DEF Rest, Bytes, Window, Values, SensorTypeOK
<1>5. QED
  BY <1>3, <1>4, PTL

-----------------------------------------------------------------------------
(* The strengthening of TripleFresh: which of the three values are already *)
(* those of the frame in the buffer, and that recent has its sample.       *)

Storing == pc \in {"speed", "power"}

Published ==
  /\ g_torque = IF Storing THEN Torque(buf) ELSE last.torque
  /\ g_speed = IF pc = "power" THEN Speed(buf) ELSE last.speed
  /\ g_power = last.power

Record == triple = [torque |-> triple.torque, speed |-> triple.speed, power |-> triple.power]

Seen == reader # "idle" => last \in recent /\ (Storing => Sample(buf) \in recent)

\* Each value that get_dy200_info returns belongs to a sample that was the last
\* one when the call began, or a newer one (torque_sensor.c:113-115, 143-152).
THEOREM TripleAlwaysFresh == SensorSpec => []TripleFresh
<1> DEFINE Inv == Published /\ Record /\ Seen /\ TripleFresh
<1>1. SensorInit => Inv
  BY SMT DEF SensorInit, Published, Record, Seen, TripleFresh, Storing, NoSample
<1>2. Inv /\ [SensorNext]_sensorVars => Inv'
  <2> SUFFICES ASSUME Published, Record, Seen, TripleFresh, [SensorNext]_sensorVars
               PROVE  Inv'
    OBVIOUS
  <2> USE DEF Published, Record, Seen, TripleFresh, Fresh, Storing
  <2>1. CASE StoreTorque
    BY <2>1, SMT DEF StoreTorque
  <2>2. CASE StoreSpeed
    BY <2>2, SMT DEF StoreSpeed, call
  <2>3. CASE StorePower
    <3>1. /\ pc = "power" /\ pc' = "read" /\ last' = Sample(buf)
          /\ g_power' = g_torque * g_speed /\ UNCHANGED <<g_torque, g_speed, call>>
      BY <2>3, SMT DEF StorePower, StartFrame
    <3>2. /\ Sample(buf).torque = Torque(buf) /\ Sample(buf).speed = Speed(buf)
          /\ Sample(buf).power = Torque(buf) * Speed(buf)
      BY SMT DEF Sample
    <3>3. QED
      BY <3>1, <3>2, SMT DEF call
  <2>4. CASE LoadTorque
    <3>1. /\ triple' = [NoSample EXCEPT !.torque = g_torque] /\ reader' = "speed"
          /\ recent' = {last} \cup (IF pc \in {"speed", "power"} THEN {Sample(buf)} ELSE {})
          /\ UNCHANGED <<published, pc, buf, last>>
      BY <2>4, SMT DEF LoadTorque, thread
    <3>2. triple' = [torque |-> g_torque, speed |-> 0, power |-> 0]
      BY <3>1, SMT DEF NoSample
    <3>3. Sample(buf).torque = Torque(buf)
      BY SMT DEF Sample
    <3>4. \E s \in recent' : s.torque = g_torque
      BY <3>1, <3>3, SMT
    <3>5. Fresh(triple.torque, "torque")'
      BY <3>2, <3>4, SMT
    <3>6. Record'
      BY <3>2, SMT
    <3>7. QED
      BY <3>1, <3>5, <3>6, SMT DEF published
  <2>5. CASE LoadSpeed
    <3>1. /\ triple' = [triple EXCEPT !.speed = g_speed]
          /\ reader = "speed" /\ reader' = "power"
          /\ UNCHANGED <<published, pc, buf, last, recent>>
      BY <2>5, SMT DEF LoadSpeed, thread
    <3>2. triple' = [torque |-> triple.torque, speed |-> g_speed, power |-> triple.power]
      BY <3>1, SMT
    <3>3. Sample(buf).speed = Speed(buf)
      BY SMT DEF Sample
    <3>4. \E s \in recent' : s.speed = g_speed
      BY <3>1, <3>3, SMT
    <3>5. QED
      BY <3>1, <3>2, <3>4, SMT DEF published
  <2>10. CASE LoadPower
    <3>1. /\ triple' = [triple EXCEPT !.power = g_power]
          /\ reader = "power" /\ reader' = "done"
          /\ UNCHANGED <<published, pc, buf, last, recent>>
      BY <2>10, SMT DEF LoadPower, thread
    <3>2. triple' = [torque |-> triple.torque, speed |-> triple.speed, power |-> g_power]
      BY <3>1, SMT
    <3>3. QED
      BY <3>1, <3>2, SMT DEF published
  <2>6. CASE Return
    BY <2>6, SMT DEF Return, thread, published, NoSample
  <2>7. CASE Flush \/ Receive \/ ReadFails \/ Check
    <3>1. pc \notin {"speed", "power"} /\ pc' \notin {"speed", "power"}
          /\ UNCHANGED <<published, call, last>>
      BY <2>7, SMT DEF Flush, StartFrame, Receive, ReadFails, Check
    <3>2. QED
      BY <3>1, SMT DEF published, call
  <2>8. CASE Transmit \/ LoseByte \/ UNCHANGED sensorVars
    <3>1. UNCHANGED <<pc, buf, published, call, last>>
      BY <2>8, SMT DEF Transmit, LoseByte, sensorVars, thread
    <3>2. QED
      BY <3>1, SMT DEF published, call
  <2>9. QED
    BY <2>1, <2>2, <2>3, <2>4, <2>5, <2>6, <2>7, <2>8, <2>10, Zenon
       DEF SensorNext, Dy200, get_dy200_info
<1>3. SensorSpec => []Inv
  <2> HIDE DEF Inv
  <2>1. QED
    BY <1>1, <1>2, PTL DEF SensorSpec
<1>4. QED
  BY <1>3, PTL

-----------------------------------------------------------------------------
(* The strengthening of FlushExplained: until a fault, what was received   *)
(* since the last frame is whole frames and the beginning of the one that  *)
(* is on the wire.                                                         *)

\* Byte j of what was received, in the buffer or still in the queue.
Received(j) == IF j <= Len(buf) THEN buf[j] ELSE tty[j - Len(buf)]

Whole(k) == \E f \in Frames : \A i \in 1 .. 6 : Received(6 * k + i) = f[i]

Aligned(q) ==
  /\ Len(buf) + Len(tty) = 6 * q + at
  /\ \A k \in 0 .. q - 1 : Whole(k)
  /\ \A i \in 1 .. at : Received(6 * q + i) = frame[i]

Undisturbed ==
  disturbed \/ (pc \notin {"flush", "broken"} /\ \E q \in Nat : Aligned(q))

\* The next byte of the frame on the wire.
LEMMA TransmitAligns ==
  ASSUME Rest, Bytes, Window, Transmit, NEW q \in Nat, Aligned(q)
  PROVE  \E r \in Nat : Aligned(r)'
<1>0. Len(tty) \in Nat /\ Len(buf) \in Nat /\ at \in 0 .. 5 /\ frame \in Frames
  BY SMT, LenProperties DEF Bytes, Rest, FrameLen
<1>1. /\ tty' = Append(tty, frame[at + 1])
      /\ at' = (at + 1) % 6 /\ buf' = buf
      /\ (at # 5 => frame' = frame)
  BY SMT DEF Transmit, NextByte, thread, FrameLen
<1>2. /\ Len(tty') = Len(tty) + 1 /\ Len(buf') = Len(buf)
      /\ tty'[Len(tty) + 1] = frame[at + 1]
      /\ \A i \in 1 .. Len(tty) : tty'[i] = tty[i]
  BY <1>1, SMT DEF Bytes
<1>3. \A j \in 1 .. 6 * q + at : Received(j)' = Received(j)
  BY <1>0, <1>1, <1>2, SMT DEF Received, Aligned
<1>4. ASSUME NEW i \in Nat, i = at + 1 PROVE Received(6 * q + i)' = frame[i]
  <2>1. Len(buf) + Len(tty) = 6 * q + at
    BY Zenon DEF Aligned
  <2>2. /\ ~(6 * q + i <= Len(buf'))
        /\ (6 * q + i) - Len(buf') = Len(tty) + 1
    BY <1>0, <1>2, <1>4, <2>1, SMT
  <2>3. Received(6 * q + i)' = tty'[(6 * q + i) - Len(buf')]
    BY <2>2, Zenon DEF Received
  <2>4. tty'[(6 * q + i) - Len(buf')] = frame[i]
    BY <1>2, <1>4, <2>2, Zenon
  <2>5. QED
    BY <2>3, <2>4
<1>5. ASSUME NEW k \in 0 .. q - 1 PROVE Whole(k)'
  <2>1. PICK f \in Frames : \A i \in 1 .. 6 : Received(6 * k + i) = f[i]
    BY DEF Aligned, Whole
  <2>2. \A i \in 1 .. 6 : 6 * k + i \in 1 .. 6 * q + at
    BY <1>0, SMT
  <2>3. \A i \in 1 .. 6 : Received(6 * k + i)' = f[i]
    BY <2>1, <2>2, <1>3
  <2>4. QED
    BY <2>3 DEF Whole
<1>6. \A i \in 1 .. at + 1 : Received(6 * q + i)' = frame[i]
  <2>1. ASSUME NEW i \in 1 .. at PROVE Received(6 * q + i)' = frame[i]
    <3>1. 6 * q + i \in 1 .. 6 * q + at
      BY <1>0, SMT
    <3>2. QED
      BY <3>1, <1>3 DEF Aligned
  <2>2. \A i \in 1 .. at + 1 : i \in 1 .. at \/ i = at + 1
    BY <1>0, SMT
  <2>3. ASSUME NEW i \in 1 .. at + 1 PROVE Received(6 * q + i)' = frame[i]
    <3>1. CASE i \in 1 .. at
      BY <3>1, <2>1
    <3>2. CASE i = at + 1
      BY <3>2, <1>4, <1>0, SMT
    <3>3. QED
      BY <2>2, <3>1, <3>2, Zenon
  <2>4. QED
    BY <2>3
<1>7. CASE at = 5
  <2>1. at' = 0 /\ at + 1 = 6
    BY <1>1, <1>7, SMT
  <2>2. Whole(q)'
    BY <1>0, <1>6, <2>1 DEF Whole
  <2>3. \A k \in 0 .. (q + 1) - 1 : k \in 0 .. q - 1 \/ k = q
    BY SMT
  <2>4. Len(buf') + Len(tty') = 6 * (q + 1) + at'
    BY <1>0, <1>2, <1>7, <2>1, SMT DEF Aligned
  <2>5. \A i \in 1 .. at' : FALSE
    BY <2>1, SMT
  <2>6. q + 1 \in Nat /\ Aligned(q + 1)'
    BY <2>2, <2>3, <2>4, <2>5, <1>5, SMT DEF Aligned
  <2>7. QED
    BY <2>6
<1>8. CASE at # 5
  <2>1. at' = at + 1 /\ frame' = frame
    BY <1>0, <1>1, <1>8, SMT
  <2>2. Len(buf') + Len(tty') = 6 * q + at'
    BY <1>0, <1>2, <2>1, SMT DEF Aligned
  <2>3. Aligned(q)'
    BY <1>5, <1>6, <2>1, <2>2 DEF Aligned
  <2>4. QED
    BY <2>3
<1>9. QED
  BY <1>7, <1>8

\* Bytes read move from the queue into the buffer.
LEMMA ReceiveAligns ==
  ASSUME Rest, Bytes, Window, Receive, NEW q \in Nat, Aligned(q)
  PROVE  Aligned(q)'
<1> DEFINE n == IF Len(tty) < rest_len THEN Len(tty) ELSE rest_len
<1>0. Len(tty) \in Nat /\ Len(buf) \in Nat /\ rest_len \in 0 .. 6
      /\ at \in 0 .. 5
  BY SMT, LenProperties DEF Bytes, Window, FrameLen, Rest
<1>1. /\ buf' = buf \o SubSeq(tty, 1, n)
      /\ tty' = SubSeq(tty, n + 1, Len(tty))
      /\ UNCHANGED wire
  BY Zenon DEF Receive
<1>2. n \in 0 .. Len(tty)
  BY <1>0, SMT
<1> HIDE DEF n
<1>3. /\ Len(buf') = Len(buf) + n /\ Len(tty') = Len(tty) - n
      /\ \A i \in 1 .. Len(buf) : buf'[i] = buf[i]
      /\ \A i \in 1 .. n : buf'[Len(buf) + i] = tty[i]
      /\ \A i \in 1 .. Len(tty) - n : tty'[i] = tty[n + i]
  BY <1>0, <1>1, <1>2, SMT DEF Bytes
<1>4. ASSUME NEW j \in 1 .. Len(buf) + Len(tty)
      PROVE  Received(j)' = Received(j)
  <2>1. CASE j <= Len(buf)
    BY <1>0, <1>2, <1>3, <2>1, SMT DEF Received
  <2>2. CASE j > Len(buf) /\ j <= Len(buf) + n
    <3>1. j - Len(buf) \in 1 .. n /\ Len(buf) + (j - Len(buf)) = j
      BY <1>0, <1>2, <2>2, SMT
    <3>2. QED
      BY <1>0, <1>2, <1>3, <2>2, <3>1, SMT DEF Received
  <2>3. CASE j > Len(buf) + n
    <3>1. /\ j - Len(buf') \in 1 .. Len(tty) - n
          /\ n + (j - Len(buf')) = j - Len(buf)
          /\ ~(j <= Len(buf')) /\ ~(j <= Len(buf))
      BY <1>0, <1>2, <1>3, <2>3, SMT
    <3>2. QED
      BY <1>3, <3>1, Zenon DEF Received
  <2>4. QED
    BY <1>0, <1>2, <2>1, <2>2, <2>3, SMT
<1>5. ASSUME NEW k \in 0 .. q - 1 PROVE Whole(k)'
  <2>1. PICK f \in Frames : \A i \in 1 .. 6 : Received(6 * k + i) = f[i]
    BY DEF Aligned, Whole
  <2>2. \A i \in 1 .. 6 : 6 * k + i \in 1 .. Len(buf) + Len(tty)
    BY <1>0, SMT DEF Aligned
  <2>3. \A i \in 1 .. 6 : Received(6 * k + i)' = f[i]
    BY <2>1, <2>2, <1>4
  <2>4. QED
    BY <2>3 DEF Whole
<1>6. ASSUME NEW i \in 1 .. at PROVE Received(6 * q + i)' = frame[i]
  <2>1. 6 * q + i \in 1 .. Len(buf) + Len(tty)
    BY <1>0, SMT DEF Aligned
  <2>2. QED
    BY <2>1, <1>4 DEF Aligned
<1>7. Len(buf') + Len(tty') = 6 * q + at
  <2>1. Len(buf) + Len(tty) = 6 * q + at
    BY Zenon DEF Aligned
  <2>2. Len(buf') = Len(buf) + n /\ Len(tty') = Len(tty) - n
    BY <1>3
  <2>3. QED
    BY <1>0, <1>2, <2>1, <2>2, SMT
<1>8. QED
  BY <1>1, <1>5, <1>6, <1>7 DEF Aligned, wire

\* The buffer is emptied of its frame: the next one begins at its end.
LEMMA TakenAligns ==
  ASSUME Rest, Bytes, Window, StorePower, NEW q \in Nat, Aligned(q)
  PROVE  \E r \in Nat : Aligned(r)'
<1>0. Len(tty) \in Nat /\ Len(buf) = 6 /\ at \in 0 .. 5
  BY SMT, LenProperties DEF Bytes, Window, StorePower, FrameLen, Rest
<1>1. buf' = <<>> /\ tty' = tty /\ UNCHANGED wire
  BY SMT DEF StorePower, StartFrame
<1>2. Len(buf') = 0
  BY <1>1, EmptySeq
<1>3. q - 1 \in Nat
  BY <1>0, SMT DEF Aligned
<1>4. ASSUME NEW j \in Nat \ {0} PROVE Received(j)' = Received(j + 6)
  BY <1>0, <1>1, <1>2, SMT DEF Received
<1>5. ASSUME NEW k \in 0 .. (q - 1) - 1 PROVE Whole(k)'
  <2>1. k + 1 \in 0 .. q - 1
    BY SMT
  <2>2. PICK f \in Frames : \A i \in 1 .. 6 : Received(6 * (k + 1) + i) = f[i]
    BY <2>1 DEF Aligned, Whole
  <2>3. \A i \in 1 .. 6 : /\ 6 * k + i \in Nat \ {0}
                          /\ 6 * (k + 1) + i = (6 * k + i) + 6
    BY SMT
  <2>4. \A i \in 1 .. 6 : Received(6 * k + i)' = f[i]
    BY <2>2, <2>3, <1>4
  <2>5. QED
    BY <2>4 DEF Whole
<1>6. ASSUME NEW i \in 1 .. at PROVE Received(6 * (q - 1) + i)' = frame[i]
  <2>1. 6 * (q - 1) + i \in Nat \ {0} /\ 6 * q + i = (6 * (q - 1) + i) + 6
    BY <1>0, <1>3, SMT
  <2>2. QED
    BY <2>1, <1>4 DEF Aligned
<1>7. Len(buf') + Len(tty') = 6 * (q - 1) + at
  BY <1>0, <1>1, <1>2, SMT DEF Aligned
<1>8. Aligned(q - 1)'
  BY <1>1, <1>5, <1>6, <1>7 DEF Aligned, wire
<1>9. QED
  BY <1>3, <1>8

\* A full buffer that is aligned is a frame.
LEMMA BufferIsFrame ==
  ASSUME Rest, Bytes, Window, pc = "check", NEW q \in Nat, Aligned(q)
  PROVE  buf \in Frames
<1>0. Len(buf) = 6 /\ Len(tty) \in Nat /\ at \in 0 .. 5
  BY SMT, LenProperties DEF Window, FrameLen, Bytes, Rest
<1>1. 0 \in 0 .. q - 1
  BY <1>0, SMT DEF Aligned
<1>2. PICK f \in Frames : \A i \in 1 .. 6 : Received(6 * 0 + i) = f[i]
  BY <1>1 DEF Aligned, Whole
<1>3. \A i \in 1 .. 6 : buf[i] = f[i]
  <2>1. \A i \in 1 .. 6 : 6 * 0 + i = i /\ i <= Len(buf)
    BY <1>0, SMT
  <2>2. QED
    BY <1>2, <2>1, Zenon DEF Received
<1>4. f \in Seq(Byte) /\ Len(f) = 6
  BY SensorAssumption, Zenon DEF FrameLen
<1>5. buf = f
  BY <1>0, <1>3, <1>4, SeqEqual, Zenon DEF Bytes
<1>6. QED
  BY <1>5

\* The initial state is disturbed; a fault or a flush within a frame makes it so.
LEMMA StaysUndisturbed ==
  ASSUME Rest, Bytes, Window, Undisturbed, [SensorNext]_sensorVars,
         \A f \in Frames : CrcOK(f)
  PROVE  Undisturbed'
<1> SUFFICES ASSUME ~disturbed' PROVE Undisturbed'
  BY Zenon DEF Undisturbed
<1>1. CASE Flush
  <2>1. CASE flushes > 1
    <3>1. pc = "flush" /\ disturbed' = disturbed
      BY <1>1, <2>1, Zenon DEF Flush
    <3>2. QED
      BY <3>1, Zenon DEF Undisturbed
  <2>2. CASE ~(flushes > 1)
    <3>1. /\ disturbed' = (at # 0) /\ tty' = <<>> /\ buf' = <<>> /\ pc' = "read"
          /\ UNCHANGED wire
      BY <1>1, <2>2, Zenon DEF Flush, StartFrame
    <3>2. at' = 0
      BY <3>1, Zenon DEF wire
    <3>3. Len(tty') = 0 /\ Len(buf') = 0
      BY <3>1, EmptySeq
    <3>4. Aligned(0)'
      BY <3>2, <3>3, SMT DEF Aligned
    <3>5. pc' \notin {"flush", "broken"}
      BY <3>1, SMT
    <3>6. QED
      BY <3>4, <3>5, SMT DEF Undisturbed
  <2>3. QED
    BY <2>1, <2>2
<1>2. CASE LoseByte \/ ReadFails
  BY <1>2, Zenon DEF LoseByte, ReadFails
<1>3. ASSUME ~Flush, ~LoseByte, ~ReadFails PROVE Undisturbed'
  <2>1. disturbed' = disturbed
    BY <1>3, Zenon DEF SensorNext, Dy200, Transmit, Receive, Check, StoreTorque,
       StoreSpeed, StorePower, get_dy200_info, LoadTorque, LoadSpeed,
       LoadPower, Return, sensorVars
  <2>2. PICK q \in Nat : Aligned(q)
    BY <2>1, Zenon DEF Undisturbed
  <2>3. pc \notin {"flush", "broken"}
    BY <2>1, Zenon DEF Undisturbed
  <2>4. CASE Transmit
    <3>1. pc' = pc
      BY <2>4, Zenon DEF Transmit, thread
    <3>2. QED
      BY <2>2, <2>3, <2>4, <3>1, TransmitAligns, Zenon DEF Undisturbed
  <2>5. CASE Receive
    <3>1. pc' \notin {"flush", "broken"}
      BY <2>5, SMT DEF Receive
    <3>2. QED
      BY <2>2, <2>5, <3>1, ReceiveAligns, Zenon DEF Undisturbed
  <2>6. CASE StorePower
    <3>1. pc' \notin {"flush", "broken"}
      BY <2>6, SMT DEF StorePower, StartFrame
    <3>2. QED
      BY <2>2, <2>6, <3>1, TakenAligns, Zenon DEF Undisturbed
  <2>7. CASE \/ Check \/ StoreTorque \/ StoreSpeed
             \/ get_dy200_info \/ UNCHANGED sensorVars
    <3>1. UNCHANGED <<wire, tty, buf>>
      BY <2>7, Zenon DEF Check, StoreTorque, StoreSpeed, get_dy200_info,
         LoadTorque, LoadSpeed, LoadPower, Return, sensorVars, thread
    <3>2. Aligned(q)'
      BY <2>2, <3>1, Zenon DEF Aligned, Whole, Received, wire
    <3>3. Check => CrcOK(buf)
      BY <2>2, BufferIsFrame, Zenon DEF Check
    <3>4. pc' \notin {"flush", "broken"}
      BY <2>3, <2>7, <3>3, SMT DEF Check, StoreTorque, StoreSpeed,
         get_dy200_info, LoadTorque, LoadSpeed, LoadPower, Return, sensorVars,
         thread
    <3>5. QED
      BY <3>2, <3>4, Zenon DEF Undisturbed
  <2>8. QED
    BY <1>3, <2>4, <2>5, <2>6, <2>7, Zenon DEF SensorNext, Dy200
<1>4. QED
  BY <1>1, <1>2, <1>3

\* If the sensor's frames carry the right CRC, a flush follows only a fault or a
\* flush that cut a frame (torque_sensor.c:97): no frame that arrives whole is
\* thrown away.
THEOREM FlushAlwaysExplained ==
  ASSUME \A f \in Frames : CrcOK(f)
  PROVE  SensorSpec => []FlushExplained
<1> DEFINE Inv == Rest /\ Bytes /\ Window /\ Undisturbed
<1>1. SensorInit => Inv
  <2> SUFFICES ASSUME SensorInit PROVE Inv
    OBVIOUS
  <2>1. <<>> \in Seq(Byte) /\ Len(<<>>) = 0
    BY EmptySeq
  <2>2. Rest /\ Bytes /\ Window
    BY <2>1, SensorAssumption, SMT
       DEF SensorInit, Rest, Bytes, Window, FrameLen
  <2>3. Undisturbed
    BY Zenon DEF SensorInit, Undisturbed
  <2>4. QED
    BY <2>2, <2>3
<1>2. Inv /\ [SensorNext]_sensorVars => Inv'
  BY RestKept, WindowKept, StaysUndisturbed
<1>3. SensorSpec => []Inv
  <2> HIDE DEF Inv
  <2>1. QED
    BY <1>1, <1>2, PTL DEF SensorSpec
<1>4. Inv => FlushExplained
  BY Zenon DEF Undisturbed, FlushExplained
<1>5. QED
  BY <1>3, <1>4, PTL

-----------------------------------------------------------------------------
(* The strengthening of PublishedWasSent: what the thread holds and has    *)
(* yet to read are bytes of the frames sent, in the order they were sent,  *)
(* and only as many are missing between them as there were faults.         *)

\* The bytes of the buffer that still count: a flush will drop them all.
Kept == IF pc \in {"flush", "broken"} THEN 0 ELSE Len(buf)
Count == Kept + Len(tty)
Unread(i) == IF i <= Kept THEN buf[i] ELSE tty[i - Kept]

\* The next byte on the wire is byte n of the frames sent.
OnWire(sent, n) == n % 6 = at /\ sent[n \div 6] = frame

\* The i-th of size bytes is byte o[i] of the frames sent, of which byte n is
\* next; at most e of those sent since the first are missing.
Placed(o, n, size, e) ==
  /\ \A i \in 1 .. size : n - o[i] >= size + 1 - i /\ n - o[i] <= size + 1 - i + e
  /\ \A i, j \in 1 .. size : i <= j => o[j] - o[i] >= j - i

Told(sent, o) == \A i \in 1 .. Count : Unread(i) = OnLine(sent, o[i])

InOrder ==
  \E sent \in [Nat -> Frames], n \in Nat, o \in [Nat -> Nat] :
    OnWire(sent, n) /\ Told(sent, o) /\ Placed(o, n, Count, faults)

\* A byte is sent and received: it comes last.
LEMMA PlacedNext ==
  ASSUME NEW o \in [Nat -> Nat], NEW n \in Nat, NEW size \in Nat, NEW e \in Nat,
         Placed(o, n, size, e)
  PROVE  Placed([o EXCEPT ![size + 1] = n], n + 1, size + 1, e)
<1> DEFINE p == [o EXCEPT ![size + 1] = n]
<1>1. p[size + 1] = n /\ \A i \in 1 .. size : p[i] = o[i] /\ o[i] \in Nat
  BY SMT
<1> HIDE DEF p
<1>2. \A i \in 1 .. size + 1 : i \in 1 .. size \/ i = size + 1
  BY SMT
<1>3. \A i \in 1 .. size + 1 : (n + 1) - p[i] >= (size + 1) + 1 - i
                               /\ (n + 1) - p[i] <= (size + 1) + 1 - i + e
  <2>1. ASSUME NEW i \in 1 .. size
        PROVE  (n + 1) - p[i] >= (size + 1) + 1 - i
               /\ (n + 1) - p[i] <= (size + 1) + 1 - i + e
    <3>1. n - o[i] >= size + 1 - i /\ n - o[i] <= size + 1 - i + e
      BY Zenon DEF Placed
    <3>2. QED
      BY <1>1, <3>1, SMT
  <2>2. QED
    BY <1>1, <1>2, <2>1, SMT
<1>4. ASSUME NEW i \in 1 .. size + 1, NEW j \in 1 .. size + 1, i <= j
      PROVE  p[j] - p[i] >= j - i
  <2>1. CASE j \in 1 .. size
    <3>1. i \in 1 .. size
      BY <1>4, <2>1, SMT
    <3>2. o[j] - o[i] >= j - i
      BY <1>4, <2>1, <3>1, Zenon DEF Placed
    <3>3. QED
      BY <1>1, <2>1, <3>1, <3>2, Zenon
  <2>2. CASE j = size + 1
    <3>1. CASE i = size + 1
      BY <1>1, <2>2, <3>1, SMT
    <3>2. CASE i \in 1 .. size
      <4>1. n - o[i] >= size + 1 - i
        BY <3>2, Zenon DEF Placed
      <4>2. QED
        BY <1>1, <2>2, <3>2, <4>1, SMT
    <3>3. QED
      BY <1>2, <3>1, <3>2
  <2>3. QED
    BY <1>2, <2>1, <2>2
<1>5. \A i, j \in 1 .. size + 1 : i <= j => p[j] - p[i] >= j - i
  BY <1>4, Zenon
<1>6. Placed(p, n + 1, size + 1, e)
  BY <1>3, <1>5, Zenon DEF Placed
<1>7. QED
  BY <1>6, Zenon DEF p

\* A byte is sent and lost.
LEMMA PlacedLost ==
  ASSUME NEW o \in [Nat -> Nat], NEW n \in Nat, NEW size \in Nat, NEW e \in Nat,
         Placed(o, n, size, e)
  PROVE  Placed(o, n + 1, size, e + 1)
<1>1. \A i \in 1 .. size : o[i] \in Nat
  BY SMT
<1>2. \A i \in 1 .. size : (n + 1) - o[i] >= size + 1 - i
                           /\ (n + 1) - o[i] <= size + 1 - i + (e + 1)
  BY <1>1, SMT DEF Placed
<1>3. \A i, j \in 1 .. size : i <= j => o[j] - o[i] >= j - i
  BY Zenon DEF Placed
<1>4. QED
  BY <1>2, <1>3, Zenon DEF Placed

\* The first k bytes are done with.
LEMMA PlacedAfter ==
  ASSUME NEW o \in [Nat -> Nat], NEW n \in Nat, NEW size \in Nat, NEW e \in Nat,
         NEW k \in 0 .. size, NEW f \in Nat, e <= f, Placed(o, n, size, e)
  PROVE  Placed([i \in Nat |-> o[i + k]], n, size - k, f)
<1> DEFINE p == [i \in Nat |-> o[i + k]]
<1>1. \A i \in 1 .. size - k : p[i] = o[i + k] /\ i + k \in 1 .. size /\ o[i + k] \in Nat
  BY SMT
<1> HIDE DEF p
<1>2. ASSUME NEW i \in 1 .. size - k
      PROVE  n - p[i] >= (size - k) + 1 - i /\ n - p[i] <= (size - k) + 1 - i + f
  <2>1. /\ n - o[i + k] >= size + 1 - (i + k)
        /\ n - o[i + k] <= size + 1 - (i + k) + e
    BY <1>1, Zenon DEF Placed
  <2>2. QED
    BY <1>1, <2>1, SMT
<1>3. ASSUME NEW i \in 1 .. size - k, NEW j \in 1 .. size - k, i <= j
      PROVE  p[j] - p[i] >= j - i
  <2>1. i + k <= j + k
    BY <1>3, SMT
  <2>2. o[j + k] - o[i + k] >= (j + k) - (i + k)
    BY <1>1, <2>1, Zenon DEF Placed
  <2>3. QED
    BY <1>1, <2>2, SMT
<1>4. QED
  BY <1>2, <1>3, Zenon DEF Placed, p

\* The b-th byte is overwritten.
LEMMA PlacedWithout ==
  ASSUME NEW o \in [Nat -> Nat], NEW n \in Nat, NEW size \in Nat, NEW e \in Nat,
         NEW b \in 1 .. size, Placed(o, n, size, e)
  PROVE  Placed([i \in Nat |-> IF i < b THEN o[i] ELSE o[i + 1]], n, size - 1, e + 1)
<1> DEFINE p == [i \in Nat |-> IF i < b THEN o[i] ELSE o[i + 1]]
           at_(i) == IF i < b THEN i ELSE i + 1
<1>1. \A i \in 1 .. size - 1 : p[i] = o[at_(i)] /\ at_(i) \in 1 .. size /\ o[at_(i)] \in Nat
  BY SMT
<1>a. /\ \A i \in 1 .. size - 1 : at_(i) \in {i, i + 1}
      /\ \A i, j \in 1 .. size - 1 :
           i <= j => at_(i) <= at_(j) /\ at_(j) - at_(i) >= j - i
  BY SMT
<1> HIDE DEF p, at_
<1>2. ASSUME NEW i \in 1 .. size - 1
      PROVE  n - p[i] >= (size - 1) + 1 - i /\ n - p[i] <= (size - 1) + 1 - i + (e + 1)
  <2>1. /\ n - o[at_(i)] >= size + 1 - at_(i)
        /\ n - o[at_(i)] <= size + 1 - at_(i) + e
    BY <1>1, Zenon DEF Placed
  <2>2. PICK a : a = at_(i)
    OBVIOUS
  <2>3. a \in {i, i + 1} /\ p[i] = o[a] /\ o[a] \in Nat
    BY <1>1, <1>a, <2>2, Zenon
  <2>4. n - o[a] >= size + 1 - a /\ n - o[a] <= size + 1 - a + e
    BY <2>1, <2>2, Zenon
  <2>5. QED
    BY <2>3, <2>4, SMT
<1>3. ASSUME NEW i \in 1 .. size - 1, NEW j \in 1 .. size - 1, i <= j
      PROVE  p[j] - p[i] >= j - i
  <2>1. at_(i) <= at_(j) /\ at_(j) - at_(i) >= j - i
    BY <1>3, <1>a, Zenon
  <2>2. o[at_(j)] - o[at_(i)] >= at_(j) - at_(i)
    BY <1>1, <2>1, Zenon DEF Placed
  <2>3. QED
    BY <1>1, <2>1, <2>2, SMT
<1>4. QED
  BY <1>2, <1>3, Zenon DEF Placed, p

\* The wire goes on to its next byte; those it sent stay what they are.
LEMMA WireGoesOn ==
  ASSUME Rest, Rest', NextByte, NEW sent \in [Nat -> Frames], NEW n \in Nat,
         OnWire(sent, n)
  PROVE  \E s2 \in [Nat -> Frames] :
           OnWire(s2, n + 1)' /\ \A k \in 0 .. n : OnLine(s2, k) = OnLine(sent, k)
<1>1. n % 6 = at /\ sent[n \div 6] = frame
  BY Zenon DEF OnWire
<1>2. at' = (at + 1) % 6 /\ (at = 5 \/ frame' = frame) /\ frame' \in Frames
  BY SMT DEF NextByte, FrameLen, Rest
<1>3. CASE at = 5
  <2>0. PICK f \in Frames : f = frame'
    BY <1>2
  <2> DEFINE s2 == [sent EXCEPT ![(n \div 6) + 1] = f]
  <2>1. n \div 6 \in Nat /\ (n + 1) \div 6 = (n \div 6) + 1 /\ (n + 1) % 6 = 0
    BY <1>1, <1>3, SMT
  <2>2. s2 \in [Nat -> Frames] /\ s2[(n + 1) \div 6] = frame'
    BY <2>0, <2>1, SMT
  <2>3. \A k \in 0 .. n : k \div 6 \in Nat /\ k \div 6 # (n \div 6) + 1
    BY SMT
  <2>4. \A k \in 0 .. n : s2[k \div 6] = sent[k \div 6]
    BY <2>1, <2>3, Zenon
  <2>5. at' = 0
    BY <1>2, <1>3, SMT
  <2> HIDE DEF s2
  <2>6. OnWire(s2, n + 1)'
    BY <2>1, <2>2, <2>5, Zenon DEF OnWire
  <2>7. \A k \in 0 .. n : OnLine(s2, k) = OnLine(sent, k)
    BY <2>4, Zenon DEF OnLine, FrameLen
  <2>8. QED
    BY <2>2, <2>6, <2>7
<1>4. CASE at # 5
  <2>1. (n + 1) \div 6 = n \div 6 /\ (n + 1) % 6 = (at + 1) % 6
    BY <1>1, <1>4, SMT
  <2>2. OnWire(sent, n + 1)'
    BY <1>1, <1>2, <1>4, <2>1, Zenon DEF OnWire
  <2>3. QED
    BY <2>2
<1>5. QED
  BY <1>3, <1>4

\* What is yet to be handled of the bytes is a tail of what it was.
LEMMA TailInOrder ==
  ASSUME InOrder, UNCHANGED wire, faults \in Nat, faults' \in Nat, faults <= faults',
         Count \in Nat, NEW k \in 0 .. Count, Count' = Count - k,
         \A i \in 1 .. Count - k : Unread(i)' = Unread(i + k)
  PROVE  InOrder'
<1>1. PICK sent \in [Nat -> Frames], n \in Nat, o \in [Nat -> Nat] :
        OnWire(sent, n) /\ Told(sent, o) /\ Placed(o, n, Count, faults)
  BY Zenon DEF InOrder
<1>2. PICK p \in [Nat -> Nat] : p = [i \in Nat |-> o[i + k]]
  <2>1. \A i \in Nat : i + k \in Nat
    BY SMT
  <2>2. [i \in Nat |-> o[i + k]] \in [Nat -> Nat]
    BY <2>1
  <2>3. QED
    BY <2>2
<1>3. Placed(p, n, Count, faults)'
  <2>1. PICK c \in Nat, e \in Nat, f \in Nat : c = Count /\ e = faults /\ f = faults'
    OBVIOUS
  <2>2. Placed(p, n, c - k, f)
    BY <1>1, <1>2, <2>1, PlacedAfter
  <2>3. QED
    BY <2>1, <2>2
<1>4. Told(sent, p)'
  <2>1. ASSUME NEW i \in 1 .. Count - k
        PROVE  Unread(i)' = OnLine(sent, p[i])
    <3>1. i + k \in 1 .. Count /\ i \in Nat
      BY SMT
    <3>2. Unread(i + k) = OnLine(sent, o[i + k]) /\ p[i] = o[i + k]
      BY <1>1, <1>2, <3>1, Zenon DEF Told
    <3>3. QED
      BY <3>2
  <2>2. QED
    BY <2>1 DEF Told
<1>5. OnWire(sent, n)'
  BY <1>1, Zenon DEF OnWire, wire
<1>6. QED
  BY <1>3, <1>4, <1>5 DEF InOrder

\* A byte more is sent, and lost or received as the last one.
LEMMA SendInOrder ==
  ASSUME InOrder, Rest, Rest', Bytes, Bytes', Window, Window', Transmit \/ LoseByte
  PROVE  InOrder'
<1>0. /\ faults \in Nat /\ at \in 0 .. 5
      /\ Len(tty) \in Nat /\ Kept \in Nat /\ Count = Kept + Len(tty) /\ Count \in Nat
  <2>1. Len(tty) \in Nat /\ Len(buf) \in Nat /\ faults \in Nat /\ at \in 0 .. 5
    BY LenProperties, SensorAssumption, SMT DEF Rest, Bytes, FrameLen
  <2>2. QED
    BY <2>1, SMT DEF Kept, Count
<1>1. PICK sent \in [Nat -> Frames], n \in Nat, o \in [Nat -> Nat] :
        OnWire(sent, n) /\ Told(sent, o) /\ Placed(o, n, Count, faults)
  BY Zenon DEF InOrder
<1>2. NextByte /\ pc' = pc /\ buf' = buf
  BY Zenon DEF Transmit, LoseByte, thread
<1>3. PICK s2 \in [Nat -> Frames] :
        OnWire(s2, n + 1)' /\ \A k \in 0 .. n : OnLine(s2, k) = OnLine(sent, k)
  BY <1>1, <1>2, WireGoesOn
<1>4. \A i \in 1 .. Count : o[i] \in 0 .. n
  <2>1. ASSUME NEW i \in 1 .. Count PROVE o[i] \in 0 .. n
    <3>1. n - o[i] >= Count + 1 - i
      BY <1>1, Zenon DEF Placed
    <3>2. o[i] \in Nat
      BY <1>0, SMT
    <3>3. QED
      BY <1>0, <3>1, <3>2, SMT
  <2>2. QED
    BY <2>1
<1>5. \A i \in 1 .. Count : Unread(i) = OnLine(s2, o[i])
  BY <1>1, <1>3, <1>4, Zenon DEF Told
<1>6. CASE Transmit
  <2>1. tty' = Append(tty, frame[at + 1]) /\ faults' = faults
    BY <1>6, Zenon DEF Transmit
  <2>2. /\ Len(tty') = Len(tty) + 1 /\ tty'[Len(tty) + 1] = frame[at + 1]
        /\ \A i \in 1 .. Len(tty) : tty'[i] = tty[i]
    BY <2>1, SMT DEF Bytes
  <2>3. Kept' = Kept /\ Count' = Count + 1
    <3>1. Kept' = Kept
      BY <1>2, Zenon DEF Kept
    <3>2. Count' = Kept + Len(tty')
      BY <3>1, Zenon DEF Count
    <3>3. QED
      BY <1>0, <2>2, <3>1, <3>2, SMT
  <2>4. ASSUME NEW i \in 1 .. Count PROVE Unread(i)' = Unread(i)
    <3>1. CASE i <= Kept
      BY <1>2, <2>3, <3>1, Zenon DEF Unread
    <3>2. CASE ~(i <= Kept)
      <4>1. i - Kept \in 1 .. Len(tty)
        BY <1>0, <3>2, SMT
      <4>2. QED
        BY <2>2, <2>3, <3>2, <4>1, Zenon DEF Unread
    <3>3. QED
      BY <3>1, <3>2
  <2>5. ASSUME NEW c, c = Count + 1 PROVE Unread(c)' = OnLine(s2, n)
    <3>1. ~(Count + 1 <= Kept) /\ (Count + 1) - Kept = Len(tty) + 1
      BY <1>0, SMT
    <3>b. ~(c <= Kept')
      BY <2>3, <2>5, <3>1, Zenon
    <3>c. Unread(c)' = tty'[c - Kept']
      BY <3>b, Zenon DEF Unread
    <3>2. Unread(c)' = tty'[Len(tty) + 1]
      BY <2>3, <2>5, <3>1, <3>c, Zenon
    <3>3. OnLine(sent, n) = frame[at + 1]
      BY <1>1, Zenon DEF OnWire, OnLine, FrameLen
    <3>4. n \in 0 .. n
      BY SMT
    <3>5. QED
      BY <1>3, <2>2, <3>2, <3>3, <3>4, Zenon
  <2>6. PICK c \in Nat, e \in Nat : c = Count /\ e = faults
    BY <1>0
  <2>7. PICK p \in [Nat -> Nat] : p = [o EXCEPT ![c + 1] = n]
    <3>1. [o EXCEPT ![c + 1] = n] \in [Nat -> Nat]
      BY SMT
    <3>2. QED
      BY <3>1
  <2>8. Placed(p, n + 1, c + 1, e)
    BY <1>1, <2>6, <2>7, PlacedNext
  <2>9. Placed(p, n + 1, Count, faults)'
    BY <2>1, <2>3, <2>6, <2>8
  <2>10. Told(s2, p)'
    <3>1. p[c + 1] = n /\ \A i \in 1 .. c : p[i] = o[i]
      BY <2>7, SMT
    <3>2. \A i \in 1 .. c + 1 : i \in 1 .. c \/ i = c + 1
      BY SMT
    <3>3. ASSUME NEW i \in 1 .. c + 1 PROVE Unread(i)' = OnLine(s2, p[i])
      <4>1. CASE i \in 1 .. c
        BY <1>5, <2>4, <2>6, <3>1, <4>1, Zenon
      <4>2. CASE i = c + 1
        BY <2>5, <2>6, <3>1, <4>2, Zenon
      <4>3. QED
        BY <3>2, <4>1, <4>2, Zenon
    <3>4. QED
      BY <2>3, <2>6, <3>3, Zenon DEF Told
  <2>11. n + 1 \in Nat
    BY SMT
  <2>12. QED
    BY <1>3, <2>9, <2>10, <2>11 DEF InOrder
<1>7. CASE LoseByte
  <2>1. tty' = tty /\ faults' = faults + 1
    BY <1>7, Zenon DEF LoseByte
  <2>2. Kept' = Kept /\ Count' = Count
    BY <1>2, <2>1, Zenon DEF Kept, Count
  <2>3. \A i : Unread(i)' = Unread(i)
    BY <1>2, <2>1, <2>2, Zenon DEF Unread
  <2>4. PICK c \in Nat, e \in Nat : c = Count /\ e = faults
    BY <1>0
  <2>5. Placed(o, n + 1, c, e + 1)
    BY <1>1, <2>4, PlacedLost
  <2>6. Placed(o, n + 1, Count, faults)'
    BY <2>1, <2>2, <2>4, <2>5
  <2>7. Told(s2, o)'
    BY <1>5, <2>2, <2>3, Zenon DEF Told
  <2>8. n + 1 \in Nat
    BY SMT
  <2>9. QED
    BY <1>3, <2>6, <2>7, <2>8 DEF InOrder
<1>8. QED
  BY <1>6, <1>7

\* A failed read of something in the buffer: its last byte is overwritten.
LEMMA OverwriteInOrder ==
  ASSUME InOrder, Rest, Bytes, Window, Window', ReadFails, buf # <<>>
  PROVE  InOrder'
<1>0. /\ faults \in Nat /\ Len(buf) \in Nat \ {0} /\ Len(tty) \in Nat
      /\ pc = "read" /\ pc' = "read" /\ faults' = faults + 1
      /\ buf' = SubSeq(buf, 1, Len(buf) - 1) /\ tty' = tty /\ UNCHANGED wire
  <2>1. Len(buf) \in Nat \ {0} /\ Len(tty) \in Nat /\ faults \in Nat
    BY LenProperties, EmptySeq, SensorAssumption, SMT DEF Rest, Bytes
  <2>2. QED
    BY <2>1, Zenon DEF ReadFails
<1>1. PICK sent \in [Nat -> Frames], n \in Nat, o \in [Nat -> Nat] :
        OnWire(sent, n) /\ Told(sent, o) /\ Placed(o, n, Count, faults)
  BY Zenon DEF InOrder
<1>2. PICK b \in Nat \ {0} : b = Len(buf)
  BY <1>0
<1>3. Len(buf') = b - 1 /\ \A i \in 1 .. b - 1 : buf'[i] = buf[i]
  BY <1>0, <1>2, SMT DEF Bytes
<1>4. /\ Kept = b /\ Kept' = b - 1
      /\ Count = b + Len(tty) /\ Count' = (b - 1) + Len(tty)
  BY <1>0, <1>2, <1>3, Zenon DEF Kept, Count
<1>5. PICK c \in Nat, e \in Nat : c = Count /\ e = faults
  BY <1>0, <1>4, SMT
<1>6. b \in 1 .. c /\ Count' = c - 1
  BY <1>0, <1>4, <1>5, SMT
<1>7. PICK p \in [Nat -> Nat] : p = [i \in Nat |-> IF i < b THEN o[i] ELSE o[i + 1]]
  <2>1. [i \in Nat |-> IF i < b THEN o[i] ELSE o[i + 1]] \in [Nat -> Nat]
    BY SMT
  <2>2. QED
    BY <2>1
<1>8. Placed(p, n, c - 1, e + 1)
  BY <1>1, <1>5, <1>6, <1>7, PlacedWithout
<1>9. Placed(p, n, Count, faults)'
  BY <1>0, <1>5, <1>6, <1>8
<1>10. ASSUME NEW i \in 1 .. c - 1 PROVE Unread(i)' = OnLine(sent, p[i])
  <2>1. CASE i < b
    <3>1. i \in 1 .. b - 1 /\ i <= b - 1 /\ i <= b /\ i \in 1 .. c
      BY <2>1, <1>6, SMT
    <3>2. p[i] = o[i]
      BY <1>7, <2>1, SMT
    <3>3. Unread(i)' = buf'[i] /\ Unread(i) = buf[i]
      BY <1>4, <3>1, Zenon DEF Unread
    <3>4. Unread(i) = OnLine(sent, o[i])
      BY <1>1, <1>5, <3>1, Zenon DEF Told
    <3>5. QED
      BY <1>3, <3>1, <3>2, <3>3, <3>4, Zenon
  <2>2. CASE ~(i < b)
    <3>1. /\ ~(i <= b - 1) /\ ~(i + 1 <= b) /\ i + 1 \in 1 .. c
          /\ i - (b - 1) = (i + 1) - b
      BY <2>2, <1>6, SMT
    <3>2. p[i] = o[i + 1]
      BY <1>7, <2>2, SMT
    <3>3. Unread(i)' = tty'[i - (b - 1)]
      BY <1>4, <3>1, Zenon DEF Unread
    <3>4. Unread(i + 1) = tty[(i + 1) - b]
      BY <1>4, <3>1, Zenon DEF Unread
    <3>5. Unread(i + 1) = OnLine(sent, o[i + 1])
      BY <1>1, <1>5, <3>1, Zenon DEF Told
    <3>6. QED
      BY <1>0, <3>1, <3>2, <3>3, <3>4, <3>5, Zenon
  <2>3. QED
    BY <2>1, <2>2
<1>11. Told(sent, p)'
  BY <1>6, <1>10, Zenon DEF Told
<1>12. OnWire(sent, n)'
  BY <1>0, <1>1, Zenon DEF OnWire, wire
<1>13. QED
  BY <1>9, <1>11, <1>12 DEF InOrder

\* A read moves bytes from the queue to the end of the buffer.
LEMMA ReceiveInOrder ==
  ASSUME InOrder, Rest, Rest', Bytes, Bytes', Window, Window', Receive
  PROVE  InOrder'
<1> DEFINE n == IF Len(tty) < rest_len THEN Len(tty) ELSE rest_len
<1>0. /\ Len(tty) \in Nat /\ Len(buf) \in Nat /\ rest_len \in 0 .. 6
      /\ faults \in Nat /\ faults' = faults
  <2>1. Len(tty) \in Nat /\ Len(buf) \in Nat /\ rest_len \in 0 .. 6 /\ faults \in Nat
    BY SMT, LenProperties, SensorAssumption DEF Bytes, Window, FrameLen, Rest
  <2>2. QED
    BY <2>1, Zenon DEF Receive
<1>1. /\ buf' = buf \o SubSeq(tty, 1, n)
      /\ tty' = SubSeq(tty, n + 1, Len(tty))
      /\ UNCHANGED wire /\ pc = "read" /\ pc' \in {"read", "check"}
  BY Zenon DEF Receive
<1>2. n \in 0 .. Len(tty)
  BY <1>0, SMT
<1> HIDE DEF n
<1>3. /\ Len(buf') = Len(buf) + n /\ Len(tty') = Len(tty) - n
      /\ \A i \in 1 .. Len(buf) : buf'[i] = buf[i]
      /\ \A i \in 1 .. n : buf'[Len(buf) + i] = tty[i]
      /\ \A i \in 1 .. Len(tty) - n : tty'[i] = tty[n + i]
  BY <1>0, <1>1, <1>2, SMT DEF Bytes
<1>4. Kept = Len(buf) /\ Kept' = Len(buf')
  <2>1. pc \notin {"flush", "broken"} /\ pc' \notin {"flush", "broken"}
    BY <1>1, SMT
  <2>2. QED
    BY <2>1, Zenon DEF Kept
<1>5. Count = Len(buf) + Len(tty) /\ Count' = Count - 0 /\ Count \in Nat
  <2>1. Count = Len(buf) + Len(tty) /\ Count' = Len(buf') + Len(tty')
    BY <1>4, Zenon DEF Count
  <2>2. QED
    BY <1>0, <1>2, <1>3, <2>1, SMT
<1>6. ASSUME NEW j \in 1 .. Len(buf) + Len(tty)
      PROVE  Unread(j)' = Unread(j)
  <2>1. CASE j <= Len(buf)
    <3>1. j <= Len(buf') /\ j \in 1 .. Len(buf)
      BY <1>0, <1>2, <1>3, <2>1, SMT
    <3>2. QED
      BY <1>3, <1>4, <2>1, <3>1, Zenon DEF Unread
  <2>2. CASE j > Len(buf) /\ j <= Len(buf) + n
    <3>1. /\ j - Len(buf) \in 1 .. n /\ Len(buf) + (j - Len(buf)) = j
          /\ j <= Len(buf') /\ ~(j <= Len(buf))
      BY <1>0, <1>2, <1>3, <2>2, SMT
    <3>2. QED
      BY <1>3, <1>4, <3>1, Zenon DEF Unread
  <2>3. CASE j > Len(buf) + n
    <3>1. /\ j - Len(buf') \in 1 .. Len(tty) - n
          /\ n + (j - Len(buf')) = j - Len(buf)
          /\ ~(j <= Len(buf')) /\ ~(j <= Len(buf))
      BY <1>0, <1>2, <1>3, <2>3, SMT
    <3>2. QED
      BY <1>3, <1>4, <3>1, Zenon DEF Unread
  <2>4. QED
    BY <1>0, <1>2, <2>1, <2>2, <2>3, SMT
<1>7. \A i \in 1 .. Count - 0 : Unread(i)' = Unread(i + 0)
  <2>1. \A i \in 1 .. Count - 0 : i \in 1 .. Len(buf) + Len(tty) /\ i + 0 = i
    BY <1>0, <1>5, SMT
  <2>2. QED
    BY <1>6, <2>1, Zenon
<1>8. 0 \in 0 .. Count /\ faults <= faults' /\ faults' \in Nat
  BY <1>0, <1>5, SMT
<1>9. QED
  BY <1>0, <1>1, <1>5, <1>7, <1>8, TailInOrder, Zenon

\* The buffer is done with, or to be flushed: the queue is left, or nothing.
LEMMA DropInOrder ==
  ASSUME InOrder, Rest, Rest', Bytes, Bytes', UNCHANGED wire, faults <= faults',
         Kept' = 0, tty' = tty \/ tty' = <<>>
  PROVE  InOrder'
<1>0. Len(tty) \in Nat /\ Len(buf) \in Nat /\ faults \in Nat /\ faults' \in Nat
  BY SMT, LenProperties, SensorAssumption DEF Bytes, Rest
<1>1. Kept \in Nat /\ Count = Kept + Len(tty) /\ Count' = 0 + Len(tty')
  <2>1. Kept \in Nat
    BY <1>0, Zenon, SMT DEF Kept
  <2>2. QED
    BY <2>1, Zenon DEF Count
<1>2. CASE tty' = tty
  <2>1. Kept \in 0 .. Count /\ Count' = Count - Kept /\ Count \in Nat
    BY <1>0, <1>1, <1>2, SMT
  <2>2. ASSUME NEW i \in 1 .. Count - Kept PROVE Unread(i)' = Unread(i + Kept)
    <3>1. ~(i <= 0) /\ ~(i + Kept <= Kept) /\ i - 0 = i /\ (i + Kept) - Kept = i
      BY <1>0, <1>1, SMT
    <3>2. Unread(i)' = tty'[i]
      BY <3>1, Zenon DEF Unread
    <3>3. PICK k : k = i + Kept
      OBVIOUS
    <3>4. Unread(k) = tty[i]
      BY <3>1, <3>3, Zenon DEF Unread
    <3>5. QED
      BY <1>2, <3>2, <3>3, <3>4, Zenon
  <2>3. PICK k : k = Kept
    OBVIOUS
  <2>4. /\ k \in 0 .. Count /\ Count' = Count - k
        /\ \A i \in 1 .. Count - k : Unread(i)' = Unread(i + k)
    BY <2>1, <2>2, <2>3, Zenon
  <2>5. QED
    BY <1>0, <2>1, <2>4, TailInOrder, Zenon
<1>3. CASE tty' = <<>>
  <2>1. Len(tty') = 0
    BY <1>3, EmptySeq
  <2>2. PICK k : k = Count
    OBVIOUS
  <2>3. /\ Count \in Nat /\ k \in 0 .. Count /\ Count' = Count - k
        /\ \A i \in 1 .. Count - k : FALSE
    BY <1>0, <1>1, <2>1, <2>2, SMT
  <2>4. QED
    BY <1>0, <2>3, TailInOrder, Zenon
<1>4. QED
  BY <1>2, <1>3

\* Every step keeps the bytes in order, and counts those it loses.
LEMMA StaysInOrder ==
  ASSUME InOrder, Rest, Rest', Bytes, Bytes', Window, Window', [SensorNext]_sensorVars
  PROVE  InOrder'
<1>0. faults \in Nat
  BY SensorAssumption, SMT DEF Rest
<1>1. CASE Transmit \/ LoseByte
  BY <1>1, SendInOrder
<1>2. CASE Receive
  BY <1>2, ReceiveInOrder
<1>3. CASE ReadFails
  <2>1. CASE buf # <<>>
    BY <1>3, <2>1, OverwriteInOrder
  <2>2. CASE buf = <<>>
    <3>1. pc' = "broken" /\ faults' = faults + 1 /\ tty' = tty /\ UNCHANGED wire
      BY <1>3, <2>2, Zenon DEF ReadFails
    <3>2. Kept' = 0
      BY <3>1, Zenon DEF Kept
    <3>3. faults <= faults'
      BY <1>0, <3>1, SMT
    <3>4. QED
      BY <3>1, <3>2, <3>3, DropInOrder
  <2>3. QED
    BY <2>1, <2>2
<1>4. CASE Flush
  <2>1. /\ pc = "flush" /\ tty' = <<>> /\ faults' = faults /\ UNCHANGED wire
        /\ pc' = pc \/ (pc' = "read" /\ buf' = <<>>)
    BY <1>4, Zenon DEF Flush, StartFrame
  <2>2. Kept' = 0
    <3>1. Len(<<>>) = 0
      BY EmptySeq
    <3>2. QED
      BY <2>1, <3>1, Zenon DEF Kept
  <2>3. faults <= faults'
    BY <1>0, <2>1, SMT
  <2>4. QED
    BY <2>1, <2>2, <2>3, DropInOrder
<1>5. CASE StorePower \/ (Check /\ pc' = "flush")
  <2>1. /\ tty' = tty /\ faults' = faults /\ UNCHANGED wire
        /\ pc' = "flush" \/ buf' = <<>>
    BY <1>5, Zenon DEF StorePower, StartFrame, Check
  <2>2. Kept' = 0
    <3>1. Len(<<>>) = 0
      BY EmptySeq
    <3>2. QED
      BY <2>1, <3>1, Zenon DEF Kept
  <2>3. faults <= faults'
    BY <1>0, <2>1, SMT
  <2>4. QED
    BY <2>1, <2>2, <2>3, DropInOrder
<1>6. CASE \/ Check /\ pc' # "flush"
           \/ StoreTorque \/ StoreSpeed \/ get_dy200_info \/ UNCHANGED sensorVars
  <2>1. /\ UNCHANGED <<wire, tty, buf, faults>>
        /\ \/ pc' = pc
           \/ pc \notin {"flush", "broken"} /\ pc' \notin {"flush", "broken"}
    BY <1>6, SMT DEF Check, StoreTorque, StoreSpeed, get_dy200_info,
       LoadTorque, LoadSpeed, LoadPower, Return, sensorVars, thread
  <2>2. Kept' = Kept
    BY <2>1, Zenon DEF Kept
  <2>3. Count' = Count /\ \A i : Unread(i)' = Unread(i)
    BY <2>1, <2>2, Zenon DEF Count, Unread
  <2>4. QED
    BY <2>1, <2>3, Zenon DEF InOrder, OnWire, Told, wire
<1>7. QED
  BY <1>1, <1>2, <1>3, <1>4, <1>5, <1>6, Zenon DEF SensorNext, Dy200

\* Byte place of the frames sent is byte x of those from frame q on.
From(q, place, x) == place \div 6 = q + (x \div 6) /\ place % 6 = x % 6

\* A byte of the line belongs to a frame, and has a place in it.
LEMMA Division ==
  /\ \A x \in Nat : \E q \in Nat, s \in 0 .. 5 : x = 6 * q + s
  /\ \A q, x \in Nat : From(q, 6 * q + x, x)
<1>1. ASSUME NEW x \in Nat PROVE \E q \in Nat, s \in 0 .. 5 : x = 6 * q + s
  <2>1. x \div 6 \in Nat /\ x % 6 \in 0 .. 5 /\ x = 6 * (x \div 6) + (x % 6)
    BY SMT
  <2>2. QED
    BY <2>1
<1>2. \A q, x \in Nat : From(q, 6 * q + x, x)
  BY SMT DEF From
<1>3. QED
  BY <1>1, <1>2

LEMMA PlaceInStream ==
  ASSUME NEW q \in Nat, NEW s \in 0 .. 5, NEW m \in Nat, NEW i \in 1 .. 6,
         NEW t \in 0 .. m, NEW place \in Nat, t = place - (6 * q + s) - (i - 1),
         NEW x, x = s + i - 1 + t
  PROVE  From(q, place, x) /\ x \div 6 \in 0 .. m + 1
<1>2. x \in Nat /\ x <= 10 + m /\ place = 6 * q + x
  BY SMT
<1>3. x \div 6 \in 0 .. m + 1
  BY <1>2, SMT
<1>4. From(q, 6 * q + x, x)
  BY <1>2, Division
<1>5. QED
  BY <1>2, <1>3, <1>4, Zenon

\* Of six bytes in order, how many were lost since the first before each.
LEMMA LossesOfPlaces ==
  ASSUME NEW o \in [Nat -> Nat], NEW n \in Nat, NEW size \in Nat, size >= 6,
         NEW e \in Nat, Placed(o, n, size, e)
  PROVE  /\ \A i \in 1 .. 6 : o[i] \in Nat /\ o[i] - o[1] - (i - 1) \in 0 .. e
         /\ \A i, j \in 1 .. 6 :
              i <= j => o[i] - o[1] - (i - 1) <= o[j] - o[1] - (j - 1)
<1>1. 1 \in 1 .. size /\ \A i \in 1 .. 6 : i \in 1 .. size /\ 1 <= i
  BY SMT
<1>2. o[1] \in Nat /\ \A i \in 1 .. 6 : o[i] \in Nat
  BY SMT
<1>3. ASSUME NEW i \in 1 .. 6 PROVE o[i] - o[1] - (i - 1) \in 0 .. e
  <2>1. o[i] - o[1] >= i - 1
    BY <1>1, Zenon DEF Placed
  <2>2. n - o[i] >= size + 1 - i /\ n - o[1] <= size + 1 - 1 + e
    BY <1>1, Zenon DEF Placed
  <2>3. QED
    BY <1>2, <2>1, <2>2, SMT
<1>4. ASSUME NEW i \in 1 .. 6, NEW j \in 1 .. 6, i <= j
      PROVE  o[i] - o[1] - (i - 1) <= o[j] - o[1] - (j - 1)
  <2>1. o[j] - o[i] >= j - i
    BY <1>1, <1>4, Zenon DEF Placed
  <2>2. QED
    BY <1>2, <2>1, SMT
<1>5. QED
  BY <1>2, <1>3, <1>4

\* Six bytes are those of the line at the places o.
Reads(b, sent, o) == \A i \in 1 .. 6 : b[i] = OnLine(sent, o[i])

\* A full buffer of bytes in order is one of the windows CrcTells is about.
LEMMA WindowOfLine ==
  ASSUME NEW b \in Seq(Byte), Len(b) = 6, NEW sent \in [Nat -> Frames], NEW n \in Nat,
         NEW o \in [Nat -> Nat], NEW size \in Nat, size >= 6, NEW e \in 0 .. MaxFaults,
         Placed(o, n, size, e), Reads(b, sent, o)
  PROVE  \E f \in Sent, s \in 0 .. FrameLen - 1, d \in Losses : b = WindowAt(f, s, d)
<1>0. MaxFaults \in Nat /\ e \in Nat /\ \A x : x \in 0 .. e => x \in 0 .. MaxFaults
  BY SensorAssumption, SMT
<1>1. PICK q \in Nat, s \in 0 .. 5 : o[1] = 6 * q + s
  <2>1. o[1] \in Nat
    BY SMT
  <2>2. QED
    BY <2>1, Division, Zenon
<1>4. PICK d : d = [i \in 1 .. FrameLen |-> o[i] - o[1] - (i - 1)]
  OBVIOUS
<1>5. \A i \in 1 .. 6 : d[i] = o[i] - o[1] - (i - 1)
  BY <1>4, Zenon DEF FrameLen
<1>a. /\ \A i \in 1 .. 6 : o[i] \in Nat /\ o[i] - o[1] - (i - 1) \in 0 .. e
      /\ \A i, j \in 1 .. 6 :
           i <= j => o[i] - o[1] - (i - 1) <= o[j] - o[1] - (j - 1)
  BY <1>0, LossesOfPlaces
<1>6. \A i \in 1 .. 6 : d[i] \in 0 .. MaxFaults
  BY <1>0, <1>5, <1>a, Zenon
<1>7. \A i, j \in 1 .. 6 : i <= j => d[i] <= d[j]
  BY <1>5, <1>a, Zenon
<1>8. d \in Losses
  <2>1. d \in [1 .. FrameLen -> 0 .. MaxFaults]
    BY <1>4, <1>5, <1>6, Zenon DEF FrameLen
  <2>2. QED
    BY <1>7, <2>1, Zenon DEF Losses, FrameLen
<1>9. PICK s2 : s2 = [k \in 0 .. MaxFaults + 1 |-> sent[q + k]]
  OBVIOUS
<1>10. s2 \in Sent
  <2>1. \A k \in 0 .. MaxFaults + 1 : q + k \in Nat
    BY <1>0, SMT
  <2>2. QED
    BY <1>9, <2>1 DEF Sent
<1>11. ASSUME NEW i \in 1 .. 6 PROVE b[i] = OnLine(s2, s + i - 1 + d[i])
  <2>1. /\ d[i] \in 0 .. MaxFaults /\ d[i] = o[i] - (6 * q + s) - (i - 1)
        /\ o[i] \in Nat
    BY <1>1, <1>5, <1>6, <1>a, Zenon
  <2>2. PICK x : x = s + i - 1 + d[i]
    OBVIOUS
  <2>3. /\ x \div 6 \in 0 .. MaxFaults + 1
        /\ o[i] \div 6 = q + (x \div 6) /\ o[i] % 6 = x % 6
    <3>1. PICK m \in Nat, t \in 0 .. MaxFaults, place \in Nat :
            m = MaxFaults /\ t = d[i] /\ place = o[i]
      BY <1>0, <2>1, Zenon
    <3>2. t \in 0 .. m /\ t = place - (6 * q + s) - (i - 1)
      BY <2>1, <3>1, Zenon
    <3>3. x = s + i - 1 + t
      BY <2>2, <3>1, Zenon
    <3>4. From(q, place, x) /\ x \div 6 \in 0 .. m + 1
      BY <3>2, <3>3, PlaceInStream
    <3>5. QED
      BY <3>1, <3>4, Zenon DEF From
  <2>4. s2[x \div 6] = sent[o[i] \div 6]
    BY <1>9, <2>3, Zenon
  <2>5. OnLine(s2, x) = OnLine(sent, o[i])
    BY <2>3, <2>4, Zenon DEF OnLine, FrameLen
  <2>6. QED
    BY <2>2, <2>5, Zenon DEF Reads
<1>12. b = [i \in 1 .. FrameLen |-> b[i]]
  BY SMT DEF FrameLen
<1>13. b = WindowAt(s2, s, d)
  BY <1>11, <1>12, Zenon DEF FrameLen, WindowAt
<1>14. s \in 0 .. FrameLen - 1
  BY SMT DEF FrameLen
<1>15. QED
  BY <1>8, <1>10, <1>13, <1>14

\* What the CRC accepts is a frame.
LEMMA CheckedIsFrame ==
  ASSUME CrcTells, InOrder, Rest, Bytes, Window, pc = "check", CrcOK(buf)
  PROVE  buf \in Frames
<1>1. /\ Len(buf) = 6 /\ Len(tty) \in Nat /\ buf \in Seq(Byte) /\ faults \in 0 .. MaxFaults
  BY SMT, LenProperties DEF Window, FrameLen, Bytes, Rest
<1>2. Kept = 6 /\ Count = 6 + Len(tty)
  <2>1. pc \notin {"flush", "broken"}
    BY SMT
  <2>2. QED
    BY <1>1, <2>1, Zenon DEF Kept, Count
<1>3. PICK sent \in [Nat -> Frames], n \in Nat, o \in [Nat -> Nat] :
        OnWire(sent, n) /\ Told(sent, o) /\ Placed(o, n, Count, faults)
  BY Zenon DEF InOrder
<1>4. Count \in Nat /\ Count >= 6 /\ \A i \in 1 .. 6 : i <= 6 /\ i \in 1 .. Count
  <2>1. \A t \in Nat : /\ 6 + t \in Nat /\ 6 + t >= 6
                       /\ \A i \in 1 .. 6 : i <= 6 /\ i \in 1 .. 6 + t
    BY SMT
  <2>2. QED
    BY <1>1, <1>2, <2>1, Zenon
<1>5. Reads(buf, sent, o)
  BY <1>2, <1>3, <1>4, Zenon DEF Told, Unread, Reads
<1>6. \E f \in Sent, s \in 0 .. FrameLen - 1, d \in Losses : buf = WindowAt(f, s, d)
  BY <1>1, <1>3, <1>4, <1>5, WindowOfLine
<1>7. QED
  BY <1>6, Zenon DEF CrcTells

\* What is published, and what is about to be, is of frames that were sent.
Samples == {NoSample} \cup {Sample(f) : f \in Frames}

OnlySent ==
  /\ Published
  /\ last \in Samples
  /\ pc \in {"torque", "speed", "power"} => buf \in Frames

LEMMA StaysOnlySent ==
  ASSUME CrcTells, InOrder, Rest, Bytes, Window, OnlySent, [SensorNext]_sensorVars
  PROVE  OnlySent'
<1> USE DEF OnlySent, Published, Storing
<1>1. CASE Check
  <2>1. /\ pc = "check" /\ UNCHANGED <<buf, published, last>>
        /\ (CrcOK(buf) /\ pc' = "torque") \/ pc' = "flush"
    BY <1>1, Zenon DEF Check
  <2>2. pc' = "torque" => buf \in Frames
    BY <2>1, CheckedIsFrame, SMT
  <2>3. QED
    BY <2>1, <2>2, SMT DEF published
<1>2. CASE StoreTorque
  BY <1>2, SMT DEF StoreTorque
<1>3. CASE StoreSpeed
  BY <1>3, SMT DEF StoreSpeed
<1>4. CASE StorePower
  <2>1. /\ pc = "power" /\ pc' = "read" /\ last' = Sample(buf)
        /\ g_power' = g_torque * g_speed /\ UNCHANGED <<g_torque, g_speed>>
    BY <1>4, SMT DEF StorePower, StartFrame
  <2>2. /\ Sample(buf).torque = Torque(buf) /\ Sample(buf).speed = Speed(buf)
        /\ Sample(buf).power = Torque(buf) * Speed(buf)
    BY SMT DEF Sample
  <2>3. last' \in Samples
    BY <2>1, SMT DEF Samples
  <2>4. QED
    BY <2>1, <2>2, <2>3, SMT
<1>5. CASE Flush \/ Receive \/ ReadFails
  <2>1. pc' \notin {"torque", "speed", "power"} /\ pc \notin {"torque", "speed", "power"}
        /\ UNCHANGED <<published, last>>
    BY <1>5, SMT DEF Flush, StartFrame, Receive, ReadFails
  <2>2. QED
    BY <2>1, SMT DEF published
<1>6. CASE Transmit \/ LoseByte \/ get_dy200_info \/ UNCHANGED sensorVars
  <2>1. UNCHANGED <<pc, buf, published, last>>
    BY <1>6, Zenon DEF Transmit, LoseByte, sensorVars, thread, get_dy200_info,
       LoadTorque, LoadSpeed, LoadPower, Return
  <2>2. QED
    BY <2>1, SMT DEF published
<1>7. QED
  BY <1>1, <1>2, <1>3, <1>4, <1>5, <1>6, Zenon DEF SensorNext, Dy200

\* If the CRC tells the sensor's frames from the windows that lie across them or
\* have lost bytes, what is published between frames is a frame the sensor sent
\* (torque_sensor.c:97-115), with whatever losses, failed reads and flushes.
THEOREM PublishedAlwaysSent ==
  ASSUME CrcTells
  PROVE  SensorSpec => []PublishedWasSent
<1> DEFINE Inv == Rest /\ Bytes /\ Window /\ InOrder /\ OnlySent
<1>1. SensorInit => Inv
  <2> SUFFICES ASSUME SensorInit PROVE Inv
    OBVIOUS
  <2>1. <<>> \in Seq(Byte) /\ Len(<<>>) = 0
    BY EmptySeq
  <2>2. Rest /\ Bytes /\ Window
    BY <2>1, SensorAssumption, SMT
       DEF SensorInit, Rest, Bytes, Window, FrameLen
  <2>3. OnlySent
    BY SMT DEF SensorInit, OnlySent, Published, Storing, NoSample, Samples
  <2>4. InOrder
    <3>1. pc = "flush" /\ tty = <<>> /\ frame \in Frames /\ at \in 0 .. 5
      BY SMT DEF SensorInit, FrameLen
    <3>2. Count = 0
      <4>1. Kept = 0
        BY <3>1, Zenon DEF Kept
      <4>2. QED
        BY <2>1, <3>1, <4>1, SMT DEF Count
    <3>3. PICK n \in Nat, sent \in [Nat -> Frames] :
            n = at /\ sent = [k \in Nat |-> frame]
      <4>1. at \in Nat
        BY <3>1, SMT
      <4>2. [k \in Nat |-> frame] \in [Nat -> Frames]
        BY <3>1
      <4>3. QED
        BY <4>1, <4>2
    <3>4. OnWire(sent, n)
      <4>1. n % 6 = at /\ n \div 6 \in Nat
        BY <3>1, <3>3, SMT
      <4>2. QED
        BY <3>3, <4>1, Zenon DEF OnWire
    <3>5. PICK o \in [Nat -> Nat] : TRUE
      <4>1. [k \in Nat |-> k] \in [Nat -> Nat]
        OBVIOUS
      <4>2. QED
        BY <4>1
    <3>6. \A i \in 1 .. Count : FALSE
      BY <3>2, SMT
    <3>7. Told(sent, o) /\ Placed(o, n, Count, faults)
      BY <3>6, Zenon DEF Told, Placed
    <3>8. QED
      BY <3>4, <3>7, Zenon DEF InOrder
  <2>5. QED
    BY <2>2, <2>3, <2>4
<1>2. Inv /\ [SensorNext]_sensorVars => Inv'
  <2> SUFFICES ASSUME Inv, [SensorNext]_sensorVars PROVE Inv'
    OBVIOUS
  <2>1. Rest' /\ Bytes' /\ Window'
    BY RestKept, WindowKept
  <2>2. InOrder'
    BY <2>1, StaysInOrder
  <2>3. OnlySent'
    BY StaysOnlySent
  <2>4. QED
    BY <2>1, <2>2, <2>3
<1>3. SensorSpec => []Inv
  <2> HIDE DEF Inv
  <2>1. QED
    BY <1>1, <1>2, PTL DEF SensorSpec
<1>4. Inv => PublishedWasSent
  <2> SUFFICES ASSUME OnlySent, pc \in {"flush", "read", "check"}
               PROVE  [torque |-> g_torque, speed |-> g_speed, power |-> g_power] \in Samples
    BY Zenon DEF PublishedWasSent, Samples
  <2>1. /\ g_torque = last.torque /\ g_speed = last.speed /\ g_power = last.power
        /\ last \in Samples
    BY SMT DEF OnlySent, Published, Storing
  <2>2. [torque |-> last.torque, speed |-> last.speed, power |-> last.power] = last
    <3>1. CASE last = NoSample
      BY <3>1, SMT DEF NoSample
    <3>2. CASE last \in {Sample(f) : f \in Frames}
      <4>1. PICK f \in Frames : last = Sample(f)
        BY <3>2
      <4>2. QED
        BY <4>1, SMT DEF Sample
    <3>3. QED
      BY <2>1, <3>1, <3>2, Zenon DEF Samples
  <2>3. QED
    BY <2>1, <2>2, Zenon
<1>5. QED
  BY <1>3, <1>4, PTL
=============================================================================

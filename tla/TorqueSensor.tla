---------------------------- MODULE TorqueSensor ----------------------------
(***************************************************************************)
(* src/src/torque_sensor.c: the thread dy200_thread, which finds the       *)
(* sensor's frames in a stream of bytes without marks, checks their CRC    *)
(* and publishes torque, speed and power in three stores; and              *)
(* get_dy200_info, which the shell thread uses to load them one by one.    *)
(*                                                                         *)
(* Bytes and CRC are the real ones.  Floats are in the sensor's units      *)
(* (torque in tenths), power without its factor pi/30.                     *)
(***************************************************************************)
EXTENDS Integers, Sequences

CONSTANTS
  Frames,            \* the frames the sensor sends: torque, speed, CRC
  MODBUS_CRC16(_),   \* the CRC of a sequence of bytes
  TtyMax,            \* bound: bytes received and not read yet
  MaxFaults          \* bound: bytes lost and reads failed

FrameLen == 6
Byte == 0 .. 255

ASSUME SensorAssumption ==
  /\ Frames # {}
  /\ \A f \in Frames : f \in Seq(Byte) /\ Len(f) = FrameLen
  /\ TtyMax \in Nat \ {0}
  /\ MaxFaults \in Nat

VARIABLES
  frame, at,                  \* the frame on the wire, its bytes already sent
  tty,                        \* the kernel's input queue
  pc, flushes,                \* dy200_thread; flushes it still has to make
  buf, rest_len,              \* uart_raw_buf[0 .. index - 1], bytes still missing
  g_torque, g_speed, g_power,
  reader, triple,             \* get_dy200_info and what it stored so far
  faults,                     \* history: faults so far
  disturbed,                  \* history: the thread may be out of step
  last, recent                \* history: last sample published; samples that
                              \* were the last one or newer during the call

wire == <<frame, at>>
thread == <<pc, flushes, buf, rest_len>>
published == <<g_torque, g_speed, g_power>>
call == <<reader, triple, recent>>
sensorVars == <<wire, tty, thread, published, call, faults, disturbed, last>>

-----------------------------------------------------------------------------
(* What a frame says.                                                      *)

\* A little-endian load followed by SWAP_UINT16.
Word(hi, lo) == 256 * hi + lo

\* The sign of the torque travels in the speed.
Torque(b) == Word(b[1], b[2]) * (IF b[3] >= 128 THEN -1 ELSE 1)
Speed(b) == Word(b[3] % 128, b[4])

Sample(b) == [torque |-> Torque(b), speed |-> Speed(b), power |-> Torque(b) * Speed(b)]
NoSample == [torque |-> 0, speed |-> 0, power |-> 0]

\* Mutants: the CRC is compared byte-swapped; not compared.
CrcOKSwapped(b) == MODBUS_CRC16(SubSeq(b, 1, 4)) = Word(b[5], b[6])
CrcOKAlways(b) == TRUE

CrcOK(b) == MODBUS_CRC16(SubSeq(b, 1, 4)) = Word(b[6], b[5])

\* The volatile floats start at 0; the line is opened at any point of a frame.
SensorInit ==
  /\ frame \in Frames /\ at \in 0 .. FrameLen - 1
  /\ tty = <<>>
  /\ pc = "flush" /\ flushes = 3
  /\ buf = <<>> /\ rest_len = FrameLen
  /\ g_torque = 0 /\ g_speed = 0 /\ g_power = 0
  /\ reader = "idle" /\ triple = NoSample
  /\ faults = 0 /\ disturbed = TRUE
  /\ last = NoSample /\ recent = {}

-----------------------------------------------------------------------------
(* The sensor and the line.                                                *)

NextByte ==
  /\ at' = (at + 1) % FrameLen
  /\ IF at = FrameLen - 1 THEN frame' \in Frames ELSE UNCHANGED frame

Transmit ==
  /\ Len(tty) < TtyMax
  /\ tty' = Append(tty, frame[at + 1])
  /\ NextByte
  /\ UNCHANGED <<thread, published, call, faults, disturbed, last>>

\* Noise, or a full queue.
LoseByte ==
  /\ faults < MaxFaults
  /\ faults' = faults + 1
  /\ disturbed' = TRUE
  /\ NextByte
  /\ UNCHANGED <<tty, thread, published, call, last>>

-----------------------------------------------------------------------------
(* dy200_thread.                                                           *)

\* Mutant: what is missing of the last frame is not set anew.
StartFrameKeepsRest ==
  /\ pc' = "read"
  /\ buf' = <<>>
  /\ UNCHANGED rest_len

\* index = 0; rest_len = 6;
StartFrame ==
  /\ pc' = "read"
  /\ buf' = <<>>
  /\ rest_len' = FrameLen

\* uart_flush drops what was received, not what is still to come: the thread
\* is in step again only if the last one falls between two frames.
Flush ==
  /\ pc = "flush"
  /\ tty' = <<>>
  /\ flushes' = flushes - 1
  /\ IF flushes > 1 THEN UNCHANGED <<pc, buf, rest_len, disturbed>>
     ELSE StartFrame /\ disturbed' = (at # 0)
  /\ UNCHANGED <<wire, published, call, faults, last>>

Receive ==
  LET n == IF Len(tty) < rest_len THEN Len(tty) ELSE rest_len
  IN /\ pc = "read" /\ n > 0
     /\ buf' = buf \o SubSeq(tty, 1, n)
     /\ tty' = SubSeq(tty, n + 1, Len(tty))
     /\ rest_len' = rest_len - n
     /\ pc' = IF rest_len' = 0 THEN "check" ELSE "read"
     /\ UNCHANGED <<wire, flushes, published, call, faults, disturbed, last>>

\* read() = -1 is subtracted and added like a length: the last byte will be
\* overwritten.  With no byte yet, the next read writes in front of the
\* buffer; nothing is known of the thread after that.
ReadFails ==
  /\ pc = "read" /\ faults < MaxFaults
  /\ faults' = faults + 1
  /\ disturbed' = TRUE
  /\ \/ /\ buf # <<>>
        /\ buf' = SubSeq(buf, 1, Len(buf) - 1)
        /\ rest_len' = rest_len + 1
        /\ UNCHANGED pc
     \/ /\ buf = <<>>
        /\ pc' = "broken"
        /\ UNCHANGED <<buf, rest_len>>
  /\ UNCHANGED <<wire, tty, flushes, published, call, last>>

\* Mutant: a bad frame is dropped without a flush.
CheckWithoutFlush ==
  /\ pc = "check"
  /\ IF CrcOK(buf) THEN pc' = "torque" /\ UNCHANGED <<buf, rest_len, flushes>>
     ELSE StartFrame /\ UNCHANGED flushes
  /\ UNCHANGED <<wire, tty, published, call, faults, disturbed, last>>

Check ==
  /\ pc = "check"
  /\ \/ CrcOK(buf) /\ pc' = "torque" /\ UNCHANGED flushes
     \/ ~CrcOK(buf) /\ pc' = "flush" /\ flushes' = 3
  /\ UNCHANGED <<wire, tty, buf, rest_len, published, call>>
  /\ UNCHANGED <<faults, disturbed, last>>

\* A call under way sees a newer sample from here on.
StoreTorque ==
  /\ pc = "torque"
  /\ g_torque' = Torque(buf)
  /\ recent' = IF reader = "idle" THEN recent ELSE recent \cup {Sample(buf)}
  /\ pc' = "speed"
  /\ UNCHANGED <<wire, tty, flushes, buf, rest_len, g_speed, g_power>>
  /\ UNCHANGED <<reader, triple, faults, disturbed, last>>

StoreSpeed ==
  /\ pc = "speed"
  /\ g_speed' = Speed(buf)
  /\ pc' = "power"
  /\ UNCHANGED <<wire, tty, flushes, buf, rest_len, g_torque, g_power>>
  /\ UNCHANGED <<call, faults, disturbed, last>>

StorePower ==
  /\ pc = "power"
  /\ g_power' = g_torque * g_speed
  /\ StartFrame
  /\ last' = Sample(buf)
  /\ UNCHANGED <<wire, tty, flushes, g_torque, g_speed, call, faults, disturbed>>

Dy200 ==
  \/ Flush \/ Receive \/ ReadFails \/ Check
  \/ StoreTorque \/ StoreSpeed \/ StorePower

-----------------------------------------------------------------------------
(* get_dy200_info, called by a command; callers ask for all three values.  *)

LoadTorque ==
  /\ reader = "idle"
  /\ reader' = "speed"
  /\ triple' = [NoSample EXCEPT !.torque = g_torque]
  /\ recent' = {last} \cup (IF pc \in {"speed", "power"} THEN {Sample(buf)} ELSE {})
  /\ UNCHANGED <<wire, tty, thread, published, faults, disturbed, last>>

LoadSpeed ==
  /\ reader = "speed"
  /\ reader' = "power"
  /\ triple' = [triple EXCEPT !.speed = g_speed]
  /\ UNCHANGED <<wire, tty, thread, published, recent, faults, disturbed, last>>

\* Mutant: power is computed from the two values loaded.
LoadPowerDerived ==
  /\ reader = "power"
  /\ reader' = "done"
  /\ triple' = [triple EXCEPT !.power = triple.torque * triple.speed]
  /\ UNCHANGED <<wire, tty, thread, published, recent, faults, disturbed, last>>

LoadPower ==
  /\ reader = "power"
  /\ reader' = "done"
  /\ triple' = [triple EXCEPT !.power = g_power]
  /\ UNCHANGED <<wire, tty, thread, published, recent, faults, disturbed, last>>

\* The command is done with the values.
Return ==
  /\ reader = "done"
  /\ reader' = "idle" /\ triple' = NoSample /\ recent' = {}
  /\ UNCHANGED <<wire, tty, thread, published, faults, disturbed, last>>

get_dy200_info == LoadTorque \/ LoadSpeed \/ LoadPower \/ Return

SensorNext == Transmit \/ LoseByte \/ Dy200 \/ get_dy200_info

SensorSpec == SensorInit /\ [][SensorNext]_sensorVars

\* Check, by what it does to pc: it is the only step that leaves "check".
Checked == pc = "check" /\ pc' \in {"torque", "flush"}

\* The sensor sends without a break, and the thread is never stopped.
FairSensorSpec ==
  /\ SensorSpec
  /\ WF_sensorVars(Transmit)
  /\ WF_sensorVars(Flush \/ Receive \/ StoreTorque \/ StoreSpeed \/ StorePower)
  /\ WF_pc(Checked)

-----------------------------------------------------------------------------
\* Type invariant.  The window that is still to be read always ends at the
\* end of the frame: with whatever lengths and failures of read(), the thread
\* never stores behind the sixth byte.
SensorTypeOK ==
  /\ frame \in Frames /\ at \in 0 .. FrameLen - 1
  /\ tty \in Seq(Byte) /\ Len(tty) <= TtyMax
  /\ pc \in {"flush", "read", "check", "torque", "speed", "power", "broken"}
  /\ flushes \in 0 .. 3
  /\ buf \in Seq(Byte)
  /\ rest_len = FrameLen - Len(buf) /\ rest_len \in 0 .. FrameLen
  /\ pc \in {"check", "torque", "speed", "power"} => rest_len = 0
  /\ g_torque \in Int /\ g_speed \in Nat /\ g_power \in Int
  /\ reader \in {"idle", "speed", "power", "done"}
  /\ faults \in 0 .. MaxFaults
  /\ disturbed \in BOOLEAN

\* A sample is thrown away, and the line flushed, only after a byte was lost,
\* a read failed or a flush cut a frame: frames that arrive whole are taken.
FlushExplained == pc = "flush" => disturbed

\* Between frames the three values are those of one frame the sensor sent: no
\* window of the stream that lies across two frames, or has lost a byte, is
\* taken for a frame, and power belongs to torque and speed.
PublishedWasSent ==
  pc \in {"flush", "read", "check"} =>
    [torque |-> g_torque, speed |-> g_speed, power |-> g_power]
      \in {NoSample} \cup {Sample(f) : f \in Frames}

\* Six bytes in the order of the line: byte k of frames sent one after the
\* other, from any byte s on, d[i] bytes lost since then before the i-th.
Sent == [0 .. MaxFaults + 1 -> Frames]
OnLine(sent, k) == sent[k \div FrameLen][(k % FrameLen) + 1]
Losses == {d \in [1 .. FrameLen -> 0 .. MaxFaults] :
             \A i, j \in 1 .. FrameLen : i <= j => d[i] <= d[j]}
WindowAt(sent, s, d) == [i \in 1 .. FrameLen |-> OnLine(sent, s + i - 1 + d[i])]

\* What PublishedWasSent rests on: of the windows that so many losses can
\* make, the CRC accepts those only that are frames.
CrcTells ==
  \A sent \in Sent, s \in 0 .. FrameLen - 1, d \in Losses :
    CrcOK(WindowAt(sent, s, d)) => WindowAt(sent, s, d) \in Frames

\* What get_dy200_info returns may mix samples, since it loads while the
\* thread stores; but each value belongs to a sample that was the last one
\* published when the call began, or a newer one, so a call that meets no
\* store returns one sample.
Fresh(v, field) == \E s \in recent : s[field] = v
TripleFresh ==
  /\ reader # "idle" => Fresh(triple.torque, "torque")
  /\ reader \in {"power", "done"} => Fresh(triple.speed, "speed")
  /\ reader = "done" => Fresh(triple.power, "power")

\* The bytes the thread has yet to read begin where its frame goes on.
InStep == pc # "broken" /\ (at - Len(tty) - Len(buf)) % FrameLen = 0

\* A thread that gets in step and stays so keeps publishing.
KeepsPublishing == <>[]InStep => []<>(pc = "power")

\* A thread that is out of step finds out and flushes the line, unless another
\* lost byte puts it in step.  Whether the flush does is up to the line.
NoticesLostStep == ~InStep ~> (InStep \/ pc \in {"flush", "broken"})
=============================================================================

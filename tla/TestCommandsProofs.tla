------------------------- MODULE TestCommandsProofs -------------------------
(***************************************************************************)
(* For any motors, levels and length of the ramps: the commands are a      *)
(* client of CommuThread, so that what CommuThreadProofs shows of any      *)
(* client holds of the bench; each field holds what the command that runs  *)
(* stored in it last (LastHeld); and with what the scripts end in, store   *)
(* by store, follows how a test leaves the bench.                          *)
(***************************************************************************)
EXTENDS TestCommands, CommuThreadProofs, SequenceTheorems, FiniteSetTheorems

\* What a step of a command may store, or where it may jump.
Ops(n) ==
  [op : {"enable"}, m : {0, 1}, vals : SUBSET Bit]
    \cup [op : {"tor", "vel"}, m : {0, 1}, vals : SUBSET Levels]
    \cup [op : {"protocol"}, m : {0, 1}, vals : SUBSET Protocols]
    \cup [op : {"des"}, m : {1}, vals : SUBSET Torques]
    \cup [op : {"key", "jump", "crash"}, m : {0, 1}, vals : SUBSET (1 .. n)]

\* A sequence of one step.
LEMMA One == ASSUME NEW S, NEW e \in S PROVE <<e>> \in Seq(S) /\ Len(<<e>>) = 1
<1>1. <<>> \in Seq(S) /\ Len(<<>>) = 0
  BY EmptySeq
<1>2. Append(<<>>, e) \in Seq(S) /\ Len(Append(<<>>, e)) = 0 + 1
  BY <1>1, AppendProperties, Zenon
<1>3. Append(<<>>, e) = <<e>>
  BY SMT
<1>4. QED
  BY <1>2, <1>3, SMT

\* Whatever a ramp or a command stores is a level.
LEMMA LevelsOfRamp == Torques \subseteq Levels /\ HalfSteps + 1 \in Levels
                        /\ HalfSteps \in Torques /\ 0 \in Torques
                        /\ 1 \in Torques /\ -1 \in Torques /\ -HalfSteps \in Torques
<1>1. HalfSteps \in Nat \ {0} /\ -HalfSteps .. HalfSteps + 1 \subseteq Levels
  BY CommandsAssumption, Zenon
<1>2. QED
  BY <1>1, SMT DEF Torques

\* Every store of a command is one that CommuThread allows its clients.
LEMMA StoresTyped ==
  ASSUME NEW n \in Nat, NEW m \in {0, 1}
  PROVE  /\ \A v \in Bit : Enable(m, v) \in Seq(Ops(n)) /\ Len(Enable(m, v)) = 1
         /\ \A vals \in SUBSET Levels :
              /\ Tor(m, vals) \in Seq(Ops(n)) /\ Len(Tor(m, vals)) = 1
              /\ Vel(m, vals) \in Seq(Ops(n)) /\ Len(Vel(m, vals)) = 1
         /\ \A vals \in SUBSET Protocols : Protocol(m, vals) \in Seq(Ops(n))
         /\ \A vals \in SUBSET Torques : Des(vals) \in Seq(Ops(n))
         /\ \A to \in 1 .. n : /\ IfKey(to) \in Seq(Ops(n)) /\ Len(IfKey(to)) = 1
                               /\ Jump(to) \in Seq(Ops(n)) /\ Len(Jump(to)) = 1
         /\ Crash \in Seq(Ops(n))
<1>1. /\ \A v \in Bit : Op("enable", m, {v}) \in Ops(n)
      /\ \A vals \in SUBSET Levels : Op("tor", m, vals) \in Ops(n)
                                       /\ Op("vel", m, vals) \in Ops(n)
      /\ \A vals \in SUBSET Protocols : Op("protocol", m, vals) \in Ops(n)
      /\ \A vals \in SUBSET Torques : Op("des", 1, vals) \in Ops(n)
      /\ \A to \in 1 .. n : Op("key", 0, {to}) \in Ops(n) /\ Op("jump", 0, {to}) \in Ops(n)
      /\ Op("crash", 0, {}) \in Ops(n)
  BY SMT DEF Op, Ops
<1>2. QED
  BY <1>1, One, Zenon DEF Enable, Tor, Vel, Protocol, Des, IfKey, Jump, Crash

\* The k-th torque of a ramp that goes up for j steps and down for the others.
RampLevel(from, j, k) == from + (IF k <= j THEN k ELSE 2 * j - k)

IsRamp(r, m, n, from, j) ==
  /\ DOMAIN r = 1 .. n
  /\ \A k \in 1 .. n : r[k] = Op("tor", m, {RampLevel(from, j, k)})

\* A ramp is these torques, one after the other.
LEMMA RampIs ==
  ASSUME NEW m, NEW n \in Nat, NEW from \in Int, NEW j \in Nat
  PROVE  /\ IsRamp(Ramp(m, n, from, 0 .. j - 1), m, n, from, j)
         /\ \A S : (\A k \in 1 .. n : Op("tor", m, {RampLevel(from, j, k)}) \in S)
                  => Ramp(m, n, from, 0 .. j - 1) \in [1 .. n -> S]
<1> DEFINE level(k) == from + 2 * Cardinality(0 .. j - 1 \cap 0 .. k - 1) - k
<1>1. ASSUME NEW k \in 1 .. n
      PROVE  level(k) = RampLevel(from, j, k)
  <2>1. CASE k <= j
    <3>1. 0 .. j - 1 \cap 0 .. k - 1 = 0 .. k - 1
      BY <2>1, SMT
    <3>2. Cardinality(0 .. k - 1) = IF 0 > k - 1 THEN 0 ELSE k - 1 - 0 + 1
      BY FS_Interval, SMT
    <3>3. Cardinality(0 .. k - 1) = k
      BY <3>2, SMT
    <3>4. Cardinality(0 .. j - 1 \cap 0 .. k - 1) = k
      BY <3>1, <3>3, Zenon
    <3>5. QED
      BY <2>1, <3>4, SMT DEF RampLevel
  <2>2. CASE ~(k <= j)
    <3>1. 0 .. j - 1 \cap 0 .. k - 1 = 0 .. j - 1
      BY <2>2, SMT
    <3>2. Cardinality(0 .. j - 1) = IF 0 > j - 1 THEN 0 ELSE j - 1 - 0 + 1
      BY FS_Interval, SMT
    <3>3. Cardinality(0 .. j - 1) = j
      BY <3>2, SMT
    <3>4. Cardinality(0 .. j - 1 \cap 0 .. k - 1) = j
      BY <3>1, <3>3, Zenon
    <3>5. QED
      BY <2>2, <3>4, SMT DEF RampLevel
  <2>3. QED
    BY <2>1, <2>2
<1>2. Ramp(m, n, from, 0 .. j - 1) = [k \in 1 .. n |-> Op("tor", m, {level(k)})]
  BY Zenon DEF Ramp
<1> HIDE DEF level
<1>3. /\ DOMAIN Ramp(m, n, from, 0 .. j - 1) = 1 .. n
      /\ \A k \in 1 .. n : Ramp(m, n, from, 0 .. j - 1)[k] = Op("tor", m, {level(k)})
  BY <1>2, Zenon
<1>4. ASSUME NEW S, \A k \in 1 .. n : Op("tor", m, {RampLevel(from, j, k)}) \in S
      PROVE  Ramp(m, n, from, 0 .. j - 1) \in [1 .. n -> S]
  <2>1. \A k \in 1 .. n : Op("tor", m, {level(k)}) \in S
    BY <1>1, <1>4, Zenon
  <2>2. QED
    BY <1>2, <2>1, Zenon
<1>5. QED
  BY <1>1, <1>3, <1>4, Zenon DEF IsRamp

\* A ramp whose torques are levels is a sequence of stores CommuThread allows.
LEMMA RampTyped ==
  ASSUME NEW m \in {0, 1}, NEW n \in Nat, NEW from \in Int, NEW j \in Nat,
         \A k \in 1 .. n : from + (IF k <= j THEN k ELSE 2 * j - k) \in Levels
  PROVE  /\ Ramp(m, n, from, 0 .. j - 1) \in Seq(Ops(0))
         /\ Len(Ramp(m, n, from, 0 .. j - 1)) = n
<1> DEFINE e(k) == Op("tor", m, {RampLevel(from, j, k)})
<1>1. ASSUME NEW k \in 1 .. n PROVE e(k) \in Ops(0)
  BY SMT DEF Op, Ops, RampLevel
<1>2. Ramp(m, n, from, 0 .. j - 1) \in [1 .. n -> Ops(0)]
  BY <1>1, RampIs, Zenon
<1>3. [1 .. n -> Ops(0)] \subseteq Seq(Ops(0))
  BY SeqDef, Zenon
<1>4. DOMAIN Ramp(m, n, from, 0 .. j - 1) = 1 .. n
  BY <1>2, Zenon
<1>5. QED
  BY <1>2, <1>3, <1>4, LenProperties, SMT

\* The steps of a ramp of a_max_speed_tor_test and its like, up and down.
LEMMA UpDownTyped == \A m \in {0, 1} : UpDown(m) \in Seq(Ops(0))
<1> SUFFICES ASSUME NEW m \in {0, 1} PROVE UpDown(m) \in Seq(Ops(0))
  OBVIOUS
<1>1. HalfSteps \in Nat /\ 2 * HalfSteps \in Nat /\ 0 \in Int
  BY CommandsAssumption, SMT
<1>2. \A k \in 1 .. 2 * HalfSteps :
        0 + (IF k <= HalfSteps THEN k ELSE 2 * HalfSteps - k) \in Levels
  BY <1>1, LevelsOfRamp, SMT DEF Torques
<1>3. QED
  BY <1>1, <1>2, RampTyped, Zenon DEF UpDown

\* The ramps of a_max_speed_tor_test, up for the one motor and down again.
LEMMA HalfRampsTyped ==
  /\ Ramp(0, HalfSteps, 0, 0 .. HalfSteps - 1) \in Seq(Ops(0))
  /\ Ramp(0, HalfSteps, HalfSteps, {}) \in Seq(Ops(0))
<1>1. HalfSteps \in Nat /\ 0 \in Nat /\ 0 \in Int /\ HalfSteps \in Int
  BY CommandsAssumption, SMT
<1>2. \A k \in 1 .. HalfSteps :
        /\ 0 + (IF k <= HalfSteps THEN k ELSE 2 * HalfSteps - k) \in Levels
        /\ HalfSteps + (IF k <= 0 THEN k ELSE 2 * 0 - k) \in Levels
  BY <1>1, LevelsOfRamp, SMT DEF Torques
<1>3. Ramp(0, HalfSteps, 0, 0 .. HalfSteps - 1) \in Seq(Ops(0))
  BY <1>1, <1>2, RampTyped, Zenon
<1>4. Ramp(0, HalfSteps, HalfSteps, 0 .. 0 - 1) \in Seq(Ops(0))
  BY <1>1, <1>2, RampTyped, Zenon
<1>5. 0 .. 0 - 1 = {}
  BY SMT
<1>6. QED
  BY <1>3, <1>4, <1>5, Zenon

\* vesc_tor_test goes one step too far up, and no further.
LEMMA VescRampTyped ==
  /\ Ramp(0, 2 * HalfSteps, 0, 0 .. HalfSteps) \in Seq(Ops(0))
  /\ Ramp(0, 2 * HalfSteps, 0, 0 .. HalfSteps) # <<>>
<1>1. /\ HalfSteps \in Nat \ {0} /\ HalfSteps + 1 \in Nat
      /\ 2 * HalfSteps \in Nat /\ 0 \in Int
  BY CommandsAssumption, SMT
<1>2. \A k \in 1 .. 2 * HalfSteps :
        0 + (IF k <= HalfSteps + 1 THEN k ELSE 2 * (HalfSteps + 1) - k) \in Levels
  <2>1. -HalfSteps .. HalfSteps + 1 \subseteq Levels
    BY CommandsAssumption, Zenon
  <2>2. QED
    BY <1>1, <2>1, SMT
<1> DEFINE j == HalfSteps + 1
<1>3. j \in Nat /\ j - 1 = HalfSteps /\ 0 \in {0, 1}
  BY <1>1, SMT
<1>4. \A k \in 1 .. 2 * HalfSteps : 0 + (IF k <= j THEN k ELSE 2 * j - k) \in Levels
  BY <1>2, Zenon
<1> HIDE DEF j
<1>5. /\ Ramp(0, 2 * HalfSteps, 0, 0 .. j - 1) \in Seq(Ops(0))
      /\ Len(Ramp(0, 2 * HalfSteps, 0, 0 .. j - 1)) = 2 * HalfSteps
  BY <1>1, <1>3, <1>4, RampTyped, Zenon
<1>6. Len(<<>>) # 2 * HalfSteps
  <2>1. Len(<<>>) = 0
    BY EmptySeq
  <2>2. QED
    BY <1>1, <2>1, SMT
<1>7. QED
  BY <1>3, <1>5, <1>6, Zenon

\* Stores only: no jump that depends on the length of the command.
Stores(s) == \A n \in Nat : s \in Seq(Ops(n))

\* The loop of the key jumps within the command.
LEMMA UntilKeyTyped ==
  ASSUME NEW forth, NEW back, Len(forth) \in Nat, Len(back) \in Nat,
         Stores(forth), Stores(back)
  PROVE  /\ UntilKey(forth, back) \in Seq(Ops(Len(UntilKey(forth, back))))
         /\ UntilKey(forth, back) # <<>>
<1> DEFINE out == 3 + Len(forth) + Len(back) + 4
           size == out + 1
           S == Seq(Ops(size))
           a == Enable(0, 1) \o Enable(1, 1)
           b == a \o IfKey(out)
           c == b \o forth
           d == c \o IfKey(out)
           e == d \o back
           f == e \o IfKey(out)
           g == f \o Jump(3)
           h == g \o Enable(0, 0)
           i == h \o Enable(1, 0)
<1>1. size \in Nat /\ out \in 1 .. size /\ 3 \in 1 .. size /\ 0 \in Bit /\ 1 \in Bit
  BY SMT DEF Bit
<1>s. size = 8 + Len(forth) + Len(back)
  BY SMT
<1>2. forth \in S /\ back \in S
  BY <1>1 DEF Stores
<1>3. /\ \A m \in {0, 1} : \A v \in Bit : Enable(m, v) \in S /\ Len(Enable(m, v)) = 1
      /\ IfKey(out) \in S /\ Len(IfKey(out)) = 1
      /\ Jump(3) \in S /\ Len(Jump(3)) = 1
  BY <1>1, StoresTyped, Zenon
<1> DEFINE Of(s, n) == s \in S /\ Len(s) = n
<1>4. /\ Of(Enable(0, 1), 1) /\ Of(Enable(1, 1), 1)
      /\ Of(Enable(0, 0), 1) /\ Of(Enable(1, 0), 1)
      /\ Of(IfKey(out), 1) /\ Of(Jump(3), 1)
      /\ Of(forth, Len(forth)) /\ Of(back, Len(back))
  BY <1>1, <1>2, <1>3, SMT
<1>5. ASSUME NEW s, NEW t, NEW k, NEW n, Of(s, k), Of(t, n)
      PROVE  Of(s \o t, k + n)
  BY <1>5, ConcatProperties, Zenon
<1> HIDE DEF S, out, size, Of
<1>6. Of(e, 1 + 1 + 1 + Len(forth) + 1 + Len(back))
  BY <1>4, <1>5, Zenon
<1> HIDE DEF e
<1>7. Of(i, 1 + 1 + 1 + Len(forth) + 1 + Len(back) + 1 + 1 + 1 + 1)
  BY <1>4, <1>5, <1>6, Zenon
<1>8. i \in S /\ Len(i) = size
  <2>1. 1 + 1 + 1 + Len(forth) + 1 + Len(back) + 1 + 1 + 1 + 1 = size
    BY <1>s, SMT
  <2>2. QED
    BY <1>7, <2>1, Zenon DEF Of
<1>9. UntilKey(forth, back) = i
  BY Zenon DEF UntilKey, e, out
<1>10. Len(<<>>) # size
  <2>1. Len(<<>>) = 0
    BY EmptySeq
  <2>2. QED
    BY <1>s, <2>1, SMT
<1>11. QED
  BY <1>8, <1>9, <1>10, Zenon DEF S

-----------------------------------------------------------------------------
Regulated == {"ttor_test_new", "ttor_test_new_nofile", "vves_test", "vves_test_noargs"}

\* Each command but the two that wait for a key.
LEMMA StraightTyped ==
  ASSUME NEW c \in Commands, c \notin {"dir_test", "dir_test2"}
  PROVE  Script[c] \in Seq(Ops(0)) /\ Script[c] # <<>>
<1> DEFINE S == Seq(Ops(0))
           N == S \ {<<>>}
<1>1. /\ 0 \in Bit /\ 1 \in Bit /\ Bit \in SUBSET Bit /\ 0 \in Nat
      /\ {0} \in SUBSET Protocols /\ Protocols \in SUBSET Protocols
      /\ Torques \in SUBSET Levels /\ Torques \in SUBSET Torques
      /\ {HalfSteps} \in SUBSET Torques /\ {0} \in SUBSET Torques
  BY LevelsOfRamp, BenchAssumption, SMT DEF Bit
<1>2. /\ \A m \in {0, 1} : \A v \in Bit : Enable(m, v) \in S
      /\ \A m \in {0, 1} : Tor(m, Torques) \in S /\ Vel(m, Torques) \in S
      /\ \A m \in {0, 1} : \A vals \in SUBSET Protocols : Protocol(m, vals) \in S
      /\ Des(Torques) \in S /\ Des({HalfSteps}) \in S /\ Des({0}) \in S
      /\ Crash \in S /\ <<>> \in S
      /\ \A m \in {0, 1} : UpDown(m) \in S
  BY <1>1, StoresTyped, UpDownTyped, EmptySeq, Zenon
<1>3. ASSUME NEW s \in S, NEW t \in S
      PROVE  s \o t \in S /\ (s # <<>> => s \o t # <<>>)
  <2>1. s \o t \in S
    BY ConcatProperties, Zenon
  <2>2. s \o t = <<>> => s = <<>>
    BY ConcatEqualIffEmpty, SMT
  <2>3. QED
    BY <2>1, <2>2, Zenon
<1>n. ASSUME NEW s \in N, NEW t \in S PROVE s \o t \in N
  BY <1>3, Zenon
<1>f. /\ \A m \in {0, 1} : \A v \in Bit : Enable(m, v) # <<>>
      /\ \A m \in {0, 1} : Tor(m, Torques) # <<>> /\ Vel(m, Torques) # <<>>
      /\ \A m \in {0, 1} : \A vals \in SUBSET Protocols : Protocol(m, vals) # <<>>
      /\ Des(Torques) # <<>> /\ Crash # <<>>
      /\ \A m \in {0, 1} : <<Op("enable", m, Bit)>> # <<>>
  BY SMT DEF Enable, Tor, Vel, Protocol, Des, Crash
<1>4. \A m \in {0, 1} : <<Op("enable", m, Bit)>> \in S
  <2>1. \A m \in {0, 1} : Op("enable", m, Bit) \in Ops(0)
    BY SMT DEF Op, Ops
  <2>2. QED
    BY <2>1, One, Zenon
<1> HIDE DEF S
<1>5. \A file \in BOOLEAN : Closed(file) \in S
  BY <1>2, Zenon DEF Closed
<1>6. c \in Regulated => {2} \in SUBSET Protocols
  BY CommandsAssumption, Zenon DEF Regulated
<1>7. ASSUME c \in Regulated PROVE Script[c] \in N
  <2>1. Protocol(1, {2}) \in N /\ Protocol(1, {0}) \in S
    BY <1>1, <1>2, <1>f, <1>6, <1>7, Zenon
  <2>2. ASSUME NEW file \in BOOLEAN PROVE TtorTestNew(file) \in N
    <3> DEFINE a == Protocol(1, {2}) \o Enable(0, 1) \o Enable(1, 1)
               b == a \o Des({HalfSteps}) \o UpDown(0)
               d == b \o Enable(0, 0) \o Enable(1, 0)
    <3>1. a \in N
      BY <1>1, <1>2, <1>n, <2>1, Zenon
    <3> HIDE DEF a, N
    <3>2. b \in N
      BY <1>1, <1>2, <1>n, <3>1, Zenon
    <3> HIDE DEF b
    <3>3. d \in N
      BY <1>1, <1>2, <1>n, <3>2, Zenon
    <3> HIDE DEF d
    <3>4. d \o Des({0}) \o Protocol(1, {0}) \o Closed(file) \in N
      BY <1>1, <1>2, <1>n, <1>5, <2>1, <3>3, Zenon
    <3>5. QED
      BY <3>4, Zenon DEF TtorTestNew, a, b, d
  <2>3. ASSUME NEW args \in BOOLEAN PROVE VvesTest(args) \in N
    BY <1>1, <1>2, <1>3, <2>1, Zenon DEF VvesTest
  <2>4. \/ Script[c] = TtorTestNew(TRUE) \/ Script[c] = TtorTestNew(FALSE)
        \/ Script[c] = VvesTest(TRUE) \/ Script[c] = VvesTest(FALSE)
    <3>1. /\ Script["ttor_test_new"] = TtorTestNew(TRUE)
          /\ Script["ttor_test_new_nofile"] = TtorTestNew(FALSE)
          /\ Script["vves_test"] = VvesTest(TRUE)
          /\ Script["vves_test_noargs"] = VvesTest(FALSE)
      BY Zenon DEF Script
    <3>2. QED
      BY <1>7, <3>1, Zenon DEF Regulated
  <2>5. QED
    BY <2>2, <2>3, <2>4, Zenon
<1>8. TorTest \in N /\ ExtremeConditionTesting \in N
  BY <1>1, <1>2, <1>3, <1>f, Zenon DEF TorTest, ExtremeConditionTesting
<1>9. \A file \in BOOLEAN : AMaxSpeedTorTest(file) \in N /\ VescTorTest(file) \in N
  <2>1. ASSUME NEW file \in BOOLEAN PROVE AMaxSpeedTorTest(file) \in N
    <3> DEFINE up == Ramp(0, HalfSteps, 0, 0 .. HalfSteps - 1)
               down == Ramp(0, HalfSteps, HalfSteps, {})
               a == Enable(0, 1) \o Enable(1, 1) \o up
               b == a \o UpDown(1) \o down
    <3>1. up \in S /\ down \in S
      BY HalfRampsTyped, Zenon DEF S
    <3> HIDE DEF up, down
    <3>2. Enable(0, 1) \in N
      BY <1>1, <1>2, <1>f, Zenon
    <3> HIDE DEF N
    <3>3. a \in N
      BY <1>1, <1>2, <1>n, <3>1, <3>2, Zenon
    <3> HIDE DEF a
    <3>4. b \in N
      BY <1>2, <1>n, <3>1, <3>3, Zenon
    <3> HIDE DEF b
    <3>5. b \o Enable(0, 0) \o Enable(1, 0) \o Closed(file) \in N
      BY <1>1, <1>2, <1>n, <1>5, <3>4, Zenon
    <3>6. QED
      BY <3>5, Zenon DEF AMaxSpeedTorTest, a, b, up, down
  <2>2. ASSUME NEW file \in BOOLEAN PROVE VescTorTest(file) \in N
    BY <1>2, <1>f, VescRampTyped, Zenon DEF VescTorTest, S
  <2>3. QED
    BY <2>1, <2>2
<1>10. c \in {"s_torq", "s2_torq", "s_vel", "s_pid_vel", "m_enable", "m_enable2",
              "change_protocol0", "change_protocol1", "tor_test",
              "a_max_speed_tor_test", "a_max_speed_tor_test_nofile",
              "extreme_condition_testing", "vesc_tor_test", "vesc_tor_test_nofile"}
         \/ c \in Regulated
  <2>1. c \in DOMAIN Script
    BY CommandsAssumption
  <2>2. QED
    BY <2>1, SMT DEF Script, Regulated
<1>11. ASSUME c \notin Regulated PROVE Script[c] \in N
  <2>1. /\ Script["s_torq"] = Tor(0, Torques) /\ Script["s2_torq"] = Tor(1, Torques)
        /\ Script["s_vel"] = Vel(1, Torques) /\ Script["s_pid_vel"] = Des(Torques)
        /\ Script["m_enable"] = <<Op("enable", 0, Bit)>>
        /\ Script["m_enable2"] = <<Op("enable", 1, Bit)>>
        /\ Script["change_protocol0"] = Protocol(0, Protocols)
        /\ Script["change_protocol1"] = Protocol(1, Protocols)
        /\ Script["tor_test"] = TorTest
        /\ Script["extreme_condition_testing"] = ExtremeConditionTesting
        /\ Script["a_max_speed_tor_test"] = AMaxSpeedTorTest(TRUE)
        /\ Script["a_max_speed_tor_test_nofile"] = AMaxSpeedTorTest(FALSE)
        /\ Script["vesc_tor_test"] = VescTorTest(TRUE)
        /\ Script["vesc_tor_test_nofile"] = VescTorTest(FALSE)
    BY Zenon DEF Script
  <2>2. CASE c \in {"s_torq", "s2_torq", "s_vel", "s_pid_vel", "m_enable",
                    "m_enable2", "change_protocol0", "change_protocol1"}
    BY <1>1, <1>2, <1>f, <1>4, <2>1, <2>2, Zenon
  <2>3. CASE c \in {"tor_test", "extreme_condition_testing",
                    "a_max_speed_tor_test", "a_max_speed_tor_test_nofile",
                    "vesc_tor_test", "vesc_tor_test_nofile"}
    BY <1>8, <1>9, <2>1, <2>3, Zenon
  <2>4. QED
    BY <1>10, <1>11, <2>2, <2>3, Zenon
<1>12. QED
  BY <1>7, <1>11 DEF S

\* Every command is a sequence of stores CommuThread allows, and of jumps
\* within the command.
LEMMA ScriptTyped ==
  ASSUME NEW c \in Commands
  PROVE  Script[c] \in Seq(Ops(Len(Script[c]))) /\ Script[c] # <<>>
<1>1. CASE c \notin {"dir_test", "dir_test2"}
  <2>1. Script[c] \in Seq(Ops(0)) /\ Script[c] # <<>>
    BY <1>1, StraightTyped
  <2>2. Ops(0) \subseteq Ops(Len(Script[c]))
    <3>1. Len(Script[c]) \in Nat
      BY <2>1, LenProperties
    <3>2. \A n \in Nat : Ops(0) \subseteq Ops(n)
      BY SMT DEF Ops
    <3>3. QED
      BY <3>1, <3>2
  <2>3. QED
    BY <2>1, <2>2, SeqMonotonic, Zenon
<1>2. CASE c \in {"dir_test", "dir_test2"}
  <2>1. ASSUME NEW n \in Nat, NEW m \in {0, 1}, NEW v \in Torques \cup {HalfSteps}
        PROVE  /\ Tor(m, {v}) \in Seq(Ops(n)) /\ Len(Tor(m, {v})) = 1
               /\ Vel(m, {v}) \in Seq(Ops(n)) /\ Len(Vel(m, {v})) = 1
    <3>1. {v} \in SUBSET Levels
      BY LevelsOfRamp, SMT
    <3>2. QED
      BY <3>1, StoresTyped, Zenon
  <2>2. ASSUME NEW s, NEW t, Stores(s), Stores(t), Len(s) \in Nat, Len(t) \in Nat
        PROVE  Stores(s \o t) /\ Len(s \o t) \in Nat
    <3>1. Stores(s \o t)
      BY <2>2, ConcatProperties, Zenon DEF Stores
    <3>2. Len(s \o t) \in Nat
      <4>1. s \o t \in Seq(Ops(0))
        BY <3>1, SMT DEF Stores
      <4>2. QED
        BY <4>1, LenProperties, Zenon
    <3>3. QED
      BY <3>1, <3>2
  <2>3. ASSUME NEW m \in {0, 1}, NEW v \in Torques
        PROVE  /\ Stores(Tor(m, {v})) /\ Len(Tor(m, {v})) \in Nat
               /\ Stores(Vel(m, {v})) /\ Len(Vel(m, {v})) \in Nat
    <3>1. 0 \in Nat /\ 1 \in Nat
      BY SMT
    <3>2. QED
      BY <2>1, <3>1, Zenon DEF Stores
  <2>4. Script[c] \in {DirTest, DirTest2}
    BY <1>2, SMT DEF Script
  <2>5. DirTest \in Seq(Ops(Len(DirTest))) /\ DirTest # <<>>
    <3>1. /\ Stores(Tor(0, {0}) \o Vel(1, {-1}) \o Tor(0, {HalfSteps}))
          /\ Len(Tor(0, {0}) \o Vel(1, {-1}) \o Tor(0, {HalfSteps})) \in Nat
          /\ Stores(Tor(0, {0}) \o Vel(1, {1}) \o Tor(0, {-HalfSteps}))
          /\ Len(Tor(0, {0}) \o Vel(1, {1}) \o Tor(0, {-HalfSteps})) \in Nat
      BY <2>2, <2>3, LevelsOfRamp, Zenon
    <3>2. QED
      BY <3>1, UntilKeyTyped, Zenon DEF DirTest
  <2>6. DirTest2 \in Seq(Ops(Len(DirTest2))) /\ DirTest2 # <<>>
    <3>1. /\ Stores(Tor(0, {HalfSteps}) \o Vel(1, {-1}))
          /\ Len(Tor(0, {HalfSteps}) \o Vel(1, {-1})) \in Nat
          /\ Stores(Tor(0, {-1}) \o Vel(1, {-1}))
          /\ Len(Tor(0, {-1}) \o Vel(1, {-1})) \in Nat
      BY <2>2, <2>3, LevelsOfRamp, Zenon
    <3>2. QED
      BY <3>1, UntilKeyTyped, Zenon DEF DirTest2
  <2>7. QED
    BY <2>4, <2>5, <2>6, Zenon
<1>3. QED
  BY <1>1, <1>2

-----------------------------------------------------------------------------
\* The step of a command is one of its script.
AtStep ==
  /\ step \in Nat
  /\ step > 0 => cmd \in Commands /\ step \in 1 .. Len(Script[cmd])

BenchSteps == AtStep /\ pid_des \in Torques

\* What a step that is under way stores, and where it goes on.
LEMMA StepTyped ==
  ASSUME AtStep, step > 0
  PROVE  /\ Script[cmd][step] \in Ops(Len(Script[cmd]))
         /\ Len(Script[cmd]) \in Nat
         /\ After(step) \in 0 .. Len(Script[cmd])
<1>1. Script[cmd] \in Seq(Ops(Len(Script[cmd])))
  BY ScriptTyped DEF AtStep
<1>2. Len(Script[cmd]) \in Nat
  BY <1>1, LenProperties
<1>3. Script[cmd][step] \in Ops(Len(Script[cmd]))
  BY <1>1, ElementOfSeq DEF AtStep
<1>4. After(step) \in 0 .. Len(Script[cmd])
  BY <1>2, SMT DEF After, AtStep
<1>5. QED
  BY <1>2, <1>3, <1>4

\* A command stays in its script and the regulator's set-point within the ramp.
THEOREM StepsAreOfScript == BenchSpec => []BenchSteps
<1>1. BenchInit => BenchSteps
  BY LevelsOfRamp, SMT DEF BenchInit, AtStep, BenchSteps
<1>2. BenchSteps /\ [BenchNext]_benchVars => BenchSteps'
  <2> SUFFICES ASSUME AtStep, pid_des \in Torques, [BenchNext]_benchVars
               PROVE  AtStep' /\ pid_des' \in Torques
    BY DEF BenchSteps
  <2>1. CASE StartCommand
    <3>1. cmd' \in Commands /\ step' = 1 /\ pid_des' = pid_des
      BY <2>1, SMT DEF StartCommand
    <3>2. \A c \in Commands : Len(Script[c]) \in Nat \ {0}
      BY ScriptTyped, EmptySeq, Zenon
    <3>3. QED
      BY <3>1, <3>2, SMT DEF AtStep
  <2>2. CASE StoreStep
    <3>1. /\ step > 0 /\ cmd' = cmd /\ step' = After(step)
          /\ \E v \in Script[cmd][step].vals :
               \/ pid_des' = pid_des
               \/ Script[cmd][step].op = "des" /\ pid_des' = v
      BY <2>2, SMT DEF StoreStep
    <3>2. Script[cmd][step].op = "des" => Script[cmd][step].vals \subseteq Torques
      BY <3>1, StepTyped, SMT DEF Ops
    <3>3. pid_des' \in Torques
      BY <3>1, <3>2, SMT
    <3>4. AtStep'
      BY <3>1, StepTyped, SMT DEF AtStep
    <3>5. QED
      BY <3>3, <3>4
  <2>3. CASE FlowStep
    <3>1. /\ step > 0 /\ cmd' = cmd /\ pid_des' = pid_des
          /\ \/ /\ Script[cmd][step].op \in {"key", "jump"}
                /\ step' \in Script[cmd][step].vals
             \/ step' = After(step)
      BY <2>3, SMT DEF FlowStep
    <3>2. Script[cmd][step].op \in {"key", "jump"}
            => Script[cmd][step].vals \subseteq 1 .. Len(Script[cmd])
      BY <3>1, StepTyped, SMT DEF Ops
    <3>3. step' \in 0 .. Len(Script[cmd]) /\ Len(Script[cmd]) \in Nat
      BY <3>1, <3>2, StepTyped, SMT
    <3>4. QED
      BY <3>1, <3>3, SMT DEF AtStep
  <2>4. CASE CrashStep \/ Quit \/ CommuStep \/ UNCHANGED benchVars
    <3>1. cmd' = cmd /\ step' = step /\ pid_des' = pid_des
      BY <2>4, SMT DEF CrashStep, Quit, CommuStep, benchVars
    <3>2. QED
      BY <3>1, SMT DEF AtStep
  <2>5. QED
    BY <2>1, <2>2, <2>3, <2>4, Zenon DEF BenchNext, CommandStep
<1>3. QED
  BY <1>1, <1>2, PTL DEF BenchSpec

\* What is true of CommuThread with any client is true of it with the bench:
\* the stores of a command are those of some client, and every other step of the
\* shell leaves g_motor be.
LEMMA BenchImplementsCommu == BenchSpec => Spec
<1>1. BenchInit => Init
  BY DEF BenchInit
<1>2. BenchSteps /\ [BenchNext]_benchVars => [Next]_vars
  <2> SUFFICES ASSUME AtStep, [BenchNext]_benchVars PROVE [Next]_vars
    BY DEF BenchSteps
  <2>1. CASE StoreStep
    <3> DEFINE s == Script[cmd][step]
    <3>1. PICK v \in s.vals :
            \/ s.op = "enable" /\ SetEnable(s.m, v)
            \/ s.op = "tor" /\ set_motor_tor(s.m, v)
            \/ s.op = "vel" /\ set_motor_vel(s.m, v)
            \/ s.op = "protocol" /\ change_protocol(s.m, v)
            \/ s.op = "des" /\ UNCHANGED vars
      BY <2>1, Zenon DEF StoreStep
    <3>2. s \in Ops(Len(Script[cmd]))
      BY <2>1, StepTyped DEF StoreStep
    <3>3. /\ s.m \in {0, 1}
          /\ s.op = "enable" => v \in Bit
          /\ s.op \in {"tor", "vel"} => v \in Levels
          /\ s.op = "protocol" => v \in Protocols
      BY <3>2, SMT DEF Ops
    <3>4. s.m \in Motors
      BY <3>3, CommandsAssumption, Zenon
    <3>5. QED
      BY <3>1, <3>3, <3>4, Zenon DEF Next, Shell
  <2>2. CASE CommuStep
    BY <2>2, Zenon DEF CommuStep, Next
  <2>3. CASE StartCommand \/ FlowStep \/ CrashStep \/ Quit
    BY <2>3, Zenon DEF StartCommand, FlowStep, CrashStep, Quit
  <2>4. CASE UNCHANGED benchVars
    BY <2>4, SMT DEF benchVars
  <2>5. QED
    BY <2>1, <2>2, <2>3, <2>4, Zenon DEF BenchNext, CommandStep
<1>3. QED
  BY <1>1, <1>2, StepsAreOfScript, PTL DEF BenchSpec, Spec

\* Every step of the bench keeps the variables in their types.
THEOREM BenchTypeCorrect == BenchSpec => []BenchTypeOK
<1> DEFINE Rest == cmd \in Commands \cup {"none"} /\ running \in BOOLEAN
<1>1. BenchInit => Rest
  BY Zenon DEF BenchInit
<1>2. Rest /\ [BenchNext]_benchVars => Rest'
  <2> SUFFICES ASSUME Rest, [BenchNext]_benchVars PROVE Rest'
    OBVIOUS
  <2>1. CASE BenchNext
    BY <2>1, Zenon DEF BenchNext, CommandStep, StartCommand, StoreStep, FlowStep,
       CrashStep, Quit, CommuStep
  <2>2. CASE UNCHANGED benchVars
    <3>1. cmd' = cmd /\ running' = running
      BY <2>2, SMT DEF benchVars
    <3>2. QED
      BY <3>1, Zenon
  <2>3. QED
    BY <2>1, <2>2
<1>3. BenchSpec => []Rest
  <2> HIDE DEF Rest
  <2>1. QED
    BY <1>1, <1>2, PTL DEF BenchSpec
<1>4. BenchSteps /\ TypeOK /\ Rest => BenchTypeOK
  <2> SUFFICES ASSUME BenchSteps, TypeOK, Rest PROVE BenchTypeOK
    OBVIOUS
  <2>1. ASSUME step > 0 PROVE step \in DOMAIN Script[cmd]
    <3>1. Script[cmd] \in Seq(Ops(Len(Script[cmd]))) /\ step \in 1 .. Len(Script[cmd])
      BY <2>1, ScriptTyped DEF BenchSteps, AtStep
    <3>2. QED
      BY <3>1, LenProperties, Zenon
  <2>2. QED
    BY <2>1, Zenon DEF BenchTypeOK, BenchSteps, AtStep
<1> HIDE DEF Rest
<1>5. QED
  BY <1>3, <1>4, StepsAreOfScript, BenchImplementsCommu, TypeCorrect, PTL

-----------------------------------------------------------------------------
(* What is left behind.  A command's stores of one field are ordered, and  *)
(* while no jump passes over one, the field holds what the last of them    *)
(* that was made put there.                                                *)

Matches(e, op, m) == e.op = op /\ e.m = m

\* s stores op of m nowhere, only from V, or last of all exactly from V.
Free(s, op, m) == \A k \in DOMAIN s : ~Matches(s[k], op, m)
Within(s, op, m, V) == \A k \in DOMAIN s : Matches(s[k], op, m) => s[k].vals \subseteq V
EndsIn(s, op, m, V) ==
  \E k \in DOMAIN s : /\ Matches(s[k], op, m) /\ s[k].vals = V
                      /\ \A l \in DOMAIN s : Matches(s[l], op, m) => l <= k

\* No jump of s passes over a store of op, forwards or backwards.
Direct(s, op) ==
  \A k, l \in DOMAIN s : s[k].op \in {"key", "jump"} /\ s[l].op = op =>
    \A to \in s[k].vals : (k < l /\ to <= l) \/ (l < k /\ l < to)

\* No command puts m under the regulator.
Unshared(m) ==
  \A c \in Commands : \A k \in DOMAIN Script[c] :
    Matches(Script[c][k], "protocol", m) => 2 \notin Script[c][k].vals

\* Where commu_thread is when it serves a motor of protocol 2.
Regulating == {"regulate", "output", "relax"}

\* commu_thread is never about to regulate an unshared motor.
NotRegulated ==
  \A m \in {0, 1} : Unshared(m) =>
    /\ protocol[m] # 2
    /\ motor = m => pc \notin Regulating /\ ~(pc = "decide" /\ branch = 2)

\* The stores of op of m the command has made.
Past(op, m) ==
  {k \in DOMAIN Script[cmd] : (step = 0 \/ k < step) /\ Matches(Script[cmd][k], op, m)}

\* The field those stores go to.
Held(op, m) ==
  CASE op = "enable" -> motor_enable[m]
    [] op = "tor" -> t_ff[m]
    [] op = "vel" -> v_des[m]
    [] op = "protocol" -> protocol[m]
    [] op = "des" -> pid_des

\* commu_thread stores a torque of its own in a motor under the regulator.
Own(op, m) == op = "tor" => Unshared(m)

HoldsLast(op, m) ==
  cmd \in Commands /\ Direct(Script[cmd], op) /\ Own(op, m) /\ Past(op, m) # {}
    => \E k \in Past(op, m) : /\ Held(op, m) \in Script[cmd][k].vals
                              /\ \A l \in Past(op, m) : l <= k

StoreOps == {"enable", "tor", "vel", "protocol", "des"}
LastHeld == \A op \in StoreOps, m \in {0, 1} : HoldsLast(op, m)

\* The positions of a command are those of a sequence.
LEMMA Positions ==
  ASSUME NEW c \in Commands
  PROVE  /\ Len(Script[c]) \in Nat \ {0}
         /\ DOMAIN Script[c] = 1 .. Len(Script[c])
         /\ \A k \in DOMAIN Script[c] : Script[c][k] \in Ops(Len(Script[c]))
<1>1. Script[c] \in Seq(Ops(Len(Script[c]))) /\ Script[c] # <<>>
  BY ScriptTyped
<1>2. Len(Script[c]) \in Nat \ {0}
  BY <1>1, EmptySeq, Zenon
<1>3. DOMAIN Script[c] = 1 .. Len(Script[c])
  BY <1>1, LenProperties, Zenon
<1>4. \A k \in 1 .. Len(Script[c]) : Script[c][k] \in Ops(Len(Script[c]))
  BY <1>1, ElementOfSeq, Zenon
<1>5. QED
  BY <1>2, <1>3, <1>4, Zenon

\* A step forward adds the store of the step to the past, and no other.
LEMMA PastAfter ==
  ASSUME AtStep, step > 0, cmd' = cmd, step' = After(step), NEW op, NEW m
  PROVE  Past(op, m)' = Past(op, m) \cup
           (IF Matches(Script[cmd][step], op, m) THEN {step} ELSE {})
<1>1. /\ Len(Script[cmd]) \in Nat \ {0} /\ DOMAIN Script[cmd] = 1 .. Len(Script[cmd])
      /\ step \in 1 .. Len(Script[cmd])
  BY Positions DEF AtStep
<1>2. \A k \in DOMAIN Script[cmd] :
        (step' = 0 \/ k < step') <=> (step = 0 \/ k < step) \/ k = step
  BY <1>1, SMT DEF After
<1>3. Past(op, m)' = {k \in DOMAIN Script[cmd] :
                        (step' = 0 \/ k < step') /\ Matches(Script[cmd][k], op, m)}
  BY SMT DEF Past, Matches
<1>4. Past(op, m)' = {k \in DOMAIN Script[cmd] :
                        /\ (step = 0 \/ k < step) \/ k = step
                        /\ Matches(Script[cmd][k], op, m)}
  BY <1>2, <1>3, Zenon
<1>5. step \in DOMAIN Script[cmd]
  BY <1>1, Zenon
<1> HIDE DEF Matches
<1>6. QED
  BY <1>4, <1>5, SMT DEF Past

\* A jump that passes over no store of op leaves the past as it is.
LEMMA PastJump ==
  ASSUME AtStep, step > 0, cmd' = cmd, Script[cmd][step].op \in {"key", "jump"},
         step' \in Script[cmd][step].vals, NEW op, NEW m, Direct(Script[cmd], op)
  PROVE  Past(op, m)' = Past(op, m)
<1>1. /\ Len(Script[cmd]) \in Nat \ {0} /\ DOMAIN Script[cmd] = 1 .. Len(Script[cmd])
      /\ step \in 1 .. Len(Script[cmd])
  BY Positions DEF AtStep
<1>2. Script[cmd][step] \in Ops(Len(Script[cmd]))
  BY StepTyped
<1>3. step' \in 1 .. Len(Script[cmd])
  BY <1>2, SMT DEF Ops
<1>4. ASSUME NEW k \in DOMAIN Script[cmd], Script[cmd][k].op = op
      PROVE  (step' = 0 \/ k < step') <=> (step = 0 \/ k < step)
  <2>1. (step < k /\ step' <= k) \/ (k < step /\ k < step')
    BY <1>1, <1>4, SMT DEF Direct
  <2>2. QED
    BY <1>1, <1>3, <2>1, SMT
<1>5. Past(op, m)' = {k \in DOMAIN Script[cmd] :
                        (step' = 0 \/ k < step') /\ Matches(Script[cmd][k], op, m)}
  BY SMT DEF Past, Matches
<1>6. QED
  BY <1>4, <1>5, Zenon DEF Past, Matches

\* A store of a command goes to the field it names and to no other.
LEMMA StoreHeld ==
  ASSUME AtStep, TypeOK, StoreStep
  PROVE  /\ step > 0 /\ cmd' = cmd /\ step' = After(step)
         /\ \E v \in Script[cmd][step].vals :
              \A op \in StoreOps, m \in {0, 1} :
                Held(op, m)' = IF op = Script[cmd][step].op
                                    /\ (op = "des" \/ m = Script[cmd][step].m)
                               THEN v ELSE Held(op, m)
<1> DEFINE s == Script[cmd][step]
<1>1. PICK v \in s.vals :
        \/ s.op = "enable" /\ SetEnable(s.m, v) /\ UNCHANGED pid_des
        \/ s.op = "tor" /\ set_motor_tor(s.m, v) /\ UNCHANGED pid_des
        \/ s.op = "vel" /\ set_motor_vel(s.m, v) /\ UNCHANGED pid_des
        \/ s.op = "protocol" /\ change_protocol(s.m, v) /\ UNCHANGED pid_des
        \/ s.op = "des" /\ pid_des' = v /\ UNCHANGED vars
  BY Zenon DEF StoreStep
<1>2. step > 0 /\ cmd' = cmd /\ step' = After(step)
  BY SMT DEF StoreStep
<1>3. s.m \in {0, 1} /\ {0, 1} \subseteq Motors
  <2>1. s \in Ops(Len(Script[cmd]))
    BY <1>2, StepTyped
  <2>2. QED
    BY <2>1, CommandsAssumption, SMT DEF Ops
<1> HIDE DEF s
<1>4. /\ DOMAIN motor_enable = Motors /\ DOMAIN t_ff = Motors
      /\ DOMAIN v_des = Motors /\ DOMAIN protocol = Motors
  BY SMT DEF TypeOK
<1>5. ASSUME NEW op \in StoreOps, NEW m \in {0, 1}
      PROVE  Held(op, m)' = IF op = s.op /\ (op = "des" \/ m = s.m) THEN v ELSE Held(op, m)
  <2>1. CASE s.op = "enable" /\ SetEnable(s.m, v) /\ UNCHANGED pid_des
    BY <1>3, <1>4, <2>1, SMT DEF SetEnable, Held, StoreOps
  <2>2. CASE s.op = "tor" /\ set_motor_tor(s.m, v) /\ UNCHANGED pid_des
    BY <1>3, <1>4, <2>2, SMT DEF set_motor_tor, Held, StoreOps
  <2>3. CASE s.op = "vel" /\ set_motor_vel(s.m, v) /\ UNCHANGED pid_des
    BY <1>3, <1>4, <2>3, SMT DEF set_motor_vel, Held, StoreOps
  <2>4. CASE s.op = "protocol" /\ change_protocol(s.m, v) /\ UNCHANGED pid_des
    BY <1>3, <1>4, <2>4, SMT DEF change_protocol, Held, StoreOps
  <2>5. CASE s.op = "des" /\ pid_des' = v /\ UNCHANGED vars
    BY <2>5, SMT DEF vars, shared, Held, StoreOps
  <2>6. QED
    BY <1>1, <2>1, <2>2, <2>3, <2>4, <2>5, Zenon
<1>6. QED
  BY <1>1, <1>2, <1>5, Zenon DEF s

\* commu_thread stores nothing but the regulator's output.
LEMMA CommuHeld ==
  ASSUME TypeOK, NotRegulated, Commu, NEW op \in StoreOps, NEW m \in {0, 1},
         op = "des" => UNCHANGED pid_des, Own(op, m)
  PROVE  Held(op, m)' = Held(op, m)
<1>1. /\ UNCHANGED <<motor_enable, protocol, v_des>>
      /\ \/ UNCHANGED t_ff
         \/ pc \in Regulating /\ \E x : t_ff' = [t_ff EXCEPT ![motor] = x]
  BY SMT DEF Commu, DelayDone, DispatchProtocol, DecideEdge, Regulate, StoreOutput, Relax,
     StoreTorque, PackCommand, Deliver, Lose, Sent, RecordEnable, shared, Regulating
<1>2. CASE op = "tor"
  <2>1. pc \notin Regulating \/ motor # m
    BY <1>2, Zenon DEF Own, NotRegulated
  <2>2. QED
    BY <1>1, <1>2, <2>1, SMT DEF Held
<1>3. CASE op # "tor"
  BY <1>1, <1>3, SMT DEF Held, StoreOps
<1>4. QED
  BY <1>2, <1>3

\* Whatever a command does, each field it stores holds what the last of its
\* stores so far put there.
LEMMA LastHeldKept ==
  ASSUME AtStep, TypeOK, NotRegulated, LastHeld, [BenchNext]_benchVars
  PROVE  LastHeld'
<1> SUFFICES ASSUME NEW op \in StoreOps, NEW m \in {0, 1},
                    cmd' \in Commands, Direct(Script[cmd'], op), Own(op, m),
                    Past(op, m)' # {}
             PROVE  \E k \in Past(op, m)' :
                      /\ Held(op, m)' \in Script[cmd'][k].vals
                      /\ \A l \in Past(op, m)' : l <= k
  BY Zenon DEF LastHeld, HoldsLast
<1> DEFINE Goal == \E k \in Past(op, m)' :
                     /\ Held(op, m)' \in Script[cmd'][k].vals
                     /\ \A l \in Past(op, m)' : l <= k
<1>1. ASSUME cmd' = cmd, Past(op, m)' = Past(op, m), Held(op, m)' = Held(op, m)
      PROVE  Goal
  <2>1. HoldsLast(op, m)
    BY DEF LastHeld
  <2>2. QED
    BY <1>1, <2>1, Zenon DEF HoldsLast
<1>2. CASE StartCommand
  <2>1. cmd' \in Commands /\ step' = 1
    BY <1>2, Zenon DEF StartCommand
  <2>2. \A k \in DOMAIN Script[cmd'] : k \in Nat \ {0}
    BY <2>1, Positions, SMT
  <2>3. Past(op, m)' = {}
    BY <2>1, <2>2, SMT DEF Past
  <2>4. QED
    BY <2>3
<1>3. CASE StoreStep
  <2>1. /\ step > 0 /\ cmd' = cmd /\ step' = After(step)
    BY <1>3, StoreHeld, Zenon
  <2>2. PICK v \in Script[cmd][step].vals :
          Held(op, m)' = IF op = Script[cmd][step].op
                              /\ (op = "des" \/ m = Script[cmd][step].m)
                         THEN v ELSE Held(op, m)
    BY <1>3, StoreHeld, Zenon
  <2>3. Past(op, m)' = Past(op, m) \cup
          (IF Matches(Script[cmd][step], op, m) THEN {step} ELSE {})
    BY <2>1, PastAfter, Zenon
  <2>4. CASE Matches(Script[cmd][step], op, m)
    <3>1. Held(op, m)' = v /\ step \in Past(op, m)'
      BY <2>2, <2>3, <2>4, Zenon DEF Matches
    <3>2. \A l \in Past(op, m)' : l <= step
      <4>1. \A l \in Past(op, m) : l <= step
        <5>1. DOMAIN Script[cmd] = 1 .. Len(Script[cmd]) /\ step \in Nat
          BY <2>1, Positions DEF AtStep
        <5>2. QED
          BY <2>1, <5>1, SMT DEF Past
      <4>2. step <= step
        BY SMT DEF AtStep
      <4>3. QED
        BY <2>3, <4>1, <4>2, Zenon
    <3>3. QED
      BY <2>1, <3>1, <3>2, Zenon
  <2>5. CASE ~Matches(Script[cmd][step], op, m)
    <3>1. Past(op, m)' = Past(op, m)
      BY <2>3, <2>5, Zenon
    <3>2. Held(op, m)' = Held(op, m)
      <4>1. CASE op # "des"
        BY <2>2, <2>5, <4>1, Zenon DEF Matches
      <4>2. CASE op = "des" /\ Script[cmd][step].op # "des"
        BY <2>2, <4>2, Zenon
      <4>3. CASE op = "des" /\ Script[cmd][step].op = "des"
        <5>1. m # Script[cmd][step].m
          BY <2>5, <4>3, Zenon DEF Matches
        <5>2. \A k \in DOMAIN Script[cmd] : ~Matches(Script[cmd][k], op, m)
          <6>1. \A n : \A e \in Ops(n) : e.op = "des" => e.m = 1
            BY SMT DEF Ops
          <6>2. Script[cmd][step].m = 1
            BY <2>1, <4>3, <6>1, StepTyped, Zenon
          <6>3. QED
            BY <2>1, <4>3, <5>1, <6>1, <6>2, Positions, Zenon DEF Matches
        <5>3. Past(op, m) = {}
          BY <5>2, SMT DEF Past
        <5>4. Past(op, m)' = {}
          BY <3>1, <5>3
        <5>5. QED
          BY <5>4
      <4>4. QED
        BY <4>1, <4>2, <4>3
    <3>3. QED
      BY <1>1, <2>1, <3>1, <3>2, Zenon
  <2>6. QED
    BY <2>4, <2>5
<1>4. CASE FlowStep
  <2>1. /\ step > 0 /\ cmd' = cmd /\ UNCHANGED <<vars, pid_des>>
        /\ \/ /\ Script[cmd][step].op \in {"key", "jump"}
              /\ step' \in Script[cmd][step].vals
           \/ Script[cmd][step].op = "key" /\ step' = After(step)
    BY <1>4, SMT DEF FlowStep
  <2>2. Held(op, m)' = Held(op, m)
    BY <2>1, SMT DEF Held, vars, shared, StoreOps
  <2>3. Past(op, m)' = Past(op, m)
    <3>1. CASE /\ Script[cmd][step].op \in {"key", "jump"}
               /\ step' \in Script[cmd][step].vals
      <4>1. Direct(Script[cmd], op)
        BY <2>1, Zenon
      <4>2. QED
        BY <2>1, <3>1, <4>1, PastJump, Zenon
    <3>2. CASE Script[cmd][step].op = "key" /\ step' = After(step)
      <4>1. ~Matches(Script[cmd][step], op, m)
        BY <3>2, SMT DEF Matches, StoreOps
      <4>2. QED
        BY <2>1, <3>2, <4>1, PastAfter, Zenon
    <3>3. QED
      BY <2>1, <3>1, <3>2, Zenon
  <2>4. QED
    BY <1>1, <2>1, <2>2, <2>3, Zenon
<1>5. CASE CommuStep
  <2>1. Commu /\ cmd' = cmd /\ step' = step /\ pid_des' = pid_des
    BY <1>5, Zenon DEF CommuStep
  <2>2. Held(op, m)' = Held(op, m)
    BY <2>1, CommuHeld, Zenon
  <2>3. Past(op, m)' = Past(op, m)
    BY <2>1, SMT DEF Past
  <2>4. QED
    BY <1>1, <2>1, <2>2, <2>3, Zenon
<1>6. CASE CrashStep \/ Quit \/ UNCHANGED benchVars
  <2>1. cmd' = cmd /\ step' = step /\ UNCHANGED <<vars, pid_des>>
    BY <1>6, SMT DEF CrashStep, Quit, benchVars
  <2>2. Held(op, m)' = Held(op, m)
    BY <2>1, SMT DEF Held, vars, shared, StoreOps
  <2>3. Past(op, m)' = Past(op, m)
    BY <2>1, SMT DEF Past
  <2>4. QED
    BY <1>1, <2>1, <2>2, <2>3, Zenon
<1>7. QED
  BY <1>2, <1>3, <1>4, <1>5, <1>6, Zenon DEF BenchNext, CommandStep

\* No command puts an unshared motor under the regulator, and commu_thread is
\* never on the regulator's way with it.
LEMMA NotRegulatedKept ==
  ASSUME AtStep, TypeOK, NotRegulated, [BenchNext]_benchVars
  PROVE  NotRegulated'
<1> SUFFICES ASSUME NEW m \in {0, 1}, Unshared(m)
             PROVE  /\ protocol'[m] # 2
                    /\ motor' = m => pc' \notin Regulating /\ ~(pc' = "decide" /\ branch' = 2)
  BY Zenon DEF NotRegulated
<1>1. /\ protocol[m] # 2
      /\ motor = m => pc \notin Regulating /\ ~(pc = "decide" /\ branch = 2)
  BY Zenon DEF NotRegulated
<1>2. CASE StoreStep
  <2>1. PICK v \in Script[cmd][step].vals :
          Held("protocol", m)' = IF "protocol" = Script[cmd][step].op
                                     /\ ("protocol" = "des" \/ m = Script[cmd][step].m)
                                 THEN v ELSE Held("protocol", m)
    BY <1>2, StoreHeld, Zenon DEF StoreOps
  <2>2. Matches(Script[cmd][step], "protocol", m) => v # 2
    <3>1. cmd \in Commands /\ step \in DOMAIN Script[cmd]
      BY <1>2, StoreHeld, Positions DEF AtStep
    <3>2. QED
      BY <3>1, Zenon DEF Unshared
  <2>3. protocol'[m] # 2
    BY <1>1, <2>1, <2>2, SMT DEF Held, Matches
  <2>4. UNCHANGED thread
    BY <1>2, SMT DEF StoreStep, SetEnable, set_motor_tor, set_motor_vel,
       change_protocol, vars
  <2>5. QED
    BY <1>1, <2>3, <2>4, SMT DEF thread
<1>3. CASE CommuStep
  <2>1. Commu /\ UNCHANGED protocol
    BY <1>3, SMT DEF CommuStep, Commu, DelayDone, DispatchProtocol, DecideEdge, Regulate,
       StoreOutput, Relax, StoreTorque, PackCommand, Deliver, Lose, Sent, RecordEnable, shared
  <2>2. CASE DispatchProtocol
    BY <1>1, <2>1, <2>2, SMT DEF DispatchProtocol, NextMotor, Regulating
  <2>3. CASE DecideEdge
    BY <1>1, <2>1, <2>3, SMT DEF DecideEdge, Regulating
  <2>4. CASE Regulate
    BY <1>1, <2>1, <2>4, Zenon DEF Regulate, Regulating
  <2>5. CASE ~DispatchProtocol /\ ~DecideEdge /\ ~Regulate
    <3>1. pc' \notin Regulating \cup {"decide"}
      BY <2>1, <2>5, SMT DEF Commu, DelayDone, StoreOutput, Relax, StoreTorque, PackCommand,
         Deliver, Lose, Sent, RecordEnable, NextMotor, Regulating
    <3>2. QED
      BY <1>1, <2>1, <3>1, Zenon
  <2>6. QED
    BY <2>2, <2>3, <2>4, <2>5
<1>4. CASE StartCommand \/ FlowStep \/ CrashStep \/ Quit \/ UNCHANGED benchVars
  <2>1. UNCHANGED vars
    BY <1>4, SMT DEF StartCommand, FlowStep, CrashStep, Quit, benchVars
  <2>2. QED
    BY <1>1, <2>1, SMT DEF vars, shared, thread
<1>5. QED
  BY <1>2, <1>3, <1>4, Zenon DEF BenchNext, CommandStep

\* In every reachable state the fields hold what the command stored last.
THEOREM LastStoreHeld == BenchSpec => [](NotRegulated /\ LastHeld)
<1>1. BenchInit => NotRegulated /\ LastHeld
  <2> SUFFICES ASSUME BenchInit PROVE NotRegulated /\ LastHeld
    OBVIOUS
  <2>1. NotRegulated
    <3>1. {0, 1} \subseteq Motors
      BY CommandsAssumption
    <3>2. protocol = [m \in Motors |-> 0] /\ pc = "delay"
      BY Zenon DEF BenchInit, Init
    <3>3. QED
      BY <3>1, <3>2, SMT DEF NotRegulated, Regulating
  <2>2. LastHeld
    <3>1. "none" \notin Commands
      BY CommandsAssumption, SMT DEF Script
    <3>2. QED
      BY <3>1, Zenon DEF BenchInit, LastHeld, HoldsLast
  <2>3. QED
    BY <2>1, <2>2
<1>2. /\ BenchSteps /\ TypeOK /\ NotRegulated /\ LastHeld /\ [BenchNext]_benchVars
      => NotRegulated' /\ LastHeld'
  BY LastHeldKept, NotRegulatedKept, Zenon DEF BenchSteps
<1>3. BenchSpec => []TypeOK
  BY BenchImplementsCommu, TypeCorrect, PTL
<1>4. QED
  BY <1>1, <1>2, <1>3, StepsAreOfScript, PTL DEF BenchSpec

-----------------------------------------------------------------------------
(* What the scripts end with, piece by piece.                               *)

Plain(s) == \A k \in DOMAIN s : s[k].op \notin {"key", "jump"}

\* The stores of two sequences one after the other.
LEMMA Joined ==
  ASSUME NEW S, NEW s \in Seq(S), NEW t \in Seq(S)
  PROVE  /\ s \o t \in Seq(S)
         /\ Plain(s) /\ Plain(t) => Plain(s \o t)
         /\ \A op, m :
              /\ Free(s, op, m) /\ Free(t, op, m) => Free(s \o t, op, m)
              /\ \A V : /\ Within(s, op, m, V) /\ Within(t, op, m, V)
                             => Within(s \o t, op, m, V)
                        /\ EndsIn(t, op, m, V) => EndsIn(s \o t, op, m, V)
                        /\ EndsIn(s, op, m, V) /\ Free(t, op, m)
                             => EndsIn(s \o t, op, m, V)
<1> DEFINE u == s \o t
<1>1. /\ u \in Seq(S) /\ Len(u) = Len(s) + Len(t)
      /\ \A k \in 1 .. Len(s) + Len(t) : u[k] = IF k <= Len(s) THEN s[k] ELSE t[k - Len(s)]
  BY ConcatProperties, Zenon
<1>2. /\ Len(s) \in Nat /\ Len(t) \in Nat
      /\ DOMAIN s = 1 .. Len(s) /\ DOMAIN t = 1 .. Len(t)
      /\ DOMAIN u = 1 .. Len(s) + Len(t)
  BY <1>1, LenProperties, SMT
<1> HIDE DEF u
<1>3. ASSUME NEW k \in DOMAIN u
      PROVE  \/ k \in DOMAIN s /\ u[k] = s[k]
             \/ k - Len(s) \in DOMAIN t /\ u[k] = t[k - Len(s)] /\ k > Len(s)
  BY <1>1, <1>2, SMT
<1>4. ASSUME NEW k \in DOMAIN s PROVE k \in DOMAIN u /\ u[k] = s[k] /\ k <= Len(s)
  BY <1>1, <1>2, SMT
<1>5. ASSUME NEW k \in DOMAIN t
      PROVE  k + Len(s) \in DOMAIN u /\ u[k + Len(s)] = t[k] /\ k + Len(s) > Len(s)
  BY <1>1, <1>2, SMT
<1>6. Plain(s) /\ Plain(t) => Plain(u)
  BY <1>3, Zenon DEF Plain
<1> SUFFICES ASSUME NEW op, NEW m
             PROVE  /\ Free(s, op, m) /\ Free(t, op, m) => Free(u, op, m)
                    /\ \A V : /\ Within(s, op, m, V) /\ Within(t, op, m, V)
                                   => Within(u, op, m, V)
                              /\ EndsIn(t, op, m, V) => EndsIn(u, op, m, V)
                              /\ EndsIn(s, op, m, V) /\ Free(t, op, m)
                                   => EndsIn(u, op, m, V)
  BY <1>1, <1>6, Zenon DEF u
<1>7. Free(s, op, m) /\ Free(t, op, m) => Free(u, op, m)
  BY <1>3, Zenon DEF Free
<1> SUFFICES ASSUME NEW V
             PROVE  /\ Within(s, op, m, V) /\ Within(t, op, m, V) => Within(u, op, m, V)
                    /\ EndsIn(t, op, m, V) => EndsIn(u, op, m, V)
                    /\ EndsIn(s, op, m, V) /\ Free(t, op, m) => EndsIn(u, op, m, V)
  BY <1>7, Zenon
<1>8. Within(s, op, m, V) /\ Within(t, op, m, V) => Within(u, op, m, V)
  BY <1>3, Zenon DEF Within
<1>9. ASSUME EndsIn(t, op, m, V) PROVE EndsIn(u, op, m, V)
  <2>1. PICK k \in DOMAIN t : /\ Matches(t[k], op, m) /\ t[k].vals = V
                              /\ \A l \in DOMAIN t : Matches(t[l], op, m) => l <= k
    BY <1>9, Zenon DEF EndsIn
  <2>2. \A l \in DOMAIN u : Matches(u[l], op, m) => l <= k + Len(s)
    <3> SUFFICES ASSUME NEW l \in DOMAIN u, Matches(u[l], op, m)
                 PROVE  l <= k + Len(s)
      OBVIOUS
    <3>1. CASE l \in DOMAIN s
      BY <1>2, <3>1, SMT
    <3>2. CASE l - Len(s) \in DOMAIN t /\ u[l] = t[l - Len(s)]
      <4>1. l - Len(s) <= k
        BY <2>1, <3>2, Zenon
      <4>2. QED
        BY <1>2, <4>1, SMT
    <3>3. QED
      BY <1>3, <3>1, <3>2, Zenon
  <2>3. QED
    BY <1>5, <2>1, <2>2, Zenon DEF EndsIn
<1>10. ASSUME EndsIn(s, op, m, V), Free(t, op, m) PROVE EndsIn(u, op, m, V)
  BY <1>3, <1>4, <1>10, Zenon DEF EndsIn, Free
<1>11. QED
  BY <1>8, <1>9, <1>10

\* A single store.
LEMMA Single ==
  ASSUME NEW e
  PROVE  /\ e.op \notin {"key", "jump"} => Plain(<<e>>)
         /\ \A op, m :
              /\ ~Matches(e, op, m) => Free(<<e>>, op, m)
              /\ \A V : e.vals \subseteq V => Within(<<e>>, op, m, V)
              /\ Matches(e, op, m) => EndsIn(<<e>>, op, m, e.vals)
<1>1. DOMAIN <<e>> = {1} /\ <<e>>[1] = e
  BY SMT
<1>2. 1 <= 1
  BY SMT
<1> HIDE DEF Matches
<1>3. QED
  BY <1>1, <1>2, Zenon DEF Plain, Free, Within, EndsIn

\* A sequence without a store of op stores it from any set.
LEMMA FreeIsWithin == \A s, op, m, V : Free(s, op, m) => Within(s, op, m, V)
  BY Zenon DEF Free, Within

\* What each store of a command stores, and that it stores nothing else.
LEMMA Pieces ==
  /\ \A n, v : /\ Plain(Enable(n, v)) /\ EndsIn(Enable(n, v), "enable", n, {v})
               /\ \A op, m : op # "enable" \/ m # n => Free(Enable(n, v), op, m)
  /\ \A n, V : /\ Plain(Tor(n, V)) /\ Plain(Vel(n, V)) /\ Plain(Protocol(n, V))
               /\ EndsIn(Protocol(n, V), "protocol", n, V)
               /\ \A op, m :
                    /\ op # "tor" \/ m # n => Free(Tor(n, V), op, m)
                    /\ op # "vel" \/ m # n => Free(Vel(n, V), op, m)
                    /\ op # "protocol" \/ m # n => Free(Protocol(n, V), op, m)
  /\ \A V : /\ Plain(Des(V)) /\ EndsIn(Des(V), "des", 1, V)
            /\ \A op, m : op # "des" => Free(Des(V), op, m)
  /\ Plain(Crash)
  /\ \A op, m : op # "crash" => Free(Crash, op, m)
  /\ Plain(<<>>)
  /\ \A op, m : Free(<<>>, op, m)
<1>1. ASSUME NEW n, NEW v
      PROVE  /\ Plain(Enable(n, v)) /\ EndsIn(Enable(n, v), "enable", n, {v})
             /\ \A op, m : op # "enable" \/ m # n => Free(Enable(n, v), op, m)
  <2>1. Op("enable", n, {v}).op = "enable" /\ Op("enable", n, {v}).vals = {v}
        /\ Op("enable", n, {v}).m = n
    BY Zenon DEF Op
  <2>2. QED
    BY <2>1, Single, SMT DEF Enable, Matches
<1>2. ASSUME NEW V
      PROVE  /\ \A n : /\ Plain(Tor(n, V)) /\ Plain(Vel(n, V)) /\ Plain(Protocol(n, V))
                       /\ EndsIn(Protocol(n, V), "protocol", n, V)
                       /\ \A op, m :
                            /\ op # "tor" \/ m # n => Free(Tor(n, V), op, m)
                            /\ op # "vel" \/ m # n => Free(Vel(n, V), op, m)
                            /\ op # "protocol" \/ m # n => Free(Protocol(n, V), op, m)
             /\ Plain(Des(V)) /\ EndsIn(Des(V), "des", 1, V)
             /\ \A op, m : op # "des" => Free(Des(V), op, m)
  <2>1. \A o, n : Op(o, n, V).op = o /\ Op(o, n, V).vals = V /\ Op(o, n, V).m = n
    BY Zenon DEF Op
  <2>2. QED
    BY <2>1, Single, SMT DEF Tor, Vel, Protocol, Des, Matches
<1>3. Plain(Crash) /\ \A op, m : op # "crash" => Free(Crash, op, m)
  <2>1. Op("crash", 0, {}).op = "crash"
    BY Zenon DEF Op
  <2>2. QED
    BY <2>1, Single, SMT DEF Crash, Matches
<1>4. Plain(<<>>) /\ \A op, m : Free(<<>>, op, m)
  BY SMT DEF Plain, Free
<1>5. QED
  BY <1>1, <1>2, <1>3, <1>4, Zenon

\* A ramp stores torques of its motor only.
LEMMA RampStores ==
  ASSUME NEW n, NEW size \in Nat, NEW from \in Int, NEW j \in Nat
  PROVE  /\ Plain(Ramp(n, size, from, 0 .. j - 1))
         /\ \A op, m : op # "tor" \/ m # n => Free(Ramp(n, size, from, 0 .. j - 1), op, m)
         /\ \A V : (\A k \in 1 .. size : RampLevel(from, j, k) \in V)
                     => Within(Ramp(n, size, from, 0 .. j - 1), "tor", n, V)
         /\ size > 0 => EndsIn(Ramp(n, size, from, 0 .. j - 1), "tor", n,
                               {RampLevel(from, j, size)})
<1> DEFINE r == Ramp(n, size, from, 0 .. j - 1)
<1>1. IsRamp(r, n, size, from, j)
  BY RampIs, Zenon
<1> HIDE DEF r
<1>2. /\ DOMAIN r = 1 .. size
      /\ \A k \in 1 .. size : /\ r[k].op = "tor" /\ r[k].m = n
                              /\ r[k].vals = {RampLevel(from, j, k)}
  BY <1>1, SMT DEF IsRamp, Op
<1>3. Plain(r) /\ \A op, m : op # "tor" \/ m # n => Free(r, op, m)
  BY <1>2, SMT DEF Plain, Free, Matches
<1>4. \A V : (\A k \in 1 .. size : RampLevel(from, j, k) \in V) => Within(r, "tor", n, V)
  BY <1>2, SMT DEF Within, Matches
<1>5. ASSUME size > 0 PROVE EndsIn(r, "tor", n, {RampLevel(from, j, size)})
  <2>1. size \in 1 .. size /\ \A l \in 1 .. size : l <= size
    BY <1>5, SMT
  <2>2. QED
    BY <1>2, <2>1, Zenon DEF EndsIn, Matches
<1>6. QED
  BY <1>3, <1>4, <1>5, Zenon DEF r

\* The ramps of the tests: within the target, and back at zero at their end.
LEMMA RampsOfTests ==
  LET up == Ramp(0, HalfSteps, 0, 0 .. HalfSteps - 1)
      down == Ramp(0, HalfSteps, HalfSteps, {})
  IN /\ \A n : /\ Plain(UpDown(n)) /\ Within(UpDown(n), "tor", n, 0 .. HalfSteps)
               /\ EndsIn(UpDown(n), "tor", n, {0})
               /\ \A op, m : op # "tor" \/ m # n => Free(UpDown(n), op, m)
     /\ Plain(up) /\ Within(up, "tor", 0, 0 .. HalfSteps)
     /\ \A op, m : op # "tor" \/ m # 0 => Free(up, op, m)
     /\ Plain(down) /\ Within(down, "tor", 0, 0 .. HalfSteps)
     /\ EndsIn(down, "tor", 0, {0})
     /\ \A op, m : op # "tor" \/ m # 0 => Free(down, op, m)
<1> DEFINE up == Ramp(0, HalfSteps, 0, 0 .. HalfSteps - 1)
           down == Ramp(0, HalfSteps, HalfSteps, {})
<1>1. /\ HalfSteps \in Nat /\ 2 * HalfSteps \in Nat /\ 0 \in Int /\ 0 \in Nat
      /\ HalfSteps \in Int /\ HalfSteps > 0 /\ 2 * HalfSteps > 0 /\ 0 .. 0 - 1 = {}
  BY CommandsAssumption, SMT
<1>2. /\ \A k \in 1 .. 2 * HalfSteps : RampLevel(0, HalfSteps, k) \in 0 .. HalfSteps
      /\ \A k \in 1 .. HalfSteps : RampLevel(0, HalfSteps, k) \in 0 .. HalfSteps
      /\ \A k \in 1 .. HalfSteps : RampLevel(HalfSteps, 0, k) \in 0 .. HalfSteps
      /\ RampLevel(0, HalfSteps, 2 * HalfSteps) = 0
      /\ RampLevel(HalfSteps, 0, HalfSteps) = 0
  BY <1>1, SMT DEF RampLevel
<1>3. ASSUME NEW n
      PROVE  /\ Plain(UpDown(n)) /\ Within(UpDown(n), "tor", n, 0 .. HalfSteps)
             /\ EndsIn(UpDown(n), "tor", n, {0})
             /\ \A op, m : op # "tor" \/ m # n => Free(UpDown(n), op, m)
  BY <1>1, <1>2, RampStores, Zenon DEF UpDown
<1>4. /\ Plain(up) /\ Within(up, "tor", 0, 0 .. HalfSteps)
      /\ \A op, m : op # "tor" \/ m # 0 => Free(up, op, m)
  BY <1>1, <1>2, RampStores, Zenon
<1>5. /\ Plain(down) /\ Within(down, "tor", 0, 0 .. HalfSteps)
      /\ EndsIn(down, "tor", 0, {0})
      /\ \A op, m : op # "tor" \/ m # 0 => Free(down, op, m)
  <2> DEFINE d == Ramp(0, HalfSteps, HalfSteps, 0 .. 0 - 1)
  <2>1. /\ Plain(d) /\ Within(d, "tor", 0, 0 .. HalfSteps)
        /\ EndsIn(d, "tor", 0, {RampLevel(HalfSteps, 0, HalfSteps)})
        /\ \A op, m : op # "tor" \/ m # 0 => Free(d, op, m)
    BY <1>1, <1>2, RampStores, Zenon
  <2>2. d = down
    BY <1>1, Zenon
  <2>3. QED
    BY <1>2, <2>1, <2>2, Zenon
<1>6. QED
  BY <1>3, <1>4, <1>5, Zenon

\* Without jumps, no store is jumped over.
LEMMA PlainIsDirect == \A s, op : Plain(s) => Direct(s, op)
  BY Zenon DEF Plain, Direct

\* Both motors switched off, in the order all tests of two motors have.
LEMMA SwitchedOff ==
  ASSUME NEW n \in Nat, NEW s \in Seq(Ops(n))
  PROVE  LET t == s \o Enable(0, 0) \o Enable(1, 0)
         IN /\ t \in Seq(Ops(n))
            /\ Plain(s) => Plain(t)
            /\ \A m \in {0, 1} : EndsIn(t, "enable", m, {0})
<1> DEFINE a == s \o Enable(0, 0)
           t == a \o Enable(1, 0)
<1>1. Enable(0, 0) \in Seq(Ops(n)) /\ Enable(1, 0) \in Seq(Ops(n))
  <2>1. 0 \in Bit
    BY SMT DEF Bit
  <2>2. QED
    BY <2>1, StoresTyped, Zenon
<1>2. a \in Seq(Ops(n)) /\ (Plain(s) => Plain(a)) /\ EndsIn(a, "enable", 0, {0})
  BY <1>1, Joined, Pieces, Zenon
<1> HIDE DEF a
<1>3. Free(Enable(1, 0), "enable", 0)
  <2>1. 0 # 1
    BY SMT
  <2>2. QED
    BY <2>1, Pieces, Zenon
<1>4. /\ t \in Seq(Ops(n)) /\ (Plain(s) => Plain(t))
      /\ EndsIn(t, "enable", 0, {0}) /\ EndsIn(t, "enable", 1, {0})
  BY <1>1, <1>2, <1>3, Joined, Pieces, Zenon
<1>5. QED
  BY <1>4, Zenon DEF a

\* The scripts of the tests without a key, and what they end with.
LEMMA StraightTestsRest ==
  ASSUME NEW c \in Commands, c \in Switching, c \notin {"dir_test", "dir_test2"}
  PROVE  /\ Plain(Script[c])
         /\ \A m \in {0, 1} : \/ Free(Script[c], "enable", m)
                              \/ EndsIn(Script[c], "enable", m, {0})
         /\ c \in {"ttor_test_new", "vves_test"}
              => EndsIn(Script[c], "des", 1, {0}) /\ EndsIn(Script[c], "protocol", 1, {0})
<1> DEFINE S == Seq(Ops(0))
           T(s) == s \in S /\ Plain(s)
<1>1. /\ 0 \in Bit /\ 1 \in Bit /\ 0 \in Nat
      /\ {0} \in SUBSET Protocols
      /\ Torques \in SUBSET Levels
      /\ {HalfSteps} \in SUBSET Torques /\ {0} \in SUBSET Torques
  BY LevelsOfRamp, BenchAssumption, SMT DEF Bit
<1>2. /\ \A m \in {0, 1} : \A v \in Bit : T(Enable(m, v))
      /\ T(Tor(0, Torques)) /\ T(UpDown(0)) /\ T(UpDown(1))
      /\ \A V \in SUBSET Protocols : T(Protocol(1, V))
      /\ T(Des({HalfSteps})) /\ T(Des({0})) /\ T(<<>>)
      /\ T(Ramp(0, HalfSteps, 0, 0 .. HalfSteps - 1))
      /\ T(Ramp(0, HalfSteps, HalfSteps, {}))
  BY <1>1, StoresTyped, UpDownTyped, HalfRampsTyped, EmptySeq, Pieces, RampsOfTests, Zenon
<1>3. ASSUME NEW s, NEW t, T(s), T(t)
      PROVE  T(s \o t) /\ \A op, m : Free(s, op, m) /\ Free(t, op, m) => Free(s \o t, op, m)
  BY <1>3, Joined, Zenon
<1>4. ASSUME NEW s, T(s)
      PROVE  LET t == s \o Enable(0, 0) \o Enable(1, 0)
             IN T(t) /\ \A m \in {0, 1} : EndsIn(t, "enable", m, {0})
  BY <1>1, <1>4, SwitchedOff, Zenon
<1>5. ASSUME NEW s, NEW t, T(s), T(t)
      PROVE  \A op, m, V : /\ EndsIn(t, op, m, V) => EndsIn(s \o t, op, m, V)
                           /\ EndsIn(s, op, m, V) /\ Free(t, op, m)
                                => EndsIn(s \o t, op, m, V)
  BY <1>5, Joined, Zenon
<1>w. "des" # "enable" /\ "protocol" # "enable" /\ "protocol" # "des" /\ "tor" # "enable"
      /\ 0 # 1
  BY SMT
<1> HIDE DEF S, T
<1>6. /\ T(TorTest) /\ EndsIn(TorTest, "enable", 0, {0}) /\ Free(TorTest, "enable", 1)
  <2>1. T(Enable(0, 1) \o UpDown(0)) /\ Free(Enable(0, 1) \o UpDown(0), "enable", 1)
    BY <1>1, <1>2, <1>3, <1>w, Pieces, RampsOfTests, Zenon
  <2>2. QED
    BY <1>1, <1>2, <1>3, <1>5, <1>w, <2>1, Pieces, Zenon DEF TorTest
<1>7. /\ T(ExtremeConditionTesting)
      /\ \A m \in {0, 1} : EndsIn(ExtremeConditionTesting, "enable", m, {0})
  BY <1>1, <1>2, <1>3, <1>4, Zenon DEF ExtremeConditionTesting
<1>8. /\ T(AMaxSpeedTorTest(TRUE))
      /\ \A m \in {0, 1} : EndsIn(AMaxSpeedTorTest(TRUE), "enable", m, {0})
  <2> DEFINE up == Ramp(0, HalfSteps, 0, 0 .. HalfSteps - 1)
             down == Ramp(0, HalfSteps, HalfSteps, {})
             a == Enable(0, 1) \o Enable(1, 1) \o up \o UpDown(1) \o down
             b == a \o Enable(0, 0) \o Enable(1, 0)
  <2>1. T(up) /\ T(down)
    BY <1>2
  <2> HIDE DEF up, down
  <2>2. T(a)
    BY <1>1, <1>2, <1>3, <2>1, Zenon
  <2> HIDE DEF a
  <2>3. T(b) /\ \A m \in {0, 1} : EndsIn(b, "enable", m, {0})
    BY <1>4, <2>2, Zenon
  <2> HIDE DEF b
  <2>4. T(b \o <<>>) /\ \A m \in {0, 1} : EndsIn(b \o <<>>, "enable", m, {0})
    BY <1>2, <1>3, <1>5, <2>3, Pieces, Zenon
  <2>5. QED
    BY <2>4, Zenon DEF AMaxSpeedTorTest, Closed, a, b, up, down
<1>9. ASSUME c \in {"ttor_test_new", "vves_test"} PROVE T(Protocol(1, {2}))
  BY <1>2, <1>9, CommandsAssumption, Zenon
<1>10. ASSUME c = "ttor_test_new"
       PROVE  /\ T(TtorTestNew(TRUE))
              /\ \A m \in {0, 1} : EndsIn(TtorTestNew(TRUE), "enable", m, {0})
              /\ EndsIn(TtorTestNew(TRUE), "des", 1, {0})
              /\ EndsIn(TtorTestNew(TRUE), "protocol", 1, {0})
  <2> DEFINE a == Protocol(1, {2}) \o Enable(0, 1) \o Enable(1, 1) \o Des({HalfSteps})
                    \o UpDown(0)
             b == a \o Enable(0, 0) \o Enable(1, 0)
             d == b \o Des({0})
             e == d \o Protocol(1, {0})
  <2>1. T(a)
    BY <1>1, <1>2, <1>3, <1>9, <1>10, Zenon
  <2> HIDE DEF a
  <2>2. T(b) /\ \A m \in {0, 1} : EndsIn(b, "enable", m, {0})
    BY <1>4, <2>1, Zenon
  <2> HIDE DEF b
  <2>3. /\ T(d) /\ EndsIn(d, "des", 1, {0})
        /\ \A m \in {0, 1} : EndsIn(d, "enable", m, {0})
    BY <1>2, <1>3, <1>5, <1>w, <2>2, Pieces, Zenon
  <2> HIDE DEF d
  <2>4. /\ T(e) /\ EndsIn(e, "des", 1, {0}) /\ EndsIn(e, "protocol", 1, {0})
        /\ \A m \in {0, 1} : EndsIn(e, "enable", m, {0})
    BY <1>1, <1>2, <1>3, <1>5, <1>w, <2>3, Pieces, Zenon
  <2> HIDE DEF e
  <2>5. /\ T(e \o <<>>)
        /\ EndsIn(e \o <<>>, "des", 1, {0}) /\ EndsIn(e \o <<>>, "protocol", 1, {0})
        /\ \A m \in {0, 1} : EndsIn(e \o <<>>, "enable", m, {0})
    BY <1>2, <1>3, <1>5, <2>4, Pieces, Zenon
  <2>6. QED
    BY <2>5, Zenon DEF TtorTestNew, Closed, a, b, d, e
<1>11. ASSUME c = "vves_test"
       PROVE  /\ T(VvesTest(TRUE)) /\ Free(VvesTest(TRUE), "enable", 0)
              /\ EndsIn(VvesTest(TRUE), "enable", 1, {0})
              /\ EndsIn(VvesTest(TRUE), "des", 1, {0})
              /\ EndsIn(VvesTest(TRUE), "protocol", 1, {0})
  <2> DEFINE a == Enable(1, 1) \o Des({HalfSteps}) \o Enable(1, 0)
             b == a \o Des({0})
             d == b \o Protocol(1, {0})
  <2>1. T(Enable(1, 1) \o Des({HalfSteps})) /\ Free(Enable(1, 1) \o Des({HalfSteps}), "enable", 0)
    BY <1>1, <1>2, <1>3, <1>w, Pieces, Zenon
  <2>2. T(a) /\ Free(a, "enable", 0) /\ EndsIn(a, "enable", 1, {0})
    BY <1>1, <1>2, <1>3, <1>5, <1>w, <2>1, Pieces, Zenon
  <2> HIDE DEF a
  <2>3. T(b) /\ Free(b, "enable", 0) /\ EndsIn(b, "enable", 1, {0}) /\ EndsIn(b, "des", 1, {0})
    BY <1>2, <1>3, <1>5, <1>w, <2>2, Pieces, Zenon
  <2> HIDE DEF b
  <2>4. /\ T(d) /\ Free(d, "enable", 0) /\ EndsIn(d, "enable", 1, {0})
        /\ EndsIn(d, "des", 1, {0}) /\ EndsIn(d, "protocol", 1, {0})
    BY <1>1, <1>2, <1>3, <1>5, <1>w, <2>3, Pieces, Zenon
  <2> HIDE DEF d
  <2>5. T(Protocol(1, {2})) /\ Free(Protocol(1, {2}), "enable", 0)
    BY <1>9, <1>11, <1>w, Pieces, Zenon
  <2>6. LET s == Protocol(1, {2}) \o d
        IN /\ T(s) /\ Free(s, "enable", 0) /\ EndsIn(s, "enable", 1, {0})
           /\ EndsIn(s, "des", 1, {0}) /\ EndsIn(s, "protocol", 1, {0})
    BY <1>3, <1>5, <2>4, <2>5, Zenon
  <2>7. QED
    BY <2>6, Zenon DEF VvesTest, a, b, d
<1>12. /\ Script["tor_test"] = TorTest
       /\ Script["ttor_test_new"] = TtorTestNew(TRUE)
       /\ Script["vves_test"] = VvesTest(TRUE)
       /\ Script["a_max_speed_tor_test"] = AMaxSpeedTorTest(TRUE)
       /\ Script["extreme_condition_testing"] = ExtremeConditionTesting
  BY Zenon DEF Script
<1>13. c \in {"tor_test", "ttor_test_new", "vves_test", "a_max_speed_tor_test",
              "extreme_condition_testing"}
  BY Zenon DEF Switching
<1>v. "tor_test" \notin {"ttor_test_new", "vves_test"}
      /\ "a_max_speed_tor_test" \notin {"ttor_test_new", "vves_test"}
      /\ "extreme_condition_testing" \notin {"ttor_test_new", "vves_test"}
  BY SMT
<1>14. CASE c = "tor_test"
  BY <1>6, <1>12, <1>14, <1>v, Zenon DEF T
<1>15. CASE c = "ttor_test_new"
  BY <1>10, <1>12, <1>15, Zenon DEF T
<1>16. CASE c = "vves_test"
  BY <1>11, <1>12, <1>16, Zenon DEF T
<1>17. CASE c = "a_max_speed_tor_test"
  BY <1>8, <1>12, <1>17, <1>v, Zenon DEF T
<1>18. CASE c = "extreme_condition_testing"
  BY <1>7, <1>12, <1>18, <1>v, Zenon DEF T
<1>19. QED
  BY <1>13, <1>14, <1>15, <1>16, <1>17, <1>18, Zenon

-----------------------------------------------------------------------------
(* dir_test, store by store.                                               *)

DirTestStores ==
  <<Op("enable", 0, {1}), Op("enable", 1, {1}), Op("key", 0, {13}),
    Op("tor", 0, {0}), Op("vel", 1, {-1}), Op("tor", 0, {HalfSteps}), Op("key", 0, {13}),
    Op("tor", 0, {0}), Op("vel", 1, {1}), Op("tor", 0, {-HalfSteps}), Op("key", 0, {13}),
    Op("jump", 0, {3}), Op("enable", 0, {0}), Op("enable", 1, {0})>>

\* s is the first n elements of F, which are all of S.
Spells(S, s, F, n) == s \in Seq(S) /\ Len(s) = n /\ \A i \in 1 .. n : s[i] = F[i]

\* One more element.
LEMMA SpellsNext ==
  ASSUME NEW S, NEW F, NEW n \in Nat, NEW s, NEW e \in S, Spells(S, s, F, n), F[n + 1] = e
  PROVE  Spells(S, s \o <<e>>, F, n + 1)
<1>1. <<e>> \in Seq(S) /\ Len(<<e>>) = 1 /\ <<e>>[1] = e /\ s \in Seq(S) /\ Len(s) = n
  BY One, SMT DEF Spells
<1>2. /\ s \o <<e>> \in Seq(S)
      /\ Len(s \o <<e>>) = n + 1
      /\ \A i \in 1 .. n + 1 : (s \o <<e>>)[i] = IF i <= n THEN s[i] ELSE <<e>>[i - n]
  <2>1. /\ s \o <<e>> \in Seq(S)
        /\ Len(s \o <<e>>) = Len(s) + Len(<<e>>)
        /\ \A i \in 1 .. Len(s) + Len(<<e>>) :
             (s \o <<e>>)[i] = IF i <= Len(s) THEN s[i] ELSE <<e>>[i - Len(s)]
    BY <1>1, ConcatProperties, Zenon
  <2>2. QED
    BY <1>1, <2>1, Zenon
<1>3. ASSUME NEW i \in 1 .. n + 1 PROVE (s \o <<e>>)[i] = F[i]
  <2>1. CASE i <= n
    <3>1. i \in 1 .. n
      BY <2>1, SMT
    <3>2. QED
      BY <1>2, <2>1, <3>1, Zenon DEF Spells
  <2>2. CASE ~(i <= n)
    <3>1. i = n + 1 /\ i - n = 1
      BY <2>2, SMT
    <3>2. (s \o <<e>>)[i] = <<e>>[1]
      BY <1>2, <2>2, <3>1, Zenon
    <3>3. QED
      BY <1>1, <3>1, <3>2, Zenon
  <2>3. QED
    BY <2>1, <2>2
<1>4. QED
  BY <1>2, <1>3, Zenon DEF Spells

\* Three sequences appended together or one by one.
Flat(s, t, u, v) == s \o (t \o u \o v) = s \o t \o u \o v

\* It is the same.
LEMMA FlatCat ==
  ASSUME NEW S, NEW s \in Seq(S), NEW t \in Seq(S), NEW u \in Seq(S), NEW v \in Seq(S)
  PROVE  Flat(s, t, u, v)
<1> DEFINE tu == t \o u
<1>1. tu \in Seq(S)
  BY ConcatProperties, Zenon
<1>2. (s \o t) \o u = s \o tu
  BY ConcatAssociative
<1> HIDE DEF tu
<1>3. (s \o tu) \o v = s \o (tu \o v)
  BY <1>1, ConcatAssociative
<1>4. QED
  BY <1>2, <1>3, Zenon DEF Flat, tu

\* dir_test, with its key exits and the way back, is these fourteen steps.
LEMMA DirTestSpelt ==
  /\ Len(DirTest) = 14
  /\ \A i \in 1 .. 14 : DirTest[i] = DirTestStores[i]
<1> DEFINE S == Ops(14)
           F == DirTestStores
           G(s, n) == Spells(S, s, F, n)
           forth == Tor(0, {0}) \o Vel(1, {-1}) \o Tor(0, {HalfSteps})
           back == Tor(0, {0}) \o Vel(1, {1}) \o Tor(0, {-HalfSteps})
<1>1. /\ F[1] = Op("enable", 0, {1}) /\ F[2] = Op("enable", 1, {1})
      /\ F[3] = Op("key", 0, {13})
      /\ F[4] = Op("tor", 0, {0}) /\ F[5] = Op("vel", 1, {-1})
      /\ F[6] = Op("tor", 0, {HalfSteps}) /\ F[7] = Op("key", 0, {13})
      /\ F[8] = Op("tor", 0, {0}) /\ F[9] = Op("vel", 1, {1})
      /\ F[10] = Op("tor", 0, {-HalfSteps}) /\ F[11] = Op("key", 0, {13})
      /\ F[12] = Op("jump", 0, {3})
      /\ F[13] = Op("enable", 0, {0}) /\ F[14] = Op("enable", 1, {0})
  BY Zenon DEF DirTestStores
<1>2. /\ {0} \in SUBSET Levels /\ {1} \in SUBSET Levels /\ {-1} \in SUBSET Levels
      /\ {HalfSteps} \in SUBSET Levels /\ {-HalfSteps} \in SUBSET Levels
      /\ 0 \in Bit /\ 1 \in Bit /\ 13 \in 1 .. 14 /\ 3 \in 1 .. 14 /\ 14 \in Nat
  BY LevelsOfRamp, SMT DEF Bit
<1>3. \A i \in 1 .. 14 : F[i] \in S
  BY <1>1, <1>2, SMT DEF Op, Ops
<1>4. ASSUME NEW s, NEW n \in 1 .. 13, NEW e, G(s, n), F[n + 1] = e
      PROVE  G(s \o <<e>>, n + 1)
  <2>1. n + 1 \in 1 .. 14 /\ n \in Nat
    BY SMT
  <2>2. e \in S
    BY <1>3, <1>4, <2>1, Zenon
  <2>3. QED
    BY <1>4, <2>1, <2>2, SpellsNext, Zenon
<1> DEFINE Three(s) == Len(s) = 3
<1>5. ASSUME NEW s \in Seq(S), NEW t \in Seq(S), NEW u \in Seq(S), NEW v \in Seq(S)
      PROVE  Flat(s, t, u, v)
  <2> HIDE DEF S
  <2>1. QED
    BY FlatCat, Zenon
<1>6. /\ \A V \in SUBSET Levels : \A m \in {0, 1} : Tor(m, V) \in Seq(S) /\ Vel(m, V) \in Seq(S)
  BY <1>2, StoresTyped, Zenon
<1>7. Len(forth) = 3 /\ Len(back) = 3
  <2>1. ASSUME NEW s \in Seq(S), NEW t \in Seq(S), NEW u \in Seq(S),
               Len(s) = 1, Len(t) = 1, Len(u) = 1
        PROVE  Three(s \o t \o u)
    <3>1. s \o t \in Seq(S) /\ Len(s \o t) = Len(s) + Len(t)
      BY ConcatProperties, Zenon
    <3>2. Len(s \o t \o u) = Len(s \o t) + Len(u)
      BY <3>1, ConcatProperties, Zenon
    <3>3. QED
      BY <2>1, <3>1, <3>2, SMT
  <2>2. \A V \in SUBSET Levels : \A m \in {0, 1} : Len(Tor(m, V)) = 1 /\ Len(Vel(m, V)) = 1
    BY <1>2, StoresTyped, Zenon
  <2> HIDE DEF Three
  <2>3. Three(forth) /\ Three(back)
    BY <1>2, <1>6, <2>1, <2>2, Zenon
  <2>4. QED
    BY <2>3 DEF Three
<1> DEFINE s3 == Enable(0, 1) \o Enable(1, 1) \o IfKey(13)
           s6 == s3 \o Tor(0, {0}) \o Vel(1, {-1}) \o Tor(0, {HalfSteps})
           s7 == s6 \o IfKey(13)
           s10 == s7 \o Tor(0, {0}) \o Vel(1, {1}) \o Tor(0, {-HalfSteps})
           s14 == s10 \o IfKey(13) \o Jump(3) \o Enable(0, 0) \o Enable(1, 0)
<1> HIDE DEF S, F
<1>8. /\ 1 \in 1 .. 13 /\ 2 \in 1 .. 13 /\ 3 \in 1 .. 13 /\ 4 \in 1 .. 13 /\ 5 \in 1 .. 13
      /\ 6 \in 1 .. 13 /\ 7 \in 1 .. 13 /\ 8 \in 1 .. 13 /\ 9 \in 1 .. 13 /\ 10 \in 1 .. 13
      /\ 11 \in 1 .. 13 /\ 12 \in 1 .. 13 /\ 13 \in 1 .. 13
      /\ 1 + 1 = 2 /\ 2 + 1 = 3 /\ 3 + 1 = 4 /\ 4 + 1 = 5 /\ 5 + 1 = 6 /\ 6 + 1 = 7
      /\ 7 + 1 = 8 /\ 8 + 1 = 9 /\ 9 + 1 = 10 /\ 10 + 1 = 11 /\ 11 + 1 = 12
      /\ 12 + 1 = 13 /\ 13 + 1 = 14
  BY SMT
<1>9. G(s3, 3)
  <2>1. G(Enable(0, 1), 1)
    <3>1. F[1] \in S
      <4>1. 1 \in 1 .. 14
        BY SMT
      <4>2. QED
        BY <1>3, <4>1, Zenon
    <3>2. <<F[1]>> \in Seq(S) /\ Len(<<F[1]>>) = 1
      BY <3>1, One, Zenon
    <3>3. \A i \in 1 .. 1 : <<F[1]>>[i] = F[i]
      BY SMT
    <3>4. QED
      BY <1>1, <3>2, <3>3, Zenon DEF Spells, Enable
  <2>2. G(Enable(0, 1) \o Enable(1, 1), 2)
    BY <1>1, <1>4, <1>8, <2>1, Zenon DEF Enable
  <2>3. QED
    BY <1>1, <1>4, <1>8, <2>2, Zenon DEF IfKey
<1> HIDE DEF s3
<1>10. G(s6, 6)
  <2>1. G(s3 \o Tor(0, {0}), 4)
    BY <1>1, <1>4, <1>8, <1>9, Zenon DEF Tor
  <2>2. G(s3 \o Tor(0, {0}) \o Vel(1, {-1}), 5)
    BY <1>1, <1>4, <1>8, <2>1, Zenon DEF Vel
  <2>3. QED
    BY <1>1, <1>4, <1>8, <2>2, Zenon DEF Tor
<1> HIDE DEF s6
<1>11. G(s7, 7)
  BY <1>1, <1>4, <1>8, <1>10, Zenon DEF IfKey
<1> HIDE DEF s7
<1>12. G(s10, 10)
  <2>1. G(s7 \o Tor(0, {0}), 8)
    BY <1>1, <1>4, <1>8, <1>11, Zenon DEF Tor
  <2>2. G(s7 \o Tor(0, {0}) \o Vel(1, {1}), 9)
    BY <1>1, <1>4, <1>8, <2>1, Zenon DEF Vel
  <2>3. QED
    BY <1>1, <1>4, <1>8, <2>2, Zenon DEF Tor
<1> HIDE DEF s10
<1>13. G(s14, 14)
  <2>1. G(s10 \o IfKey(13), 11)
    BY <1>1, <1>4, <1>8, <1>12, Zenon DEF IfKey
  <2>2. G(s10 \o IfKey(13) \o Jump(3), 12)
    BY <1>1, <1>4, <1>8, <2>1, Zenon DEF Jump
  <2>3. G(s10 \o IfKey(13) \o Jump(3) \o Enable(0, 0), 13)
    BY <1>1, <1>4, <1>8, <2>2, Zenon DEF Enable
  <2>4. QED
    BY <1>1, <1>4, <1>8, <2>3, Zenon DEF Enable
<1>14. DirTest = s14
  <2>1. s6 = s3 \o forth /\ s10 = s7 \o back
    <3>1. s3 \in Seq(S) /\ s7 \in Seq(S)
      BY <1>9, <1>11, Zenon DEF Spells
    <3>2. /\ Flat(s3, Tor(0, {0}), Vel(1, {-1}), Tor(0, {HalfSteps}))
          /\ Flat(s7, Tor(0, {0}), Vel(1, {1}), Tor(0, {-HalfSteps}))
      BY <1>2, <1>5, <1>6, <3>1, Zenon
    <3>3. QED
      BY <3>2, Zenon DEF s6, s10, Flat
  <2>3. 3 + Len(forth) + Len(back) + 4 = 13
    BY <1>7, SMT
  <2> DEFINE U == Enable(0, 1) \o Enable(1, 1) \o IfKey(13) \o forth \o IfKey(13) \o back
                   \o IfKey(13) \o Jump(3) \o Enable(0, 0) \o Enable(1, 0)
  <2>4. DirTest = U
    <3>1. DirTest = UntilKey(forth, back)
      BY Zenon DEF DirTest
    <3> HIDE DEF forth, back
    <3>2. QED
      BY <2>3, <3>1, Zenon DEF UntilKey
  <2>5. U = s14
    BY <2>1, Zenon DEF s3, s7
  <2>6. QED
    BY <2>4, <2>5
<1>15. QED
  BY <1>13, <1>14, Zenon DEF Spells, F

\* What the loop of a test that waits for a key may contain.
InLoop(t, out) ==
  \A k \in DOMAIN t : /\ t[k].op # "enable"
                      /\ t[k].op \in {"key", "jump"} => t[k].vals \subseteq 3 .. out

\* Its beginning: the two motors are switched on, the jumps stay in the loop.
LoopBegun(s, out) ==
  \A k \in DOMAIN s : /\ s[k].op = "enable" => k <= 2
                      /\ s[k].op \in {"key", "jump"} => k >= 3 /\ s[k].vals \subseteq 3 .. out

\* The loop goes on.
LEMMA LoopGoesOn ==
  ASSUME NEW S, NEW s \in Seq(S), NEW t \in Seq(S), NEW out,
         Len(s) >= 2, LoopBegun(s, out), InLoop(t, out)
  PROVE  s \o t \in Seq(S) /\ Len(s \o t) = Len(s) + Len(t) /\ LoopBegun(s \o t, out)
<1> DEFINE u == s \o t
<1>1. /\ u \in Seq(S) /\ Len(u) = Len(s) + Len(t)
      /\ \A k \in 1 .. Len(s) + Len(t) : u[k] = IF k <= Len(s) THEN s[k] ELSE t[k - Len(s)]
  BY ConcatProperties, Zenon
<1>2. /\ Len(s) \in Nat /\ Len(t) \in Nat
      /\ DOMAIN s = 1 .. Len(s) /\ DOMAIN t = 1 .. Len(t)
      /\ DOMAIN u = 1 .. Len(s) + Len(t)
  BY <1>1, LenProperties, SMT
<1> HIDE DEF u
<1>3. ASSUME NEW k \in DOMAIN u
      PROVE  /\ u[k].op = "enable" => k <= 2
             /\ u[k].op \in {"key", "jump"} => k >= 3 /\ u[k].vals \subseteq 3 .. out
  <2>1. CASE k <= Len(s)
    <3>1. k \in DOMAIN s /\ u[k] = s[k]
      BY <1>1, <1>2, <2>1, SMT
    <3>2. QED
      BY <3>1, Zenon DEF LoopBegun
  <2>2. CASE ~(k <= Len(s))
    <3>1. k - Len(s) \in DOMAIN t /\ u[k] = t[k - Len(s)] /\ k >= 3
      BY <1>1, <1>2, <2>2, SMT
    <3>2. QED
      BY <3>1, Zenon DEF InLoop
  <2>3. QED
    BY <2>1, <2>2
<1>4. QED
  BY <1>1, <1>3, Zenon DEF LoopBegun, u

\* After a test that waits for a key both motors are switched off: on every
\* way out of its loop (test.c, dir_test and dir_test2).
LEMMA UntilKeyRests ==
  ASSUME NEW forth, NEW back, Len(forth) \in Nat, Len(back) \in Nat,
         Stores(forth), Stores(back), Plain(forth), Plain(back),
         \A m : Free(forth, "enable", m) /\ Free(back, "enable", m)
  PROVE  /\ Direct(UntilKey(forth, back), "enable")
         /\ \A m \in {0, 1} : EndsIn(UntilKey(forth, back), "enable", m, {0})
<1> DEFINE out == 3 + Len(forth) + Len(back) + 4
           size == out + 1
           S == Seq(Ops(size))
           L(s, n) == s \in S /\ Len(s) = n /\ LoopBegun(s, out)
           I(t, n) == t \in S /\ Len(t) = n /\ InLoop(t, out)
           a == Enable(0, 1) \o Enable(1, 1)
           d == a \o IfKey(out) \o forth \o IfKey(out)
           g == d \o back \o IfKey(out) \o Jump(3)
           u == g \o Enable(0, 0) \o Enable(1, 0)
<1>1. /\ size \in Nat /\ out \in Nat /\ out \in 1 .. size /\ 3 \in 1 .. size
      /\ out \in 3 .. out /\ 3 \in 3 .. out /\ 0 \in Bit /\ 1 \in Bit
  BY SMT DEF Bit
<1>2. /\ \A m \in {0, 1} : \A v \in Bit : Enable(m, v) \in S /\ Len(Enable(m, v)) = 1
      /\ IfKey(out) \in S /\ Len(IfKey(out)) = 1
      /\ Jump(3) \in S /\ Len(Jump(3)) = 1
      /\ forth \in S /\ back \in S
  BY <1>1, StoresTyped, Zenon DEF Stores
<1>3. I(IfKey(out), 1) /\ I(Jump(3), 1)
  <2>1. /\ Op("key", 0, {out}).op = "key" /\ Op("key", 0, {out}).vals = {out}
        /\ Op("jump", 0, {3}).op = "jump" /\ Op("jump", 0, {3}).vals = {3}
    BY Zenon DEF Op
  <2>2. \A e : DOMAIN <<e>> = {1} /\ <<e>>[1] = e
    BY SMT
  <2>v. "key" # "enable" /\ "jump" # "enable" /\ {out} \subseteq 3 .. out /\ {3} \subseteq 3 .. out
    BY <1>1, SMT
  <2> HIDE DEF out
  <2>3. \A k \in DOMAIN IfKey(out) : IfKey(out)[k] = Op("key", 0, {out})
    BY <2>2, Zenon DEF IfKey
  <2>4. \A k \in DOMAIN Jump(3) : Jump(3)[k] = Op("jump", 0, {3})
    BY <2>2, Zenon DEF Jump
  <2>6. InLoop(IfKey(out), out) /\ InLoop(Jump(3), out)
    BY <2>1, <2>3, <2>4, <2>v, Zenon DEF InLoop
  <2>5. QED
    BY <1>2, <2>6, Zenon
<1>4. I(forth, Len(forth)) /\ I(back, Len(back))
  <2>1. \A t : Plain(t) /\ (\A m : Free(t, "enable", m)) => InLoop(t, out)
    BY Zenon DEF InLoop, Plain, Free, Matches
  <2>2. QED
    BY <1>2, <2>1, Zenon
<1>5. L(a, 2)
  <2>1. /\ Enable(0, 1) \in S /\ Len(Enable(0, 1)) = 1
        /\ Enable(1, 1) \in S /\ Len(Enable(1, 1)) = 1
    BY <1>1, <1>2, Zenon
  <2>2. /\ a \in S /\ Len(a) = 1 + 1
        /\ \A i \in 1 .. 1 + 1 : a[i] = IF i <= 1 THEN Enable(0, 1)[i] ELSE Enable(1, 1)[i - 1]
    <3>1. /\ a \in S /\ Len(a) = Len(Enable(0, 1)) + Len(Enable(1, 1))
          /\ \A i \in 1 .. Len(Enable(0, 1)) + Len(Enable(1, 1)) :
               a[i] = IF i <= Len(Enable(0, 1)) THEN Enable(0, 1)[i]
                      ELSE Enable(1, 1)[i - Len(Enable(0, 1))]
      BY <2>1, ConcatProperties, Zenon
    <3>2. QED
      BY <2>1, <3>1, Zenon
  <2>3. \A e : <<e>>[1] = e
    BY SMT
  <2>4. a[1] = Op("enable", 0, {1}) /\ a[2] = Op("enable", 1, {1})
    BY <2>2, <2>3, SMT DEF Enable
  <2>5. DOMAIN a = {1, 2}
    <3>1. DOMAIN a = 1 .. Len(a)
      BY <2>2, LenProperties, Zenon
    <3>2. QED
      BY <2>2, <3>1, SMT
  <2> HIDE DEF a, out
  <2>6. LoopBegun(a, out)
    BY <2>4, <2>5, SMT DEF LoopBegun, Op
  <2>7. Len(a) = 2
    BY <2>2, SMT
  <2>8. QED
    BY <2>2, <2>6, <2>7, Zenon
<1>6. ASSUME NEW s, NEW t, NEW k \in Nat, NEW n \in Nat, k >= 2, L(s, k), I(t, n)
      PROVE  L(s \o t, k + n)
  BY <1>6, LoopGoesOn, Zenon
<1>s. size = 8 + Len(forth) + Len(back) /\ out = 7 + Len(forth) + Len(back)
  BY SMT
<1> HIDE DEF S, out, size, L, I, a
<1>7. L(d, 2 + 1 + Len(forth) + 1)
  <2>1. L(a \o IfKey(out), 2 + 1)
    BY <1>3, <1>5, <1>6, SMT
  <2>2. L(a \o IfKey(out) \o forth, 2 + 1 + Len(forth))
    BY <1>4, <1>6, <2>1, SMT
  <2>3. QED
    BY <1>3, <1>6, <2>2, SMT
<1> HIDE DEF d
<1>8. L(g, 2 + 1 + Len(forth) + 1 + Len(back) + 1 + 1)
  <2>1. L(d \o back, 2 + 1 + Len(forth) + 1 + Len(back))
    BY <1>4, <1>6, <1>7, SMT
  <2>2. L(d \o back \o IfKey(out), 2 + 1 + Len(forth) + 1 + Len(back) + 1)
    BY <1>3, <1>6, <2>1, SMT
  <2>3. QED
    BY <1>3, <1>6, <2>2, SMT
<1> HIDE DEF g
<1>9. g \in S /\ Len(g) = out - 1 /\ LoopBegun(g, out)
  <2>1. 2 + 1 + Len(forth) + 1 + Len(back) + 1 + 1 = out - 1
    BY <1>s, SMT
  <2>2. QED
    BY <1>8, <2>1, Zenon DEF L
<1>10. UntilKey(forth, back) = u
  BY Zenon DEF UntilKey, g, d, a, out
<1>11. \A m \in {0, 1} : EndsIn(u, "enable", m, {0})
  BY <1>1, <1>9, SwitchedOff, Zenon DEF S
<1>12. Direct(u, "enable")
  <2> DEFINE h == g \o Enable(0, 0)
  <2>1. /\ Enable(0, 0) \in S /\ Len(Enable(0, 0)) = 1
        /\ Enable(1, 0) \in S /\ Len(Enable(1, 0)) = 1
    BY <1>1, <1>2, Zenon
  <2> DEFINE Cat(s, t) ==
               /\ s \o t \in S /\ Len(s \o t) = Len(s) + Len(t)
               /\ \A i \in 1 .. Len(s) + Len(t) :
                    (s \o t)[i] = IF i <= Len(s) THEN s[i] ELSE t[i - Len(s)]
  <2>c. ASSUME NEW s \in S, NEW t \in S PROVE Cat(s, t)
    BY ConcatProperties, Zenon DEF S
  <2>2. Cat(g, Enable(0, 0))
    BY <1>9, <2>1, <2>c
  <2>3. Cat(h, Enable(1, 0))
    <3>1. h \in S
      BY <2>2, Zenon
    <3> HIDE DEF h, Cat
    <3>2. QED
      BY <2>1, <2>c, <3>1
  <2>4. u = h \o Enable(1, 0)
    BY Zenon DEF h
  <2>5. /\ u \in S /\ Len(u) = out + 1
        /\ \A i \in 1 .. out + 1 : u[i] = IF i <= out THEN h[i] ELSE Enable(1, 0)[i - out]
        /\ \A i \in 1 .. out : h[i] = IF i <= out - 1 THEN g[i] ELSE Enable(0, 0)[i - (out - 1)]
    <3>1. Len(h) = Len(g) + Len(Enable(0, 0))
      BY <2>2, Zenon
    <3> HIDE DEF Cat, h
    <3>2. Len(h) = out /\ Len(g) + Len(Enable(0, 0)) = out
          /\ Len(h) + Len(Enable(1, 0)) = out + 1
      <4>1. out - 1 + 1 = out
        BY <1>1, SMT
      <4>2. QED
        BY <1>9, <2>1, <3>1, <4>1, Zenon
    <3> HIDE DEF u
    <3>3. u \in S /\ Len(u) = out + 1
      BY <2>3, <2>4, <3>2, Zenon DEF Cat
    <3>4. \A i \in 1 .. out + 1 : u[i] = IF i <= out THEN h[i] ELSE Enable(1, 0)[i - out]
      BY <2>3, <2>4, <3>2, Zenon DEF Cat
    <3>5. \A i \in 1 .. out : h[i] = IF i <= out - 1 THEN g[i] ELSE Enable(0, 0)[i - (out - 1)]
      BY <1>9, <2>2, <3>2, Zenon DEF Cat, h
    <3>6. QED
      BY <3>3, <3>4, <3>5
  <2> HIDE DEF h, u, Cat
  <2>6. DOMAIN u = 1 .. out + 1 /\ DOMAIN g = 1 .. out - 1
    <3>1. DOMAIN u = 1 .. Len(u) /\ DOMAIN g = 1 .. Len(g)
      BY <1>9, <2>5, LenProperties, Zenon DEF S
    <3>2. QED
      BY <1>9, <2>5, <3>1, Zenon
  <2>7. \A i \in 1 .. out - 1 : u[i] = g[i]
    BY <1>1, <2>5, SMT
  <2>8. u[out].op = "enable" /\ u[out + 1].op = "enable"
    <3>1. \A e : <<e>>[1] = e
      BY SMT
    <3>2. \A n : Op("enable", n, {0}).op = "enable"
      BY Zenon DEF Op
    <3>3. /\ u[out] = h[out] /\ h[out] = Enable(0, 0)[1]
          /\ u[out + 1] = Enable(1, 0)[1]
      <4>1. out - (out - 1) = 1 /\ out + 1 - out = 1
            /\ out \in 1 .. out + 1 /\ out + 1 \in 1 .. out + 1 /\ out \in 1 .. out
            /\ out <= out /\ ~(out + 1 <= out) /\ ~(out <= out - 1)
        BY <1>1, SMT
      <4>2. u[out] = IF out <= out THEN h[out] ELSE Enable(1, 0)[out - out]
        BY <2>5, <4>1, Zenon
      <4>3. h[out] = IF out <= out - 1 THEN g[out] ELSE Enable(0, 0)[out - (out - 1)]
        BY <2>5, <4>1, Zenon
      <4>4. u[out + 1] = Enable(1, 0)[1]
        <5>1. ASSUME NEW i \in 1 .. out + 1, i = out + 1
              PROVE  u[i] = Enable(1, 0)[1]
          <6>1. ~(i <= out) /\ i - out = 1
            BY <1>1, <5>1, SMT
          <6>2. u[i] = IF i <= out THEN h[i] ELSE Enable(1, 0)[i - out]
            BY <2>5, <5>1
          <6>3. QED
            BY <6>1, <6>2, Zenon
        <5>2. QED
          BY <4>1, <5>1, Zenon
      <4>5. QED
        BY <4>1, <4>2, <4>3, <4>4, Zenon
    <3>4. QED
      BY <3>1, <3>2, <3>3, Zenon DEF Enable
  <2>9. \A k \in DOMAIN u : k <= out - 1 \/ k = out \/ k = out + 1
    BY <1>1, <2>6, SMT
  <2>10. ASSUME NEW k \in DOMAIN u, u[k].op \in {"key", "jump"}
         PROVE  k \in 3 .. out - 1 /\ u[k].vals \subseteq 3 .. out
    <3>1. k <= out - 1
      BY <2>8, <2>9, <2>10, SMT
    <3>2. k \in DOMAIN g /\ u[k] = g[k]
      BY <1>1, <2>6, <2>7, <3>1, SMT
    <3>3. k >= 3 /\ u[k].vals \subseteq 3 .. out
      BY <1>9, <2>10, <3>2, Zenon DEF LoopBegun
    <3>4. QED
      BY <1>1, <2>6, <3>1, <3>3, SMT
  <2>11. ASSUME NEW l \in DOMAIN u, u[l].op = "enable"
         PROVE  l \in 1 .. 2 \/ l \in out .. out + 1
    <3>1. ASSUME l <= out - 1 PROVE l \in 1 .. 2
      <4>1. l \in DOMAIN g /\ u[l] = g[l]
        BY <1>1, <2>6, <2>7, <3>1, SMT
      <4>2. l <= 2
        BY <1>9, <2>11, <4>1, Zenon DEF LoopBegun
      <4>3. QED
        BY <2>6, <4>2, SMT
    <3>2. QED
      BY <1>1, <2>9, <3>1, SMT
  <2>12. ASSUME NEW k \in 3 .. out - 1, NEW l \in 1 .. 2 \cup out .. out + 1,
                NEW to \in 3 .. out
         PROVE  (k < l /\ to <= l) \/ (l < k /\ l < to)
    BY <1>1, SMT
  <2>13. QED
    BY <2>10, <2>11, <2>12, Zenon DEF Direct
<1>13. QED
  BY <1>10, <1>11, <1>12, Zenon

\* Every test rests at its end, whichever way it gets there.
LEMMA TestsRest ==
  ASSUME NEW c \in Commands, c \in Switching
  PROVE  /\ Direct(Script[c], "enable")
         /\ \A m \in {0, 1} : \/ Free(Script[c], "enable", m)
                              \/ EndsIn(Script[c], "enable", m, {0})
         /\ c \in {"ttor_test_new", "vves_test"}
              => /\ Plain(Script[c])
                 /\ EndsIn(Script[c], "des", 1, {0}) /\ EndsIn(Script[c], "protocol", 1, {0})
<1>1. CASE c \notin {"dir_test", "dir_test2"}
  BY <1>1, StraightTestsRest, PlainIsDirect, Zenon
<1>2. CASE c \in {"dir_test", "dir_test2"}
  <2> DEFINE G(s) == /\ Stores(s) /\ Len(s) \in Nat /\ Plain(s)
                     /\ \A m : Free(s, "enable", m)
  <2>1. ASSUME NEW v \in Torques, NEW m \in {0, 1}
        PROVE  G(Tor(m, {v})) /\ G(Vel(m, {v}))
    <3>1. {v} \in SUBSET Levels /\ 0 \in Nat /\ 1 \in Nat
      BY LevelsOfRamp, SMT
    <3>2. /\ Stores(Tor(m, {v})) /\ Len(Tor(m, {v})) \in Nat
          /\ Stores(Vel(m, {v})) /\ Len(Vel(m, {v})) \in Nat
      BY <3>1, StoresTyped, Zenon DEF Stores
    <3>3. "enable" # "tor" /\ "enable" # "vel"
      BY SMT
    <3>4. QED
      BY <3>2, <3>3, Pieces, Zenon
  <2>2. ASSUME NEW s, NEW t, G(s), G(t)
        PROVE  G(s \o t)
    <3>1. Stores(s \o t)
      BY <2>2, ConcatProperties, Zenon DEF Stores
    <3>2. 0 \in Nat
      BY SMT
    <3>3. s \in Seq(Ops(0)) /\ t \in Seq(Ops(0)) /\ s \o t \in Seq(Ops(0))
      BY <2>2, <3>1, <3>2, Zenon DEF Stores
    <3>4. Len(s \o t) \in Nat
      BY <3>3, LenProperties, Zenon
    <3>5. Plain(s \o t) /\ \A m : Free(s \o t, "enable", m)
      BY <2>2, <3>3, Joined, Zenon
    <3>6. QED
      BY <3>1, <3>4, <3>5
  <2>3. 0 \in Torques /\ HalfSteps \in Torques /\ -HalfSteps \in Torques
        /\ 1 \in Torques /\ -1 \in Torques /\ 0 \in {0, 1} /\ 1 \in {0, 1}
    BY LevelsOfRamp, SMT
  <2> HIDE DEF G
  <2>4. /\ G(Tor(0, {0}) \o Vel(1, {-1}) \o Tor(0, {HalfSteps}))
        /\ G(Tor(0, {0}) \o Vel(1, {1}) \o Tor(0, {-HalfSteps}))
        /\ G(Tor(0, {HalfSteps}) \o Vel(1, {-1})) /\ G(Tor(0, {-1}) \o Vel(1, {-1}))
    BY <2>1, <2>2, <2>3, Zenon
  <2> DEFINE R(s) == /\ Direct(s, "enable")
                     /\ \A m \in {0, 1} : EndsIn(s, "enable", m, {0})
  <2>5. ASSUME NEW s, NEW t, G(s), G(t) PROVE R(UntilKey(s, t))
    BY <2>5, UntilKeyRests, Zenon DEF G
  <2> HIDE DEF R
  <2>6. R(DirTest) /\ R(DirTest2)
    BY <2>4, <2>5, Zenon DEF DirTest, DirTest2
  <2>7. Script["dir_test"] = DirTest /\ Script["dir_test2"] = DirTest2
        /\ "dir_test" \notin {"ttor_test_new", "vves_test"}
        /\ "dir_test2" \notin {"ttor_test_new", "vves_test"}
    BY SMT DEF Script
  <2>8. QED
    BY <1>2, <2>6, <2>7, Zenon DEF R
<1>3. QED
  BY <1>1, <1>2

\* A command that is over leaves what it ends in.
LEMMA EndHeld ==
  ASSUME LastHeld, cmd \in Commands, step = 0, NEW op \in StoreOps, NEW m \in {0, 1},
         Direct(Script[cmd], op), Own(op, m), NEW V, EndsIn(Script[cmd], op, m, V)
  PROVE  Held(op, m) \in V
<1>1. Past(op, m) = {k \in DOMAIN Script[cmd] : Matches(Script[cmd][k], op, m)}
  BY Zenon DEF Past
<1>2. PICK e \in DOMAIN Script[cmd] :
        /\ Matches(Script[cmd][e], op, m) /\ Script[cmd][e].vals = V
        /\ \A l \in DOMAIN Script[cmd] : Matches(Script[cmd][l], op, m) => l <= e
  BY Zenon DEF EndsIn
<1>3. e \in Past(op, m)
  BY <1>1, <1>2, Zenon
<1>4. PICK k \in Past(op, m) : /\ Held(op, m) \in Script[cmd][k].vals
                               /\ \A l \in Past(op, m) : l <= k
  BY <1>3, Zenon DEF LastHeld, HoldsLast
<1>5. k = e
  <2>1. k <= e /\ e <= k
    BY <1>1, <1>2, <1>3, <1>4, Zenon
  <2>2. k \in Nat /\ e \in Nat
    BY <1>1, <1>2, <1>4, Positions, SMT
  <2>3. QED
    BY <2>1, <2>2, SMT
<1>6. QED
  BY <1>2, <1>4, <1>5, Zenon

\* A command has a script once it has begun.
LEMMA CommandOfBench == BenchSpec => [](cmd \in Commands \cup {"none"})
<1>1. BenchTypeOK => cmd \in Commands \cup {"none"}
  BY DEF BenchTypeOK
<1>2. QED
  BY <1>1, BenchTypeCorrect, PTL

\* Whatever is typed, and however the two threads interleave, a test that has
\* ended has switched off every motor it switched on; the two tests of the
\* regulator have also taken back its set-point and the protocol of motor 1
\* (the last lines of each test in test.c).
THEOREM AtRestAlways == BenchSpec => []AtRestAfterTest
<1>1. LastHeld /\ cmd \in Commands \cup {"none"} => AtRestAfterTest
  <2> SUFFICES ASSUME LastHeld, cmd \in Commands \cup {"none"}, step = 0, cmd \in Switching
               PROVE  /\ \A m \in SwitchedBy(cmd) : motor_enable[m] = 0
                      /\ cmd \in {"ttor_test_new", "vves_test"}
                           => pid_des = 0 /\ protocol[1] = 0
    BY Zenon DEF AtRestAfterTest
  <2>1. cmd \in Commands
    BY SMT DEF Switching
  <2>2. /\ \A m : Own("enable", m) /\ Own("des", m) /\ Own("protocol", m)
        /\ "enable" \in StoreOps /\ "des" \in StoreOps /\ "protocol" \in StoreOps
        /\ 1 \in {0, 1}
    BY SMT DEF Own, StoreOps
  <2>3. ASSUME NEW m \in SwitchedBy(cmd) PROVE motor_enable[m] = 0
    <3>1. PICK k \in DOMAIN Script[cmd] : Matches(Script[cmd][k], "enable", m)
      BY Zenon DEF SwitchedBy, Matches
    <3>2. m \in {0, 1}
      <4>1. \A n : \A e \in Ops(n) : e.m \in {0, 1}
        BY SMT DEF Ops
      <4>2. Script[cmd][k] \in Ops(Len(Script[cmd]))
        BY <2>1, Positions
      <4>3. QED
        BY <3>1, <4>1, <4>2, Zenon DEF Matches
    <3>3. EndsIn(Script[cmd], "enable", m, {0})
      BY <2>1, <3>1, <3>2, TestsRest, Zenon DEF Free
    <3>4. Held("enable", m) \in {0}
      BY <2>1, <2>2, <3>2, <3>3, EndHeld, TestsRest, Zenon
    <3>5. QED
      BY <3>4, SMT DEF Held
  <2>4. ASSUME cmd \in {"ttor_test_new", "vves_test"} PROVE pid_des = 0 /\ protocol[1] = 0
    <3>1. /\ Plain(Script[cmd])
          /\ EndsIn(Script[cmd], "des", 1, {0}) /\ EndsIn(Script[cmd], "protocol", 1, {0})
      BY <2>1, <2>4, TestsRest, Zenon
    <3>2. Held("des", 1) \in {0} /\ Held("protocol", 1) \in {0}
      BY <2>1, <2>2, <3>1, EndHeld, PlainIsDirect, Zenon
    <3>3. QED
      BY <3>2, SMT DEF Held
  <2>5. QED
    BY <2>3, <2>4
<1>2. QED
  BY <1>1, LastStoreHeld, CommandOfBench, PTL

-----------------------------------------------------------------------------
(* The ramps.                                                               *)

Ramped(s, m) == Within(s, "tor", m, 0 .. HalfSteps) /\ EndsIn(s, "tor", m, {0})

\* The tests with a ramp store torques within the target, the last one zero.
LEMMA BalancedRamps ==
  ASSUME NEW c \in Commands, c \in Balanced
  PROVE  /\ Plain(Script[c])
         /\ \A m \in {0, 1} : Free(Script[c], "tor", m) \/ Ramped(Script[c], m)
<1> DEFINE S == Seq(Ops(0))
           T(s) == s \in S /\ Plain(s)
           F(s, m) == Free(s, "tor", m)
           W(s, m) == Within(s, "tor", m, 0 .. HalfSteps)
           R(s, m) == Ramped(s, m)
           up == Ramp(0, HalfSteps, 0, 0 .. HalfSteps - 1)
           down == Ramp(0, HalfSteps, HalfSteps, {})
<1>1. /\ 0 \in Bit /\ 1 \in Bit /\ 0 \in Nat
      /\ {0} \in SUBSET Protocols
      /\ {HalfSteps} \in SUBSET Torques /\ {0} \in SUBSET Torques
      /\ 0 \in {0, 1} /\ 1 \in {0, 1} /\ 0 # 1
      /\ "tor" # "enable" /\ "tor" # "protocol" /\ "tor" # "des"
  BY LevelsOfRamp, BenchAssumption, SMT DEF Bit
<1>2. /\ \A m \in {0, 1} : \A v \in Bit : T(Enable(m, v))
      /\ T(UpDown(0)) /\ T(UpDown(1)) /\ T(up) /\ T(down)
      /\ \A V \in SUBSET Protocols : T(Protocol(1, V))
      /\ T(Des({HalfSteps})) /\ T(Des({0})) /\ T(<<>>)
  BY <1>1, StoresTyped, UpDownTyped, HalfRampsTyped, EmptySeq, Pieces, RampsOfTests, Zenon
<1>3. /\ \A n, v, m : F(Enable(n, v), m)
      /\ \A n, V, m : F(Protocol(n, V), m)
      /\ \A V, m : F(Des(V), m)
      /\ \A m : F(<<>>, m)
      /\ F(UpDown(0), 1) /\ F(UpDown(1), 0) /\ F(up, 1) /\ F(down, 1)
  BY <1>1, Pieces, RampsOfTests, Zenon
<1>4. R(UpDown(0), 0) /\ R(UpDown(1), 1) /\ R(down, 0) /\ W(up, 0)
  BY RampsOfTests, Zenon DEF Ramped
<1>5. ASSUME NEW s, NEW t, T(s), T(t)
      PROVE  /\ T(s \o t)
             /\ \A m : /\ F(s, m) /\ F(t, m) => F(s \o t, m)
                       /\ W(s, m) /\ W(t, m) => W(s \o t, m)
                       /\ W(s, m) /\ R(t, m) => R(s \o t, m)
                       /\ R(s, m) /\ F(t, m) => R(s \o t, m)
  BY <1>5, Joined, FreeIsWithin, Zenon DEF Ramped
<1>6. \A s, m : F(s, m) => W(s, m)
  BY FreeIsWithin, Zenon
<1> HIDE DEF T, F, W, R, up, down
<1> DEFINE Q(s) == T(s) /\ F(s, 0) /\ F(s, 1)
<1>7. /\ \A m \in {0, 1} : \A v \in Bit : Q(Enable(m, v))
      /\ \A s, t : Q(s) /\ Q(t) => Q(s \o t)
  BY <1>2, <1>3, <1>5, Zenon
<1>c. \A s, t : /\ T(s) /\ T(t) /\ R(s, 0) /\ F(t, 0) => T(s \o t) /\ R(s \o t, 0)
                /\ T(s) /\ T(t) /\ R(s, 1) /\ F(t, 1) => T(s \o t) /\ R(s \o t, 1)
                /\ T(s) /\ T(t) /\ F(s, 1) /\ F(t, 1) => T(s \o t) /\ F(s \o t, 1)
                /\ T(s) /\ T(t) /\ W(s, 0) /\ W(t, 0) => T(s \o t) /\ W(s \o t, 0)
  BY <1>5, Zenon
<1>8. /\ T(TorTest) /\ R(TorTest, 0) /\ F(TorTest, 1)
  <2> DEFINE a == Enable(0, 1) \o UpDown(0)
  <2>1. T(a) /\ R(a, 0) /\ F(a, 1)
    BY <1>1, <1>2, <1>3, <1>4, <1>5, <1>6, Zenon
  <2> HIDE DEF a
  <2>2. T(a \o Enable(0, 0)) /\ R(a \o Enable(0, 0), 0) /\ F(a \o Enable(0, 0), 1)
    BY <1>1, <1>2, <1>3, <1>5, <2>1, Zenon
  <2>3. QED
    BY <2>2, Zenon DEF TorTest, a
<1>9. ASSUME c = "ttor_test_new"
      PROVE  /\ T(TtorTestNew(TRUE)) /\ R(TtorTestNew(TRUE), 0) /\ F(TtorTestNew(TRUE), 1)
  <2> DEFINE p == Protocol(1, {2}) \o Enable(0, 1) \o Enable(1, 1) \o Des({HalfSteps})
             a == p \o UpDown(0)
             b == a \o Enable(0, 0) \o Enable(1, 0)
             d == b \o Des({0}) \o Protocol(1, {0})
  <2>1. T(Protocol(1, {2}))
    BY <1>2, <1>9, CommandsAssumption, Zenon
  <2>2. T(p) /\ F(p, 0) /\ F(p, 1)
    <3>1. Q(Protocol(1, {2})) /\ Q(Des({HalfSteps}))
      BY <1>1, <1>2, <1>3, <2>1, Zenon
    <3> HIDE DEF Q
    <3>2. Q(p)
      BY <1>1, <1>7, <3>1, Zenon
    <3>3. QED
      BY <3>2, Zenon DEF Q
  <2> HIDE DEF p
  <2>3. T(a) /\ R(a, 0) /\ F(a, 1)
    BY <1>2, <1>3, <1>4, <1>5, <1>6, <2>2, Zenon
  <2> HIDE DEF a
  <2>4. T(b) /\ R(b, 0) /\ F(b, 1)
    BY <1>1, <1>2, <1>3, <1>c, <2>3, Zenon
  <2> HIDE DEF b
  <2>5. T(d) /\ R(d, 0) /\ F(d, 1)
    BY <1>1, <1>2, <1>3, <1>5, <2>4, Zenon
  <2> HIDE DEF d
  <2>6. T(d \o <<>>) /\ R(d \o <<>>, 0) /\ F(d \o <<>>, 1)
    BY <1>2, <1>3, <1>5, <2>5, Zenon
  <2>7. QED
    BY <2>6, Zenon DEF TtorTestNew, Closed, p, a, b, d
<1>10. /\ T(AMaxSpeedTorTest(TRUE)) /\ R(AMaxSpeedTorTest(TRUE), 0)
       /\ R(AMaxSpeedTorTest(TRUE), 1)
  <2> DEFINE p == Enable(0, 1) \o Enable(1, 1) \o up
             a == p \o UpDown(1)
             b == a \o down
             d == b \o Enable(0, 0) \o Enable(1, 0)
  <2>1. T(p) /\ W(p, 0) /\ F(p, 1)
    <3>1. Q(Enable(0, 1) \o Enable(1, 1))
      <4> HIDE DEF Q
      <4>1. QED
        BY <1>1, <1>7, Zenon
    <3>2. T(p) /\ F(p, 1)
      BY <1>2, <1>3, <1>c, <3>1, Zenon
    <3>3. W(Enable(0, 1) \o Enable(1, 1), 0)
      BY <1>6, <3>1, Zenon
    <3>4. W(p, 0)
      BY <1>2, <1>4, <1>c, <3>1, <3>3, Zenon
    <3>5. QED
      BY <3>2, <3>4
  <2> HIDE DEF p
  <2>2. T(a) /\ W(a, 0) /\ R(a, 1)
    BY <1>2, <1>3, <1>4, <1>5, <1>6, <2>1, Zenon
  <2> HIDE DEF a
  <2>3. T(b) /\ R(b, 0) /\ R(b, 1)
    BY <1>2, <1>3, <1>4, <1>5, <2>2, Zenon
  <2> HIDE DEF b
  <2>4. T(d) /\ R(d, 0) /\ R(d, 1)
    BY <1>1, <1>2, <1>3, <1>5, <2>3, Zenon
  <2> HIDE DEF d
  <2>5. T(d \o <<>>) /\ R(d \o <<>>, 0) /\ R(d \o <<>>, 1)
    BY <1>2, <1>3, <1>5, <2>4, Zenon
  <2>6. QED
    BY <2>5, Zenon DEF AMaxSpeedTorTest, Closed, p, a, b, d, up, down
<1>11. /\ Script["tor_test"] = TorTest
       /\ Script["ttor_test_new"] = TtorTestNew(TRUE)
       /\ Script["a_max_speed_tor_test"] = AMaxSpeedTorTest(TRUE)
  BY Zenon DEF Script
<1>12. QED
  BY <1>8, <1>9, <1>10, <1>11, Zenon DEF Balanced, T, F, R

\* No motor with a ramp is ever put under the regulator, which would store
\* torques of its own in it.
RampedAlone ==
  \A m \in {0, 1} :
    (\E c \in Commands \cap Balanced : ~Free(Script[c], "tor", m)) => Unshared(m)

\* While the regulator keeps off the motors with a ramp, each ramp stays
\* between zero and its target and has brought the torque back to zero when
\* its test ends (set_motor_tor in tor_test, ttor_test_new, a_max_speed_tor_test).
THEOREM RampsReturnAlways == ASSUME RampedAlone PROVE BenchSpec => []RampsReturn
<1>1. LastHeld /\ cmd \in Commands \cup {"none"} => RampsReturn
  <2> SUFFICES ASSUME LastHeld, cmd \in Commands \cup {"none"}, cmd \in Balanced,
                      NEW m \in {0, 1}, Ramping(m)
               PROVE  t_ff[m] \in 0 .. HalfSteps /\ (step = 0 => t_ff[m] = 0)
    BY Zenon DEF RampsReturn
  <2>1. cmd \in Commands
    BY SMT DEF Balanced
  <2>2. PICK r \in DOMAIN Script[cmd] :
          Matches(Script[cmd][r], "tor", m) /\ (step = 0 \/ r < step)
    BY Zenon DEF Ramping, Matches
  <2>3. Unshared(m)
    BY <2>1, <2>2, Zenon DEF RampedAlone, Free
  <2>4. Own("tor", m) /\ "tor" \in StoreOps /\ Direct(Script[cmd], "tor")
    BY <2>1, <2>3, BalancedRamps, PlainIsDirect, Zenon DEF Own, StoreOps
  <2>5. Ramped(Script[cmd], m)
    BY <2>1, <2>2, BalancedRamps, Zenon DEF Free
  <2>6. r \in Past("tor", m)
    BY <2>2, Zenon DEF Past
  <2>7. PICK k \in Past("tor", m) : Held("tor", m) \in Script[cmd][k].vals
    BY <2>1, <2>4, <2>6, Zenon DEF LastHeld, HoldsLast
  <2>8. Held("tor", m) \in 0 .. HalfSteps
    BY <2>5, <2>7, Zenon DEF Ramped, Within, Past
  <2>9. ASSUME step = 0 PROVE Held("tor", m) \in {0}
    BY <2>1, <2>4, <2>5, <2>9, EndHeld, Zenon DEF Ramped
  <2>10. Held("tor", m) = t_ff[m]
    BY SMT DEF Held
  <2>11. QED
    BY <2>8, <2>9, <2>10, Zenon
<1>2. QED
  BY <1>1, LastStoreHeld, CommandOfBench, PTL

\* What dir_test has made of the torque of motor 0 and the velocity of motor 1
\* by each step of its loop.
DirTurns ==
  cmd = "dir_test" =>
    LET t == Held("tor", 0)
        v == Held("vel", 1)
    IN /\ step = 5 => t = 0
       /\ step = 6 => t = 0 /\ v = -1
       /\ step \in 7 .. 8 => t = HalfSteps /\ v = -1
       /\ step = 9 => t = 0
       /\ step = 10 => t = 0 /\ v = 1
       /\ step \in 11 .. 12 => t = -HalfSteps /\ v = 1

\* Every step of the two threads keeps it, if no command shares motor 0 with
\* the regulator.
LEMMA DirTurnsKept ==
  ASSUME AtStep, TypeOK, NotRegulated, DirTurns, Unshared(0), [BenchNext]_benchVars
  PROVE  DirTurns'
<1> SUFFICES ASSUME cmd' = "dir_test" PROVE DirTurns'
  BY Zenon DEF DirTurns
<1>1. /\ "tor" \in StoreOps /\ "vel" \in StoreOps /\ 0 \in {0, 1} /\ 1 \in {0, 1}
      /\ Own("tor", 0) /\ Own("vel", 1) /\ "tor" # "des" /\ "vel" # "des"
  BY SMT DEF StoreOps, Own
<1>2. ASSUME cmd' = cmd, step' = step,
             Held("tor", 0)' = Held("tor", 0), Held("vel", 1)' = Held("vel", 1)
      PROVE  DirTurns'
  BY <1>2, SMT DEF DirTurns
<1>3. ASSUME cmd = "dir_test", step > 0
      PROVE  /\ step \in 1 .. 14 /\ Script[cmd][step] = DirTestStores[step]
             /\ After(step) = IF step < 14 THEN step + 1 ELSE 0
  <2>1. Script[cmd] = DirTest
    BY <1>3, Zenon DEF Script
  <2>2. step \in 1 .. 14
    BY <1>3, <2>1, DirTestSpelt DEF AtStep
  <2>3. QED
    BY <2>1, <2>2, DirTestSpelt, Zenon DEF After
<1>4. CASE StartCommand
  <2>1. step' = 1
    BY <1>4 DEF StartCommand
  <2>2. QED
    BY <2>1, SMT DEF DirTurns
<1>5. CASE StoreStep
  <2>1. /\ step > 0 /\ cmd = "dir_test" /\ step' = After(step)
        /\ Script[cmd][step].op \in {"enable", "tor", "vel", "protocol", "des"}
    BY <1>5, SMT DEF StoreStep
  <2>2. PICK x \in DirTestStores[step].vals :
          /\ Held("tor", 0)' = IF "tor" = DirTestStores[step].op /\ 0 = DirTestStores[step].m
                               THEN x ELSE Held("tor", 0)
          /\ Held("vel", 1)' = IF "vel" = DirTestStores[step].op /\ 1 = DirTestStores[step].m
                               THEN x ELSE Held("vel", 1)
    BY <1>1, <1>3, <1>5, <2>1, StoreHeld, Zenon
  <2>3. /\ step \in {1, 2, 4, 5, 6, 8, 9, 10, 13, 14}
        /\ step' = IF step < 14 THEN step + 1 ELSE 0
    <3>1. step \in 1 .. 14 /\ DirTestStores[step].op \notin {"key", "jump"}
      BY <1>3, <2>1, SMT
    <3>2. step \notin {3, 7, 11, 12}
      BY <3>1, SMT DEF DirTestStores, Op
    <3>3. QED
      BY <1>3, <2>1, <3>1, <3>2, SMT
  <2>4. /\ step = 4 => Held("tor", 0)' = 0
        /\ step = 5 => Held("tor", 0)' = Held("tor", 0) /\ Held("vel", 1)' = -1
        /\ step = 6 => Held("tor", 0)' = HalfSteps /\ Held("vel", 1)' = Held("vel", 1)
        /\ step = 8 => Held("tor", 0)' = 0
        /\ step = 9 => Held("tor", 0)' = Held("tor", 0) /\ Held("vel", 1)' = 1
        /\ step = 10 => Held("tor", 0)' = -HalfSteps /\ Held("vel", 1)' = Held("vel", 1)
    BY <2>2, SMT DEF DirTestStores, Op
  <2> HIDE DEF Held
  <2>5. QED
    BY <2>1, <2>3, <2>4, SMT DEF DirTurns
<1>6. CASE FlowStep
  <2>1. /\ step > 0 /\ cmd = "dir_test" /\ UNCHANGED <<vars, pid_des>>
        /\ \/ /\ DirTestStores[step].op \in {"key", "jump"}
              /\ step' \in DirTestStores[step].vals
           \/ DirTestStores[step].op = "key" /\ step' = After(step)
    BY <1>3, <1>6, SMT DEF FlowStep
  <2>2. Held("tor", 0)' = Held("tor", 0) /\ Held("vel", 1)' = Held("vel", 1)
    BY <2>1, SMT DEF Held, vars, shared
  <2>3. step \in 1 .. 14 /\ After(step) = IF step < 14 THEN step + 1 ELSE 0
    BY <1>3, <2>1
  <2>4. \/ step \in {3, 7, 11} /\ (step' = 13 \/ step' = step + 1)
        \/ step = 12 /\ step' = 3
    <3>1. DirTestStores[step].op = "key"
            => step \in {3, 7, 11} /\ DirTestStores[step].vals = {13}
      BY <2>3, SMT DEF DirTestStores, Op
    <3>2. DirTestStores[step].op = "jump"
            => step = 12 /\ DirTestStores[step].vals = {3}
      BY <2>3, SMT DEF DirTestStores, Op
    <3>3. \/ DirTestStores[step].op = "key" /\ (step' = 13 \/ step' = After(step))
          \/ DirTestStores[step].op = "jump" /\ step' = 3
      BY <2>1, <3>1, <3>2, Zenon
    <3>4. QED
      BY <2>3, <3>1, <3>2, <3>3, SMT
  <2>5. QED
    BY <2>1, <2>2, <2>4, SMT DEF DirTurns
<1>7. CASE CommuStep
  <2>1. Commu /\ cmd' = cmd /\ step' = step /\ pid_des' = pid_des
    BY <1>7, Zenon DEF CommuStep
  <2>2. Held("tor", 0)' = Held("tor", 0) /\ Held("vel", 1)' = Held("vel", 1)
    BY <1>1, <2>1, CommuHeld, Zenon
  <2>3. QED
    BY <1>2, <2>1, <2>2
<1>8. CASE CrashStep \/ Quit \/ UNCHANGED benchVars
  <2>1. cmd' = cmd /\ step' = step /\ UNCHANGED <<vars, pid_des>>
    BY <1>8, SMT DEF CrashStep, Quit, benchVars
  <2>2. Held("tor", 0)' = Held("tor", 0) /\ Held("vel", 1)' = Held("vel", 1)
    BY <2>1, SMT DEF Held, vars, shared
  <2>3. QED
    BY <1>2, <2>1, <2>2
<1>9. QED
  BY <1>4, <1>5, <1>6, <1>7, <1>8, Zenon DEF BenchNext, CommandStep

\* If no command puts motor 0 under the regulator, the set-points dir_test stores
\* for the torque of motor 0 and the velocity of motor 1 never oppose each other,
\* at no step of its loop and whatever commu_thread does meanwhile.
THEOREM TorqueOffAlways == ASSUME Unshared(0) PROVE BenchSpec => []TorqueOffBeforeTurn
<1>1. BenchInit => DirTurns
  BY SMT DEF BenchInit, DirTurns
<1>2. BenchSteps /\ TypeOK /\ NotRegulated /\ DirTurns /\ [BenchNext]_benchVars => DirTurns'
  BY DirTurnsKept, Zenon DEF BenchSteps
<1>3. DirTurns /\ cmd \in Commands \cup {"none"} => TorqueOffBeforeTurn
  <2> SUFFICES ASSUME DirTurns, cmd = "dir_test", step \in 5 .. Len(Script[cmd]) - 2
               PROVE  /\ t_ff[0] > 0 => v_des[1] < 0
                      /\ t_ff[0] < 0 => v_des[1] > 0
    BY Zenon DEF TorqueOffBeforeTurn
  <2>1. step \in 5 .. 12
    <3>1. Len(Script[cmd]) = 14
      BY DirTestSpelt, Zenon DEF Script
    <3>2. QED
      BY <3>1, SMT
  <2>2. Held("tor", 0) = t_ff[0] /\ Held("vel", 1) = v_des[1]
    BY SMT DEF Held
  <2>3. HalfSteps \in Nat \ {0}
    BY CommandsAssumption
  <2> HIDE DEF Held
  <2>4. QED
    BY <2>1, <2>2, <2>3, SMT DEF DirTurns
<1>4. BenchSpec => []TypeOK
  BY BenchImplementsCommu, TypeCorrect, PTL
<1>5. QED
  BY <1>1, <1>2, <1>3, <1>4, StepsAreOfScript, LastStoreHeld, CommandOfBench, PTL
     DEF BenchSpec
=============================================================================

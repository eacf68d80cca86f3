--------------------------- MODULE CanCommuProofs ---------------------------
(***************************************************************************)
(* The invariants of CanCommu for any motors, links and replies.           *)
(***************************************************************************)
EXTENDS CanCommu, TLAPS

\* A thread runs from the step that creates it, and is counted once.
LEMMA ThreadsTyped == ASSUME ThreadsOK, [CanNext]_canVars PROVE ThreadsOK'
<1> USE DEF ThreadsOK
<1>1. ASSUME UNCHANGED <<threads, receiver, misused>> PROVE ThreadsOK'
  BY <1>1, Zenon DEF receiver
<1>2. CASE motor_test_init
  <2>1. CASE StartReceiver
    <3>1. /\ threads' = threads \cup {"rx"} \/ threads' = threads
          /\ UNCHANGED misused
          /\ rx' = IF "rx" \in threads' THEN "malloc" ELSE rx
      BY <2>1, Zenon DEF StartReceiver, Create
    <3>2. QED
      BY <3>1, Zenon
  <2>2. CASE StartDy200
    BY <2>2, Zenon DEF StartDy200, Create, receiver
  <2>3. CASE StartCommu
    BY <2>3, Zenon DEF StartCommu, Create, receiver
  <2>4. CASE OpenTty \/ can_commu_init \/ can_creat_interface
            \/ CreateSocket \/ FindDevice \/ Bind
    <3>1. UNCHANGED <<threads, receiver, misused>>
      BY <2>4, SMT DEF OpenTty, can_commu_init, can_creat_interface,
         CreateSocket, FindDevice, Bind
    <3>2. QED
      BY <3>1, <1>1, Zenon
  <2>5. QED
    BY <1>2, <2>1, <2>2, <2>3, <2>4, Zenon DEF motor_test_init
<1>3. CASE can_rx_func
  <2>1. UNCHANGED threads /\ (UNCHANGED misused \/ Misuse("rx"))
    BY <1>3, Zenon DEF can_rx_func, Alloc, TestRun, RecvFails, Recv,
       StoreP, StoreV, StoreT, Decoded, Exit
  <2>2. rx # "none" /\ rx' # "none"
    BY <1>3, SMT DEF can_rx_func, Alloc, TestRun, RecvFails, Recv,
       StoreP, StoreV, StoreT, Decoded, Exit
  <2>3. QED
    BY <2>1, <2>2, Zenon DEF Misuse
<1>4. CASE can_commu_del \/ can_commu_send
  BY <1>4, Zenon DEF can_commu_del, ClearRun, can_delet_interface, FreeHandle,
     can_commu_send, Misuse, receiver
<1>5. CASE UNCHANGED canVars
  <2>1. threads' = threads /\ rx' = rx /\ misused' = misused
    BY <1>5, SMT DEF canVars, receiver
  <2>2. QED
    BY <2>1, Zenon
<1>6. QED
  BY <1>2, <1>3, <1>4, <1>5, Zenon DEF CanNext

-----------------------------------------------------------------------------
\* Every step keeps the variables in their types.
THEOREM CanTypeCorrect == CanSpec => []CanTypeOK
<1> USE CanAssumption DEF CanTypeOK, Decodable
<1>1. CanInit => CanTypeOK
  BY SMT DEF CanInit, Unset, Unbound, ThreadsOK
<1>2. CanTypeOK /\ [CanNext]_canVars => CanTypeOK'
  <2> SUFFICES ASSUME CanTypeOK, [CanNext]_canVars PROVE CanTypeOK'
    OBVIOUS
  <2>0. ThreadsOK'
    BY ThreadsTyped
  <2> USE <2>0
  <2> USE DEF At, GiveUp, Fails, Create, Misuse, Frames, Unbound,
              setup, conn, receiver, feedback
  <2>1. CASE motor_test_init
    <3>1. CASE OpenTty
      BY <3>1, SMT DEF OpenTty, Rate
    <3>2. CASE StartDy200
      BY <3>2, SMT DEF StartDy200
    <3>3. CASE can_commu_init
      BY <3>3, SMT DEF can_commu_init
    <3>4. CASE can_creat_interface
      BY <3>4, SMT DEF can_creat_interface
    <3>5. CASE CreateSocket
      BY <3>5, SMT DEF CreateSocket
    <3>6. CASE FindDevice
      BY <3>6, SMT DEF FindDevice
    <3>7. CASE Bind
      BY <3>7, SMT DEF Bind
    <3>8. CASE StartReceiver
      BY <3>8, SMT DEF StartReceiver
    <3>9. CASE StartCommu
      BY <3>9, SMT DEF StartCommu
    <3>10. QED
      BY <2>1, <3>1, <3>2, <3>3, <3>4, <3>5, <3>6, <3>7, <3>8, <3>9
         DEF motor_test_init
  <2>2. CASE can_rx_func
    <3>1. CASE Alloc \/ TestRun \/ RecvFails \/ Exit
      BY <3>1, SMT DEF Alloc, TestRun, RecvFails, Exit
    <3>2. CASE Recv
      BY <3>2, SMT DEF Recv
    <3>3. CASE StoreP
      BY <3>3, SMT DEF StoreP, Decoded
    <3>4. CASE StoreV
      BY <3>4, SMT DEF StoreV, Decoded
    <3>5. CASE StoreT
      BY <3>5, SMT DEF StoreT, Decoded
    <3>6. QED
      BY <2>2, <3>1, <3>2, <3>3, <3>4, <3>5 DEF can_rx_func
  <2>3. CASE can_commu_del
    BY <2>3, SMT DEF can_commu_del, ClearRun, can_delet_interface, FreeHandle
  <2>4. CASE can_commu_send
    BY <2>4, SMT DEF can_commu_send
  <2>5. CASE UNCHANGED canVars
    BY <2>5, SMT DEF canVars
  <2>6. QED
    BY <2>1, <2>2, <2>3, <2>4, <2>5 DEF CanNext
<1>3. QED
  BY <1>1, <1>2, PTL DEF CanSpec
-----------------------------------------------------------------------------
(* The strengthening: what exists at each call of the start and of the     *)
(* deletion.                                                               *)

Alone == "rx" \notin threads /\ "commu" \notin threads
Bound == socket \notin {"closed", Unbound} /\ (socket = Dev \/ "ioctl" \in failed)
Connected == handle = "live" /\ iface = "live" /\ Bound

Progress ==
  /\ main \in {"uart", "dy200", "commu", "iface", "socket"} => socket = "closed"
  /\ main \in {"iface", "socket", "ioctl", "bind"} => handle = "live"
  /\ main \in {"socket", "ioctl", "bind"} => iface = "live"
  /\ main = "bind" => ifindex = Dev \/ "ioctl" \in failed
  /\ main \in {"rx", "threads", "delete"} => Connected
  /\ main \in {"uart", "dy200", "commu", "iface", "socket", "ioctl", "bind", "rx"}
       => Alone /\ can = "NULL"
  /\ main \in {"threads", "delete"} => can = "handle"
  /\ main = "shell" =>
       IF can = "handle" THEN Connected
       ELSE Alone /\ (socket = "closed" \/ "bind" \in failed)
  /\ main \in {"free", "deleted"} => socket = "closed"
  /\ main \notin {"free", "deleted"} => misused = {}

\* Whatever calls fail, the connection is whole before a thread that uses it
\* exists, and stays so until it is deleted.
THEOREM Wired == CanSpec => []Progress
<1>1. CanInit => Progress
  BY SMT DEF CanInit, Progress, Alone, Bound, Connected, Unbound
<1>2. CanTypeOK /\ Progress /\ [CanNext]_canVars => Progress'
  <2> SUFFICES ASSUME CanTypeOK, Progress, [CanNext]_canVars PROVE Progress'
    OBVIOUS
  <2> USE CanAssumption DEF Progress, Alone, Bound, Connected, Unbound
  <2>0. /\ ifindex \in {"none", "all"} \cup Links
        /\ rx # "none" <=> "rx" \in threads
        /\ main \in {"uart", "dy200", "commu", "iface", "socket", "ioctl", "bind",
              "rx", "threads", "shell", "delete", "free", "deleted"}
        /\ can \in {"NULL", "handle"}
    BY DEF CanTypeOK, ThreadsOK
  <2> USE <2>0
  <2> USE DEF At, GiveUp, Fails, Create, Misuse, setup, conn, receiver, feedback
  <2>1. CASE OpenTty
    BY <2>1, SMT DEF OpenTty
  <2>2. CASE StartDy200
    BY <2>2, SMT DEF StartDy200
  <2>3. CASE can_commu_init
    BY <2>3, SMT DEF can_commu_init
  <2>4. CASE can_creat_interface
    BY <2>4, SMT DEF can_creat_interface
  <2>5. CASE CreateSocket
    BY <2>5, SMT DEF CreateSocket
  <2>6. CASE FindDevice
    BY <2>6, SMT DEF FindDevice
  <2>7. CASE Bind
    BY <2>7, SMT DEF Bind
  <2>8. CASE StartReceiver
    BY <2>8, SMT DEF StartReceiver
  <2>9. CASE StartCommu
    BY <2>9, SMT DEF StartCommu
  <2>10. CASE can_rx_func
    BY <2>10, SMT DEF can_rx_func, Alloc, TestRun, RecvFails, Recv, StoreP,
       StoreV, StoreT, Decoded, Exit
  <2>11. CASE can_commu_del
    BY <2>11, SMT DEF can_commu_del, ClearRun, can_delet_interface, FreeHandle
  <2>12. CASE can_commu_send
    BY <2>12, SMT DEF can_commu_send
  <2>13. CASE UNCHANGED canVars
    BY <2>13, SMT DEF canVars
  <2>14. QED
    BY <2>1, <2>2, <2>3, <2>4, <2>5, <2>6, <2>7, <2>8, <2>9, <2>10, <2>11,
       <2>12, <2>13, SMT DEF CanNext, motor_test_init
<1>3. QED
  BY <1>1, <1>2, CanTypeCorrect, PTL DEF CanSpec

\* A thread that uses the bus has it (BusReady), for any links.
THEOREM BusReadyAlways == CanSpec => []BusReady
<1>1. CanTypeOK /\ Progress => BusReady
  BY SMT DEF CanTypeOK, Progress, Alone, Bound, Connected, BusReady, Deleting
<1>2. QED
  BY <1>1, CanTypeCorrect, Wired, PTL

\* Freed memory and NULL are used only if a client deletes the connection.
THEOREM MisuseAlways == CanSpec => []MisuseOnlyAfterDelete
<1>1. CanTypeOK /\ Progress => MisuseOnlyAfterDelete
  BY SMT DEF CanTypeOK, Progress, MisuseOnlyAfterDelete, Deleting
<1>2. QED
  BY <1>1, CanTypeCorrect, Wired, PTL

\* The descriptor has an owner, except after a failed bind.
THEOREM DescriptorAlways == CanSpec => []DescriptorOwned
<1>1. CanTypeOK /\ Progress => DescriptorOwned
  BY SMT DEF CanTypeOK, Progress, Connected, DescriptorOwned
<1>2. QED
  BY <1>1, CanTypeCorrect, Wired, PTL

-----------------------------------------------------------------------------
(* The strengthening of FeedbackIsOwn: which fields are already those of   *)
(* the reply that is being stored.                                         *)

Fields(m, p, v, t) == state[m].p = p /\ state[m].v = v /\ state[m].t = t

Stored ==
  \A m \in Motors :
    IF rx = "v" /\ got.id = m THEN Fields(m, newer[m], older[m], older[m])
    ELSE IF rx = "t" /\ got.id = m THEN Fields(m, newer[m], newer[m], older[m])
    ELSE Fields(m, newer[m], newer[m], newer[m])

StoredData == rx \in {"v", "t"} => newer[got.id] = got.data

\* The three fields follow one reply after the other, in order.
THEOREM StoredAlways == CanSpec => [](Stored /\ StoredData)
<1>1. CanInit => Stored /\ StoredData
  BY SMT DEF CanInit, Stored, StoredData, Fields, Unset
<1>2. CanTypeOK /\ Progress /\ Stored /\ StoredData /\ [CanNext]_canVars
        => Stored' /\ StoredData'
  <2> SUFFICES ASSUME CanTypeOK, Progress, Stored, StoredData, [CanNext]_canVars
               PROVE  Stored' /\ StoredData'
    OBVIOUS
  <2>0. /\ rx \in {"p", "v", "t"} => got \in [id : Motors, data : Data]
        /\ state \in [Motors -> [p : Decodable, v : Decodable, t : Decodable]]
        /\ older \in [Motors -> Decodable] /\ newer \in [Motors -> Decodable]
        /\ main = "rx" => rx = "none"
    BY DEF CanTypeOK, Progress, Alone, ThreadsOK
  <2> USE <2>0 DEF Stored, StoredData, Fields
  <2>1. ASSUME rx' \notin {"v", "t"} /\ rx \notin {"v", "t"},
               UNCHANGED <<state, older, newer>>
        PROVE  Stored' /\ StoredData'
    BY <2>1, SMT
  <2>2. CASE motor_test_init \/ can_commu_del \/ can_commu_send \/ UNCHANGED canVars
    <3>1. UNCHANGED <<rx, got, state, older, newer>>
            \/ (rx = "none" /\ rx' = "malloc" /\ UNCHANGED <<got, state, older, newer>>)
      BY <2>2, SMT
         DEF At, motor_test_init, OpenTty, StartDy200, can_commu_init,
             can_creat_interface, CreateSocket, FindDevice, Bind,
             StartReceiver, StartCommu, can_commu_del, ClearRun,
             can_delet_interface, FreeHandle, can_commu_send, canVars,
             receiver, feedback
    <3>2. QED
      BY <3>1, SMT
  <2>3. CASE Alloc \/ TestRun \/ RecvFails \/ Recv \/ Exit
    BY <2>3, <2>1, SMT DEF Alloc, TestRun, RecvFails, Recv, Exit, feedback
  <2>4. CASE StoreP
    BY <2>4, SMT DEF StoreP, Decoded
  <2>5. CASE StoreV
    BY <2>5, SMT DEF StoreV, Decoded
  <2>6. CASE StoreT
    BY <2>6, SMT DEF StoreT, Decoded
  <2>7. QED
    BY <2>2, <2>3, <2>4, <2>5, <2>6, Zenon DEF CanNext, can_rx_func
<1>3. QED
  BY <1>1, <1>2, CanTypeCorrect, Wired, PTL DEF CanSpec

\* At every instant the three fields of a motor in memory are of its own two
\* newest replies, all three of the newest when none is being stored
\* (motor_test_can_call), for any number of motors.
THEOREM FeedbackAlways == CanSpec => []FeedbackIsOwn
<1>1. CanTypeOK /\ Stored => FeedbackIsOwn
  <2> SUFFICES ASSUME CanTypeOK, Stored, NEW m \in Motors
               PROVE  /\ {state[m].p, state[m].v, state[m].t}
                           \subseteq {older[m], newer[m]}
                      /\ \/ rx \in {"v", "t"} /\ got.id = m
                         \/ state[m] = [p |-> newer[m], v |-> newer[m], t |-> newer[m]]
    BY DEF FeedbackIsOwn
  <2>1. state[m] \in [p : Decodable, v : Decodable, t : Decodable]
    BY DEF CanTypeOK
  <2>2. \/ rx \in {"v", "t"} /\ got.id = m
        \/ Fields(m, newer[m], newer[m], newer[m])
    BY SMT DEF Stored
  <2>3. /\ state[m].p \in {older[m], newer[m]}
        /\ state[m].v \in {older[m], newer[m]}
        /\ state[m].t \in {older[m], newer[m]}
    BY SMT DEF Stored, Fields
  <2>4. QED
    BY <2>1, <2>2, <2>3, SMT DEF Fields
<1>2. QED
  BY <1>1, CanTypeCorrect, StoredAlways, PTL
=============================================================================

------------------------------ MODULE CanCommu ------------------------------
(***************************************************************************)
(* The start of the bench and the CAN connection: main and motor_test_init *)
(* (src/src/test.c) with every call that can fail; the socket              *)
(* (can_create_socket.c); the handle, its receive thread and its deletion  *)
(* (can_thread.c); the callback that stores the motors' replies.           *)
(*                                                                         *)
(* A step of main is one call that may fail.  A step of the receive thread *)
(* is what lies between two accesses to what other threads use.  The       *)
(* program never deletes the connection; a client of can_thread.c may.     *)
(***************************************************************************)
EXTENDS Integers

CONSTANTS
  Motors,    \* motors that reply, by the id of their frames
  OtherId,   \* an id of no motor
  Data,      \* contents of a reply
  NoData,    \* what memset left in g_motor[m].state
  Dev,       \* "can0"
  Links      \* interface indices the kernel knows, Dev's among them

ASSUME CanAssumption ==
  /\ OtherId \notin Motors
  /\ NoData \notin Data
  /\ Dev \in Links
  /\ Links \cap {"none", "all", "closed", "open"} = {}

VARIABLES
  main, ret,         \* next call of the main thread; its result (1: none yet)
  threads,           \* threads that were created
  tty,               \* rate of the sensor's line, 0 when closed
  handle, iface,     \* can_commu_t and can_handle_t: "none", "live", "freed"
  run,               \* handle->run
  ifindex, socket,   \* index to bind; "closed", "open" or the index bound
  can,               \* g_motor[0].can, which g_motor[1].can equals
  rx, got,           \* can_rx_func; the frame in its buffer
  state,             \* g_motor[m].state: fields p, v, t
  older, newer,      \* history: the last two replies of m that were decoded
  failed,            \* history: calls that failed
  misused            \* history: threads that used freed memory or NULL

setup == <<main, ret, tty, ifindex, can, failed>>
conn == <<handle, iface, run, socket>>
receiver == <<rx, got>>
feedback == <<state, older, newer>>
canVars == <<setup, threads, conn, receiver, feedback, misused>>

Frames == [id : Motors \cup {OtherId}, data : Data]
Unset == [p |-> NoData, v |-> NoData, t |-> NoData]
Unbound == "open"

CanInit ==
  /\ main = "uart" /\ ret = 1
  /\ threads = {} /\ tty = 0
  /\ handle = "none" /\ iface = "none" /\ run = 0
  /\ ifindex = "none" /\ socket = "closed" /\ can = "NULL"
  /\ rx = "none" /\ got = "none"
  /\ state = [m \in Motors |-> Unset]
  /\ older = [m \in Motors |-> NoData] /\ newer = [m \in Motors |-> NoData]
  /\ failed = {} /\ misused = {}

-----------------------------------------------------------------------------
(* motor_test_init, call by call.  main does not look at its result: the   *)
(* shell starts in any case.                                               *)

At(call, next) == main = call /\ main' = next

Fails(call) == failed' = failed \cup {call}

\* Mutant: a failed call is reported and the start goes on behind the socket.
GiveUpGoesOn(call) ==
  /\ At(call, IF call = "socket" THEN "rx" ELSE "shell")
  /\ UNCHANGED ret
  /\ Fails(call)

GiveUp(call) ==
  /\ At(call, "shell")
  /\ ret' = -1
  /\ Fails(call)

\* Mutant: the rate the sensor is opened with is not among the cases.
RateWithout115200(bud) == IF bud \in {2400, 4800, 9600, 460800} THEN bud ELSE 9600

Rate(bud) == IF bud \in {2400, 4800, 9600, 115200, 460800} THEN bud ELSE 9600

OpenTty ==
  /\ \/ GiveUp("uart") /\ UNCHANGED tty
     \/ At("uart", "dy200") /\ tty' = Rate(115200) /\ UNCHANGED <<ret, failed>>
  /\ UNCHANGED <<threads, ifindex, can, conn, receiver, feedback, misused>>

\* pthread_create returns a positive number when it fails, never -1: the three
\* tests for -1 see no failure.
Create(thread) ==
  \/ threads' = threads \cup {thread} /\ UNCHANGED failed
  \/ Fails(thread) /\ UNCHANGED threads

StartDy200 ==
  /\ At("dy200", "commu")
  /\ Create("dy200")
  /\ UNCHANGED <<ret, tty, ifindex, can, conn, receiver, feedback, misused>>

can_commu_init ==
  /\ \/ GiveUp("commu") /\ UNCHANGED <<handle, run>>
     \/ At("commu", "iface") /\ handle' = "live" /\ run' = 1 /\ UNCHANGED <<ret, failed>>
  /\ UNCHANGED <<threads, tty, ifindex, can, iface, socket, receiver, feedback, misused>>

\* When the interface cannot be made can_commu_init returns NULL and keeps the
\* handle: it is lost, and so it stays "live".
can_creat_interface ==
  /\ \/ GiveUp("iface") /\ UNCHANGED iface
     \/ At("iface", "socket") /\ iface' = "live" /\ UNCHANGED <<ret, failed>>
  /\ UNCHANGED <<threads, tty, ifindex, can, handle, run, socket, receiver, feedback, misused>>

\* The error path closes a negative descriptor only; the interface is freed.
CreateSocket ==
  /\ \/ GiveUp("socket") /\ iface' = "freed" /\ UNCHANGED socket
     \/ At("socket", "ioctl") /\ socket' = Unbound /\ UNCHANGED <<iface, ret, failed>>
  /\ UNCHANGED <<threads, tty, ifindex, can, handle, run, receiver, feedback, misused>>

\* 0 < ioctl() does not see -1: the index is then whatever was on the stack,
\* of a link, of none, or 0, which binds to all.
FindDevice ==
  /\ At("ioctl", "bind")
  /\ \/ ifindex' = Dev /\ UNCHANGED failed
     \/ ifindex' \in Links \cup {"none", "all"} /\ Fails("ioctl")
  /\ UNCHANGED <<ret, threads, tty, can, conn, receiver, feedback, misused>>

\* Mutant: a failed bind is reported and the socket used all the same.
BindIgnored ==
  /\ \/ At("bind", "rx") /\ Fails("bind") /\ UNCHANGED <<ret, iface, socket>>
     \/ /\ At("bind", "rx") /\ ifindex # "none" /\ socket' = ifindex
        /\ UNCHANGED <<iface, ret, failed>>
  /\ UNCHANGED <<threads, tty, ifindex, can, handle, run, receiver, feedback, misused>>

Bind ==
  /\ \/ GiveUp("bind") /\ iface' = "freed" /\ UNCHANGED socket
     \/ /\ At("bind", "rx") /\ ifindex # "none" /\ socket' = ifindex
        /\ UNCHANGED <<iface, ret, failed>>
  /\ UNCHANGED <<threads, tty, ifindex, can, handle, run, receiver, feedback, misused>>

StartReceiver ==
  /\ At("rx", "threads")
  /\ can' = "handle"
  /\ Create("rx")
  /\ rx' = IF "rx" \in threads' THEN "malloc" ELSE rx
  /\ UNCHANGED <<ret, tty, ifindex, got, conn, feedback, misused>>

\* The rest of motor_test_init: what CommuThread starts from.
StartCommu ==
  /\ At("threads", "shell")
  /\ ret' = 0
  /\ Create("commu")
  /\ UNCHANGED <<tty, ifindex, can, conn, receiver, feedback, misused>>

motor_test_init ==
  \/ OpenTty \/ StartDy200
  \/ can_commu_init \/ can_creat_interface \/ CreateSocket \/ FindDevice \/ Bind
  \/ StartReceiver \/ StartCommu

-----------------------------------------------------------------------------
(* can_rx_func.  After it uses a freed handle nothing is known of it.      *)

Misuse(thread) == misused' = misused \cup {thread}

Alloc ==
  /\ rx = "malloc"
  /\ rx' \in {"test", "ended"}
  /\ UNCHANGED <<setup, threads, conn, got, feedback, misused>>

\* while (handle->run), and into recv() on the interface's socket.
TestRun ==
  /\ rx = "test"
  /\ \/ /\ handle = "live" /\ run = 0
        /\ rx' = "exit" /\ UNCHANGED misused
     \/ /\ handle = "live" /\ run # 0 /\ iface = "live"
        /\ rx' = "blocked" /\ UNCHANGED misused
     \/ /\ handle = "freed" \/ (run # 0 /\ iface = "freed")
        /\ rx' = "broken" /\ Misuse("rx")
  /\ UNCHANGED <<setup, threads, conn, got, feedback>>

\* len <= 0: the link went down.
RecvFails ==
  /\ rx = "blocked"
  /\ rx' = "test"
  /\ UNCHANGED <<setup, threads, conn, got, feedback, misused>>

\* The call holds the socket: a frame wakes it even after close().  The frame
\* is handed to handle->func; it has to be the reply of a motor.
Recv ==
  /\ rx = "blocked"
  /\ \E f \in Frames :
       \/ /\ handle = "freed"
          /\ rx' = "broken" /\ Misuse("rx") /\ UNCHANGED got
       \/ /\ handle = "live"
          /\ got' = f
          /\ rx' = IF f.id \in Motors THEN "p" ELSE "test"
          /\ UNCHANGED misused
  /\ UNCHANGED <<setup, threads, conn, feedback>>

\* motor_test_can_call: three stores, without the lock.
Decoded(field, next) ==
  /\ rx = field
  /\ state' = [state EXCEPT ![got.id][field] = got.data]
  /\ rx' = next
  /\ UNCHANGED <<setup, threads, conn, got, misused>>

\* Mutant: the position is stored for the motor of another frame.
StorePOther ==
  /\ rx = "p" /\ rx' = "v"
  /\ \E m \in Motors : state' = [state EXCEPT ![m]["p"] = got.data]
  /\ older' = [older EXCEPT ![got.id] = newer[got.id]]
  /\ newer' = [newer EXCEPT ![got.id] = got.data]
  /\ UNCHANGED <<setup, threads, conn, got, misused>>

StoreP ==
  /\ Decoded("p", "v")
  /\ older' = [older EXCEPT ![got.id] = newer[got.id]]
  /\ newer' = [newer EXCEPT ![got.id] = got.data]
StoreV == Decoded("v", "t") /\ UNCHANGED <<older, newer>>
StoreT == Decoded("t", "test") /\ UNCHANGED <<older, newer>>

\* handle->run = 2
Exit ==
  /\ rx = "exit"
  /\ rx' = "ended"
  /\ \/ handle = "live" /\ run' = 2 /\ UNCHANGED misused
     \/ handle = "freed" /\ Misuse("rx") /\ UNCHANGED run
  /\ UNCHANGED <<setup, threads, handle, iface, socket, got, feedback>>

can_rx_func == Alloc \/ TestRun \/ RecvFails \/ Recv \/ StoreP \/ StoreV \/ StoreT \/ Exit

-----------------------------------------------------------------------------
(* can_commu_del, called once by the main thread, and can_commu_send by    *)
(* commu_thread, which on live handles changes nothing here.               *)

ClearRun ==
  /\ At("shell", "delete") /\ can = "handle"
  /\ run' = 0
  /\ UNCHANGED <<ret, tty, ifindex, can, failed, threads, handle, iface, socket>>
  /\ UNCHANGED <<receiver, feedback, misused>>

\* Mutant: the socket stays open.
can_delet_interface_leaks ==
  /\ At("delete", "free")
  /\ iface' = "freed"
  /\ UNCHANGED <<ret, tty, ifindex, can, failed, threads, handle, run, socket>>
  /\ UNCHANGED <<receiver, feedback, misused>>

\* can_tx is NULL, can_rx the interface.
can_delet_interface ==
  /\ At("delete", "free")
  /\ socket' = "closed" /\ iface' = "freed"
  /\ UNCHANGED <<ret, tty, ifindex, can, failed, threads, handle, run>>
  /\ UNCHANGED <<receiver, feedback, misused>>

FreeHandle ==
  /\ At("free", "deleted")
  /\ handle' = "freed"
  /\ UNCHANGED <<ret, tty, ifindex, can, failed, threads, iface, run, socket>>
  /\ UNCHANGED <<receiver, feedback, misused>>

can_commu_send ==
  /\ "commu" \in threads
  /\ can = "NULL" \/ handle # "live" \/ iface # "live"
  /\ Misuse("commu")
  /\ UNCHANGED <<setup, threads, conn, receiver, feedback>>

can_commu_del == ClearRun \/ can_delet_interface \/ FreeHandle

CanNext == motor_test_init \/ can_rx_func \/ can_commu_del \/ can_commu_send

CanSpec == CanInit /\ [][CanNext]_canVars

-----------------------------------------------------------------------------
ThreadsOK ==
  /\ threads \subseteq {"dy200", "rx", "commu"}
  /\ misused \subseteq {"rx", "commu"}
  /\ rx # "none" <=> "rx" \in threads

Decodable == Data \cup {NoData}

\* Type invariant.
CanTypeOK ==
  /\ main \in {"uart", "dy200", "commu", "iface", "socket", "ioctl", "bind",
              "rx", "threads", "shell", "delete", "free", "deleted"}
  /\ ret \in {1, 0, -1}
  /\ tty \in {0, 115200}
  /\ handle \in {"none", "live", "freed"} /\ iface \in {"none", "live", "freed"}
  /\ run \in 0 .. 2
  /\ ifindex \in {"none", "all"} \cup Links
  /\ socket \in {"closed", Unbound, "all"} \cup Links
  /\ can \in {"NULL", "handle"}
  /\ rx \in {"none", "malloc", "test", "blocked", "p", "v", "t", "exit", "ended", "broken"}
  /\ rx \in {"p", "v", "t"} => got \in [id : Motors, data : Data]
  /\ state \in [Motors -> [p : Decodable, v : Decodable, t : Decodable]]
  /\ older \in [Motors -> Decodable] /\ newer \in [Motors -> Decodable]
  /\ ThreadsOK

Deleting == main \in {"free", "deleted"}

\* A thread that uses the bus has it: whichever calls of the start failed, seen
\* or unseen, commu_thread and the receive thread exist only with live handles
\* and a bound socket, until the connection is deleted.  The socket is bound
\* elsewhere than to can0 only after the failed ioctl that nobody sees.
BusReady ==
  threads \cap {"rx", "commu"} # {} /\ ~Deleting =>
    /\ can = "handle" \/ main = "rx"
    /\ handle = "live" /\ iface = "live"
    /\ socket \notin {"closed", Unbound}
    /\ socket = Dev \/ "ioctl" \in failed

\* No thread touches a freed handle or NULL, after whatever failed start and
\* with the shell running all the same, unless a client deletes the connection:
\* that cannot be done while one of its threads lives ("FIXME", can_thread.c:22).
MisuseOnlyAfterDelete == misused # {} => Deleting

\* The CAN descriptor has an owner that will close it; the one exception is a
\* failed bind, after which it is open for good and nobody knows it.
DescriptorOwned ==
  socket # "closed" => (iface = "live" /\ handle = "live") \/ "bind" \in failed

\* At every instant each of a motor's p, v and t in memory is that of its newest
\* reply or of the one before, never of another sender's frame, and the three
\* are of the newest when none is being stored.  So the one load of v by the
\* regulator [test.c:277] gives the speed of one of the two newest replies.  Of
\* p_info nothing is said: it loads the three one after the other, with any
\* number of replies in between [test.c:479, 483].
FeedbackIsOwn ==
  \A m \in Motors :
    /\ {state[m].p, state[m].v, state[m].t} \subseteq {older[m], newer[m]}
    /\ \/ rx \in {"v", "t"} /\ got.id = m
       \/ state[m] = [p |-> newer[m], v |-> newer[m], t |-> newer[m]]
=============================================================================

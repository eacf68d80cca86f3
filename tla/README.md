# motor_test in TLA+

A verification development for the motor test bench program `motor_test`: a C
program of two thousand lines that drives two motors over a CAN bus, reads a
torque sensor over a serial line and takes commands from an interactive shell.
The modules here model its threads, its commands, its start and its shell; TLC
checks them on small instances and TLAPS proves the most important facts for
every instance. All line numbers are of the repository's files.

## The system

| component | source | state it keeps | operations |
|---|---|---|---|
| communication thread | `src/test.c` `commu_thread`, `src/can_thread.c` `can_commu_send` | `enable_last`, the loop index, `can_tx` of each motor | every 5 ms, for each motor: notice an edge of `motor_enable` and send the enter or exit frame, or send a command |
| setters | `src/test.c` 81-115, 418-431, 491-504 | `g_motor[].motor_enable`, `.control`, `.protocol`, `.pid.des` | one store each, by the shell thread, without the lock |
| test commands | `src/test.c` 506-979 | none of their own | long sequences of stores with sleeps in between |
| shell line editor | `libfinsh/finsh.c` 375-595 | `line`, two positions, the history, the escape state | one key at a time |
| shell dispatch | `libfinsh/finsh.c` 182-356 | the list of commands, `quit_flag` | look up a name, split arguments, call; leave the loop after `q` or `quit` |
| CAN receive | `src/can_thread.c`, `src/can_create_socket.c`, `src/test.c` 117-168 | the handle, `run`, the sockets; `g_motor[].state` | receive thread, callback, creation, deletion |
| torque sensor | `src/torque_sensor.c`, `src/uart_op.c` | the frame buffer; `g_torque`, `g_speed`, `g_power` | receive thread, CRC, `get_dy200_info` |
| PID regulator | `src/pid_control.c` | `error`, `error_last`, `error_all`, `output` | `pid_caculate`, `pid_zero` |
| MIT codec | `src/mit_protocol.c`, `src/math_ops.c` | none | pack a command, unpack a reply |
| start-up | `src/test.c` 315-365, `src/main.c` | all of the above | `motor_test_init`, `main` |

Four threads share memory: the shell thread (main), `commu_thread`, the CAN
receive thread and the sensor thread. Every `pthread_spin_lock` is commented
out and the build sets no optimisation, so what one thread sees of another is
decided field by field, load by load. The threads never join: `quit` returns
from `main` and ends them wherever they are. The motors are a fifth actor: a
motor takes commands in *motor mode*, which it enters and leaves by two frames
that are sent once, on an edge, and never acknowledged.

What makes each part correct:

* communication thread: a motor starts and stops only because it was asked to,
  its record `enable_last` is the motor's mode, commands go to a running motor
  only in cycles that saw it enabled, a switch that stays put is obeyed;
* test commands: a test leaves the bench as the next command expects it, ramps
  stay within their target and return to zero, the torque set-point is off
  before the velocity set-point turns in `dir_test`;
* line editor: the byte array and its positions behave as a text with a
  cursor, the history as a list without neighbours that are equal;
* CAN receive and start-up: a thread that uses the bus has it whatever failed
  before, nothing is used after it was freed, a reply is stored for its motor;
* torque sensor: a frame that arrives whole is taken, a lost byte is noticed, a
  reader gets values that are not older than its call;
* regulator and codec: integral and output keep their limits, the integral of
  the last test unwinds, the motor reads the torque that was asked for;
* shell dispatch: the command called is the one that was typed, with the
  arguments as they were typed.

## Modules

| module | what it is |
|---|---|
| `MotorSwitch` | abstract: a switch with pending requests, each answered at most once |
| `CommuThread` | `commu_thread`, one step per load of a shared field, against any stores of the shell; the CAN send and the motors |
| `TestCommands` | extends `CommuThread`: the shell thread runs the commands of `test.c` one after the other |
| `CanCommu` | `main` and `motor_test_init` call by call, the CAN socket and handle, the receive thread with its callback, deletion |
| `TorqueSensor` | the sensor's line, `dy200_thread`, `get_dy200_info` |
| `ModbusCrc` | `MODBUS_CRC16` of `torque_sensor.c` with its table, and the bitwise CRC the sensor is meant to compute |
| `MitCodec` | packing and unpacking the frames of the motors, operators only |
| `Regulator` | extends `MitCodec`: `pid_control.c` as `commu_thread` uses it, from the reply to the bytes of the command |
| `LineEditor` | abstract: a text with a cursor, a bounded list of lines |
| `FinshShell` | the loop of `finsh()` on byte arrays: a step of `getchar`, a step for the key it returned |
| `MshExec` | the list of commands, the search and the split of a line |
| `MC...` | instances for TLC |
| `...Proofs` | theorems: `CommuThreadProofs`, `TestCommandsProofs`, `CanCommuProofs`, `TorqueSensorProofs`, `RegulatorProofs`, `FinshShellProofs`, `LineEditorProofs`, `MshExecProofs` |

How they fit together. A successful `motor_test_init` of `CanCommu` ends where
`Init` of `CommuThread` begins. `CommuThread` lets the shell store anything at
any time; `TestCommands` restricts it to the commands of `test.c`, so what
holds of `CommuThread` holds there too (the lemma `BenchImplementsCommu`, true
by how `TestCommands` is built from the stores of `CommuThread`). The
regulator's output is any level in `CommuThread`; `Regulator` says which, and
takes the speed it is called with from any reply, as `CanCommu` stores them.
`FinshShell` gives `MshExec` a line with zeroes behind it (`CleanLine`), and
`MshExec` decides which command of `TestCommands` runs.

### CommuThread

`pc` says where the thread is: `delay`, `dispatch` (the chain of tests of
`protocol`, each a load: `branch`), `decide` (the edge test; the short-circuit
evaluation loads `motor_enable` once), `regulate` (protocol 2 loads it again),
`output` and `relax` (what was loaded decides which torque is stored, while the
shell may have stored others since), `pack`, `send`, `record` (a further load
updates `enable_last`). `can_tx` is the frame under construction. A set-point
is a level from `Levels`; the regulator's output is any level. Sending ends in
`Deliver` or `Lose`; the code does not look at the result. `device[m]` is the
last frame the motor acted on. `pending` and `glitch` are history variables:
requests not answered yet, and whether an edge of the motor was missed and
nothing has put that right since. An initial state may have a motor in motor
mode, left there by an earlier run of the program. `motor_enable` is its truth
value.

### TestCommands

A command is data: the sequence of its stores (`Script`), built with the
helpers `Enable`, `Tor`, `Vel`, `Ramp`, `UntilKey`; one action performs the
next store and calls the same actions of `CommuThread` the commands call in
the code. A command whose data file does not open, or whose argument is
missing, ends in `crash`. Wherever the code sleeps, the thread may run: it may
run between any two stores. A ramp of hundreds of steps is `HalfSteps` steps
up and as many down, in units of the step; its rounding is not modelled. A
command called with the wrong number of arguments, and `p_info` and `p2_v`,
store nothing and are left out.

### CanCommu

`main` names the next call of the main thread; every call that can fail does so
or not, and `failed` remembers it. What the code does about a failure is what
it does: `GiveUp` where it returns, nothing where `pthread_create` is compared
with -1 or `ioctl` with `0 <`. The shell starts in any case. A step of the
receive thread (`rx`) is what lies between two accesses to what others use:
the test of `handle->run`, the return of `recv`, the three stores of the
callback. `can_commu_del` is three steps (`ClearRun`, `can_delet_interface`,
`FreeHandle`), with the receive thread running: no command of this program
calls it, a client of `can_thread.c` may. `misused` collects threads that touch
freed memory or NULL; what they do after that is not modelled. The readers of
the feedback are not modelled: `FeedbackIsOwn` is about the memory at each
instant, and so about a reader that loads one field, as the regulator does.
`p_info` loads three, and what it prints may be of any number of replies.

### TorqueSensor

`tty` is the kernel's queue, filled by `Transmit` from the frame on the wire;
`LoseByte` drops a byte and `ReadFails` is `read() = -1`, which the code adds
to its length. `buf` is `uart_raw_buf` up to `index`. A failed read before the
first byte makes the next one write in front of the buffer; the thread is
`broken` from there on and no property speaks of it. `pc` separates the three
stores of a sample and `reader` the three loads of `get_dy200_info`.
`disturbed` and `recent` are history variables: whether the thread may be out
of step, and which samples were the last one, or newer, during the call. The
CRC is a constant operator; the instance gives it that of `ModbusCrc`, table
and all, and two frames whose CRC the bitwise definition confirms. `CrcTells`
says what is needed of frames and CRC to publish nothing that was not sent: of
the windows of six bytes that the losses can make of frames in a row, the CRC
accepts those only that are frames.

### Regulator and MitCodec

One cycle of `commu_thread` is `CalcErrors`, `CalcOutput` and `Pack`, or
`Relax` and `Pack`; the stores of the shell come between them. A float is an
integer in a unit of the instance's choice, an infinity, or `NaN`, of which
every comparison is false; what is beyond `FloatMax` overflows to an infinity,
`0 * inf` and `inf - inf` are `NaN`, and rounding is left out, being monotone.
What `atof` returns may be any of these. What is packed is bytes, as in the
code. `tainted` says what was typed that can spoil a result: a `NaN` as the
set-point, or a gain that is not `Tame`, one that is no finite number or whose
product with an error or an integral overflows. An infinite set-point spoils
nothing, since the error is limited before it is used.

### FinshShell

Arrays are functions from 0 with `"nul"` for a zero byte, so the moves, copies
and terminating zeroes of the code can be wrong by one. `Getchar` takes a key
into `ch`, the next step is what the loop does with it (`Escape`, `Bracket`,
`Up`, `Down`, `Left`, `Right`, `Tab`, `Backspace`, `Enter`, `Insert`, `Null`)
and leaves `ch` empty; a key that breaks an escape sequence off is an ordinary
key. In `LineEditor` the key read, and how much of an escape sequence has come,
are state as well: a key does what is written on it or what the sequence makes
of it, and no step drops a key, doubles it, or exchanges two of them.
`LongLines` says whether the operator may type lines that reach
`FINSH_CMD_SIZE` (128) characters: if not, the editor implements `LineEditor`;
if so, a comment of the source is contradicted (see the findings). One outcome
is left out: a backspace with the cursor behind an empty line, where the code's
positions wrap below zero; only long lines lead there.

### MshExec

`next` and `prev` are the links of the list, whose head is an element like the
others. `cmd_list_add` runs for every exported command in whatever order the
linker chose. A line is typed as words with gaps between them, so that the
model knows what was meant (`meant`), and then handled as bytes: `ptr` walks
over `cmd`, zeroes are stored in place, `argv` holds indices into it.
`Characters` is what a line may be made of, anything but the zero byte. At
`call` the command runs. It may return (`CommandReturns`), and if it is `q` or
`quit` (`Quits`) `finsh()` then leaves its loop; it may kill the program
(`CommandCrashes`); and no fairness makes it do either, as it may wait for a
key.

The operators and actions whose comment begins with "Mutant" are the mapped
definitions with a plausible bug. They belong to no specification; each shows
that a property notices the bug.

## Runs

| run | shows | bounds |
|---|---|---|
| `CommuOne` | type, record, command, mode and refinement properties, and liveness | 1 motor, levels 0 and 1, protocols 0-3 (3 is one the thread does not know) |
| `CommuRace` | violation: a disabled motor that stays on though no frame is lost | 1 motor, protocol 0 |
| `BenchRamps` | ramps return, tests leave the bench at rest and their motors stop | 2 motors, `HalfSteps` 1, protocol 0 |
| `BenchRegulated` | what `ttor_test_new` and `vves_test` leave behind when they end, beside the same tests that crash; the record of each motor is its own mode | 2 motors, `HalfSteps` 1, protocols 0 and 2 |
| `BenchKeys` | `dir_test`: the torque set-point is zero before the velocity set-point turns; a test that a key ends leaves the bench at rest | 2 motors, `HalfSteps` 1, protocols 0 and 1 |
| `BenchVesc` | violation: `vesc_tor_test` exceeds its `max` | `HalfSteps` 2 |
| `StartUp` | whatever fails, a thread that uses the bus has it; no misuse before a deletion; every descriptor but that of a failed bind has an owner; a motor's three fields are at each instant of its own two newest replies | 2 motors and an id of none, 3 contents of a reply, 2 links |
| `Sensor` | the window stays in the buffer, whole frames are taken, only sent samples are published, triples are fresh, lost bytes are noticed, a thread in step goes on publishing | 2 frames with their CRC, a queue of 2 bytes, 2 faults |
| `Regulated` | limits of integral and output, where a `NaN` may come from, what the motor reads, the integral unwinds | set-points `NaN` and minus infinity, gains 1, 4 and infinity, the largest float 8, speeds -1 and 0, torques typed -4 |
| `ShellHistory` | key by key the array is a text with a cursor, the history a list without repetitions | every key, lines of up to 3 characters, a history of 2 |
| `ShellLong` | violation: a long line is not cleared | 3 characters |
| `ShellCommands` | the list is in order of registration, the right command gets the words as typed, every line gets as far as its command or back to the prompt | lines of up to 3 words and 10 characters, `FINSH_ARG_MAX` 2, commands `m_enable`, `m_enable2` and `quit`, their names shortened |

Why the bounds are enough. The thread treats the motors alike and one after
the other: two motors show every confusion between a motor and the next, one
motor shows everything else, and the proofs hold for any number. A set-point
is only copied: two levels tell a stale copy from a fresh one. Ramps need one
step on each side of the turn: a turn that is late by one is then outside the
target. `extreme_condition_testing` repeats one round, whose stores overwrite
each other, so one round stands for all. Three contents of a reply are what it
takes to see a triple of more than two replies. A queue of two bytes splits a
frame of six in every way, as reads return one or two of them; one lost byte
puts the thread out of step and a second one may put it back in. The sensor's
two frames differ in torque, speed and sign, and every window across two of
them, or with a byte missing, is met. The limits of the regulator are small
enough that integral and output are clamped on both sides and the torque is
beyond the motor's range; its set-points leave an error of either sign, an
infinite one included; its gains make `0 * inf`, `inf - inf` and a sum that
overflows. Products of finite numbers that overflow and infinite torques are
left to the proof. A history of two fills up and moves; lines of three characters have a beginning, a middle
and an end to insert at and to delete from. Three words are one more than
`FINSH_ARG_MAX`; the words have no character, a blank, an escaped quote and a
backslash that escapes nothing, and one command's name begins the other's.

The bench runs leave deadlock unchecked, and so do `ShellHistory` and
`ShellCommands`, because `quit` and a crash end the program; so does `StartUp`,
since after a failed start only the shell is left, which stores nothing here.
All others check it. What two motors may do to each other is checked by
`BenchRegulated` (`RecordIsMode`) and, for any number of them and any client,
proved.

### Fairness

`CommuThread!FairSpec`: `commu_thread` is an endless loop that never blocks,
hence weak fairness of its steps; of infinitely many frames sent to a motor
not all are lost, hence strong fairness of `Deliver(m)`. The shell gets none:
the operator may do anything or nothing. In `FairBenchSpec` both threads get
weak fairness, a running command being a finite sequence of stores or a loop
that waits for a key; typing a command, hitting a key and delivering a frame get
none.

`FairSensorSpec`: the sensor sends without a break (no code of the program asks
it for a frame) and the thread, a loop that blocks only in `read`, is never
stopped; the fairness of `Check` is stated on the step it makes, which is the
only one out of its `pc`. Faults are bounded and not fair. `FairRegSpec`: weak
fairness of the steps of `commu_thread`. `FairMshSpec`: weak fairness of the
shell thread between the Enter and the call of the command, loops that wait for
nothing; none of the command itself, which may quit, crash or wait for ever.
Nothing is assumed of the operator, and `finsh()` itself has no liveness
property: it waits for keys.

## Findings

* `CommuRace`: `enable_last` is updated by a second load of `motor_enable`
  (test.c 226, 254, 302). Off, on and off again, with the last off between the
  two loads, and the motor is not told, for good.
* `BenchVesc`: `i <= times` (test.c 824) makes the ramp of `vesc_tor_test` one
  step too high and leaves it two steps above zero.
* `ShellLong`: a line that reaches 128 characters is to be cleared (finsh.c
  585), but only the positions are reset. The characters left behind then make
  a repeated command differ from the newest entry of the history (against
  finsh.c 65 and 84), and a Tab gives the line a length at which 553 discards
  it without its cursor. On shorter lines `NoRepeats` and `CleanLine` hold.

## Proofs

Every theorem holds for all values of the constants that the named assumption
of its module allows; further premises are part of the theorem.

`CommuThreadProofs` (`BenchAssumption`: at least one motor, 0 among the levels
and among the protocols):

* `TypeCorrect`: `[]TypeOK`;
* `Synchronised`: `[]SyncInv`, the inductive invariant. `RecordIsMode` alone
  is not inductive: while a frame is on its way the record is old and the
  motor's mode is new. `SyncInv` adds what the thread's local state means at
  each `pc`: the sample equals the record unless the frame is an edge frame,
  an edge frame carries the sample, and after the send the motor's mode is the
  sample until the record is updated;
* `RecordIsModeAlways`, `CommandsOnlyWhenEnabled`: corollaries;
* `Requested`: `[]RequestInv`, a difference between the switch and the record,
  or between the switch and the sample, is a request still pending;
* `ModeExplainedAlways`: a corollary of the two invariants;
* `RefinesSwitch`: `Spec => Switch!SwitchSpec`, step by step with `RequestInv`.

`TestCommandsProofs` (`CommandsAssumption`): `StepsAreOfScript`, the
strengthening: what is left of a command is a tail of its script, so that the
store it makes next is one of those listed for the command. From it
`BenchTypeCorrect` and the lemma `BenchImplementsCommu`, `BenchSpec => Spec`.
The lemma says nothing new of the code, the commands being built from the
stores of `CommuThread`; it carries every theorem above over to the bench. What
a whole script does follows from a second strengthening, `LastStoreHeld`: while
the thread does not regulate a motor, each field of it holds what the command
stored there last. It needs that no jump of a script passes over a store of
that field (`Direct`), which is shown of each script. It gives:

* `AtRestAlways`, without any premise;
* `RampsReturnAlways`, for any `HalfSteps`, with the premise `RampedAlone`: a
  motor with such a ramp is never put under protocol 2 by a command. Without it
  the regulator stores torques of its own in `t_ff` and nothing brings them
  back;
* `TorqueOffAlways`, with the premise `Unshared(0)`, which is the same of motor
  0. Its own invariant, `DirTurns`, says what torque and velocity are at each
  of the steps of `dir_test` at which the motors turn, its two jumps included.
  It is about the set-points in memory: what the motors hold between two
  frames, or after a lost one, may still oppose.

The premises exclude the benches whose commands set a motor with a ramp, or
motor 0, to protocol 2, and no others: those of `BenchRamps`, `BenchKeys` and
`BenchRegulated`, which regulates motor 1 and ramps motor 0, satisfy them.

`CanCommuProofs` (`CanAssumption`): `CanTypeCorrect`; `Wired`, the
strengthening: how far `main` has come says which handles, sockets and threads
there are. From it `BusReadyAlways`, `MisuseAlways` and `DescriptorAlways`.
`StoredAlways` says which of a motor's three fields the receive thread has
stored already, and gives `FeedbackAlways`.

`TorqueSensorProofs` (`SensorAssumption`): `SensorTypeCorrect`, from the fact
that buffer and rest make a frame (`Window`); `TripleAlwaysFresh`, strengthened
by which of the three values are already those of the frame in the buffer
(`Published`, `Seen`); `FlushAlwaysExplained`, if the sensor's frames carry the
right CRC, strengthened by `Aligned`: until a fault, what was received since
the last sample is whole frames and the beginning of the one on the wire.
`PublishedAlwaysSent`, with the premise `CrcTells`: the strengthening `InOrder`
says that the bytes in buffer and queue are bytes of the frames sent, in the
order they were sent, and that no more are missing between them than there were
faults, whatever reads, overwrites and flushes did; so a full buffer is one of
the windows `CrcTells` is about (`WindowOfLine`), and what it accepts is a
frame. TLC evaluates the premise for the instance, with the bitwise CRC
(`ModbusTellsWindows`). For a sensor that sends every frame with a right CRC it
holds as well, there being no other window the CRC accepts. For a sensor whose
frames are few it is a property of the code, and not one every set of frames
has: a CRC of 16 bits does not tell all of them.

`RegulatorProofs` (`RegulatorAssumption`, `NumberAssumption`):
`PidAlwaysBounded`, each half of `pid_caculate` from any numbers, infinities
among them (`ErrorsBounded`, `OutputBounded`), although the gains may change
between the two, strengthened by `NotTyped`: a set-point is a `NaN`, and a gain
not tame, only if it was typed. That the three terms then add up to a number is
`SumIsNumber`, from a bound on each product (`TameProduct`); `RegTypeCorrect`,
with it that what is packed is eight bytes; `TorqueAlwaysOnWire`, an action
property, from the rounding of a field on any symmetric scale (`FieldIs`) and
the layout of the bytes (`BytesOfCommand`).

`FinshShellProofs` and `LineEditorProofs` (`ShellAssumption`; all theorems with
the premise `~LongLines`, without which they are false, as `ShellLong` shows):
`EditorInvariant` is the inductive invariant `ShellInv`, in three parts for the
escape state, the line and the history: zero bytes behind each length, no
entry empty, cursor and recall within their bounds. It gives
`ShellTypeCorrect`, `CleanAlways` and `NoRepeatsAlways`. `RefinesEditor` is the
refinement `ShellSpec => ImplementsEditor`, with a lemma for each kind of key
(`InsertTypes`, `BackspaceErases`, `MovesMove`, `TabCompletes`, `UpRecalls`,
`DownRecalls`, `EnterEnters`) and two that say the key read is the one that
works (`ArrowWorks`, `PlainWorks`).

`MshExecProofs` (`MshAssumption`): `RegistrationOrderAlways`, from `RingInv`:
no command is registered twice, and `prev` and `next` of the i-th element are
its neighbours. `RightCommandAlways` and `ArgumentsAsTypedAlways` hold for any
commands, any words and gaps, lines of any length and any `FINSH_ARG_MAX`. A
line is built by a recursive function over its words; what it computes is
proved by least counterexample: the words it fails for have a least one
(`Least`, from the library's `WFMin`), which the words before it refute. So
`LineLaidOut` says where each word begins and ends and that there are only
blanks between them. The inductive invariant `ExecAlways` then has three parts:

* `cmd` is that line, but for the zeroes `msh_split` has stored behind the words
  it has passed;
* `argv` holds the beginnings of those words, without their quotes, and `ptr` is
  in the word or the gap that follows;
* the search has passed no command with the name typed (`Named`), and its result
  has that name.

There is one lemma for each action of `msh_exec` and `msh_split`, named for what
it reads (`TrimReads`, `StringCharReads`, ...).

Every safety property and action property of the passing runs is thus stated by
a theorem. Only model-checked are the liveness properties, which TLAPS does not
prove (`SwitchObeyed`, `SetPointReaches`, `DisabledIsRelaxed`,
`TestStopsMotors`, `KeepsPublishing`, `NoticesLostStep`, `Unwinds`, `Answered`);
the premises `RampedAlone`, `Unshared` and `CrcTells`, which are left to the
instance; and the table of `MODBUS_CRC16`, each entry of which TLC compares with
its bitwise definition (`TableIsModbus`).

## Not modelled

* `can_creat_tx_socket` and the `CAN_TX` case of `can_creat_interface`,
  `uart_send`, `pack_cmd` and the helpers of `math_ops.c` other than those
  `MitCodec` has: nothing calls them. What is inside `#if 0` in
  `mit_protocol.c`.
* The bytes `pack_cmd_vel` and `vsec_pack_current` make of a number: they copy
  or scale it; in `CommuThread` it is a set-point.
* `common.c`: a delay only lets other threads run, and in the models it may be
  of any length; `data_dump` prints.
* The log flags of `finsh.c` and `finsh.h`: nothing registers or asks for one.
* The rest of `list.h`, the Linux kernel's list: `finsh.c` uses the head,
  `list_add` and the backward walk, which `MshExec` has.
* Terminal set-up, echo and colours; the end of the input, at which the shell
  spins without changing its state.
* `p_info` and `p2_v`, which print; what a command prints.
* What a command does is `TestCommands`; it runs inside the Enter step of
  `FinshShell` and between `call` and `CommandReturns` of `MshExec`. The three
  parts of the shell are not composed into one module, since each hands the
  next a value only.

## What is left

* `ModbusCrc`: that a table whose entries are right makes the right CRC of every
  sequence of bytes. It is written with the operators of `Bitwise`, of which
  nothing can be proved here.
* `RampsReturn` under the regulator: what `ttor_test_new` leaves of
  the regulator's output in `t_ff` is a hazard no property covers.
* A second rounding mode for floats, should the limits of `Regulator` be wanted
  to the last bit.

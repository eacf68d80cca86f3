----------------------------- MODULE FinshShell -----------------------------
(***************************************************************************)
(* The line editor of src/libfinsh/finsh.c: the loop of finsh() that reads *)
(* one key at a time into shell->line, with escape sequences, completion   *)
(* and the history.  A key takes two steps: getchar, and what the loop     *)
(* does with it.                                                           *)
(*                                                                         *)
(* Arrays are functions from 0, with NUL for a zero byte.  line has one    *)
(* byte more than FINSH_CMD_SIZE.  What is echoed is left out; so is the   *)
(* work of a command, which begins and ends inside the Enter step, and so  *)
(* are the end of the input and bytes above 127, which change nothing.     *)
(***************************************************************************)
EXTENDS Integers, SequencesExt

CONSTANTS
  FINSH_CMD_SIZE,
  FINSH_HISTORY_LINES,
  Keys,        \* keys of the keyboard, a subset of Control and of characters
  Printable,   \* the keys the operator also types as text
  Names,       \* names of the exported commands: sequences of characters
  QuitNames,   \* those of quit and q
  LongLines    \* whether the operator types lines of FINSH_CMD_SIZE characters

Control == {"esc", "tab", "backspace", "enter", "nul"}
Arrows == {"A", "B", "C", "D"}
NoKey == "none"
Blank == " "
NUL == "nul"

ASSUME ShellAssumption ==
  /\ FINSH_CMD_SIZE \in Nat /\ FINSH_CMD_SIZE > 1
  /\ FINSH_HISTORY_LINES \in Nat \ {0}
  /\ NoKey \notin Keys
  /\ Printable \subseteq Keys \ Control
  /\ QuitNames \subseteq Names
  /\ \A n \in Names : n \in Seq(Printable) /\ Len(n) \in 1 .. FINSH_CMD_SIZE - 1
  /\ LongLines \in BOOLEAN

VARIABLES
  ch,                            \* the key read, NoKey while waiting for one
  stat,                          \* progress of an escape sequence
  line,                          \* shell->line
  line_position, line_curpos,    \* length typed, cursor
  cmd_history, history_count, current_history,
  quit_flag

shell == <<ch, stat, line, line_position, line_curpos, quit_flag>>
past == <<cmd_history, history_count, current_history>>
shellVars == <<shell, past>>

Bytes == 0 .. FINSH_CMD_SIZE
Entries == 0 .. FINSH_HISTORY_LINES - 1
EmptyLine == [i \in Bytes |-> NUL]
EmptyEntry == [i \in 0 .. FINSH_CMD_SIZE - 1 |-> NUL]

\* The index of the first zero byte of s.
strlen(s) ==
  CHOOSE n \in DOMAIN s : s[n] = NUL /\ \A i \in 0 .. n - 1 : s[i] # NUL

\* The first n bytes of s as a sequence.
Text(s, n) == [i \in 1 .. n |-> s[i - 1]]

\* calloc
ShellInit ==
  /\ ch = NoKey
  /\ stat = "WAIT_NORMAL"
  /\ line = EmptyLine
  /\ line_position = 0 /\ line_curpos = 0
  /\ cmd_history = [h \in Entries |-> EmptyEntry]
  /\ history_count = 0 /\ current_history = 0
  /\ quit_flag = FALSE

-----------------------------------------------------------------------------
(* The keyboard, and escape sequences.                                     *)

\* k goes on with the escape sequence under way.
Continues(k) ==
  \/ stat = "WAIT_SPEC_KEY" /\ k = "["
  \/ stat = "WAIT_FUNC_KEY" /\ k \in Arrows

\* Bound: what is not Printable is typed only where it is more than a
\* character, and no character where LongLines leaves no room for one.
Getchar ==
  /\ ch = NoKey /\ ~quit_flag
  /\ ch' \in {k \in Keys :
               \/ Continues(k)
               \/ k \in Control
               \/ /\ k \in Printable
                  /\ LongLines \/ line_position < FINSH_CMD_SIZE - 1}
  /\ UNCHANGED <<stat, line, line_position, line_curpos, quit_flag, past>>

\* The key has been dealt with and the loop goes back to getchar.
Handled(k, next) == ch = k /\ ch' = NoKey /\ stat' = next

Escape ==
  /\ Handled("esc", "WAIT_SPEC_KEY")
  /\ UNCHANGED <<line, line_position, line_curpos, quit_flag, past>>

Bracket ==
  /\ stat = "WAIT_SPEC_KEY" /\ Handled("[", "WAIT_FUNC_KEY")
  /\ UNCHANGED <<line, line_position, line_curpos, quit_flag, past>>

ArrowKey(k) ==
  /\ stat = "WAIT_FUNC_KEY" /\ Handled(k, "WAIT_NORMAL")
  /\ UNCHANGED quit_flag

\* memcpy of FINSH_CMD_SIZE bytes: the last byte of line stays.
ShowHistory(h) ==
  /\ current_history' = h
  /\ line' = [i \in Bytes |-> IF i < FINSH_CMD_SIZE THEN cmd_history[h][i]
                              ELSE line[i]]
  /\ line_position' = strlen(line')
  /\ line_curpos' = strlen(line')
  /\ UNCHANGED <<cmd_history, history_count>>

Up ==
  /\ ArrowKey("A")
  /\ IF current_history > 0 THEN ShowHistory(current_history - 1)
     ELSE UNCHANGED <<line, line_position, line_curpos, past>>

Down ==
  /\ ArrowKey("B")
  /\ IF current_history < history_count - 1 THEN ShowHistory(current_history + 1)
     ELSE IF history_count # 0 THEN ShowHistory(history_count - 1)
     ELSE UNCHANGED <<line, line_position, line_curpos, past>>

Left ==
  /\ ArrowKey("D")
  /\ line_curpos' = IF line_curpos > 0 THEN line_curpos - 1 ELSE 0
  /\ UNCHANGED <<line, line_position, past>>

Right ==
  /\ ArrowKey("C")
  /\ line_curpos' = IF line_curpos < line_position THEN line_curpos + 1
                    ELSE line_curpos
  /\ UNCHANGED <<line, line_position, past>>

-----------------------------------------------------------------------------
(* Other keys: those of no escape sequence, and those that break one off.  *)

PlainKey(k) == k # "esc" /\ ~Continues(k) /\ Handled(k, "WAIT_NORMAL")

\* Mutant: the key that breaks an escape sequence off is dropped.
NullAndBroken ==
  /\ PlainKey(ch) /\ ch # NoKey
  /\ ch = "nul" \/ stat # "WAIT_NORMAL"
  /\ UNCHANGED <<line, line_position, line_curpos, quit_flag, past>>

Null ==
  /\ PlainKey("nul")
  /\ UNCHANGED <<line, line_position, line_curpos, quit_flag, past>>

\* The line, as a string, grows by what all names it begins have in common.
msh_auto_complete(s) ==
  LET typed == Text(s, strlen(s))
      found == {n \in Names : typed # <<>> /\ IsPrefix(typed, n)}
      common == LongestCommonPrefix(found)
  IN IF found = {} THEN s
     ELSE [i \in Bytes |-> IF i < Len(common) THEN common[i + 1] ELSE s[i]]

Tab ==
  /\ PlainKey("tab")
  /\ line' = msh_auto_complete(line)
  /\ line_position' = strlen(line')
  /\ line_curpos' = strlen(line')
  /\ UNCHANGED <<quit_flag, past>>

\* With line_curpos beyond line_position = 0 the positions would wrap and the
\* move leave the array: no outcome is given for that.
\* Mutant: the byte behind the shortened line is not zeroed.
BackspaceKeepsTail ==
  /\ PlainKey("backspace")
  /\ \/ /\ line_curpos = 0
        /\ UNCHANGED <<line, line_position, line_curpos>>
     \/ /\ line_curpos > 0 /\ line_position > 0
        /\ line_position' = line_position - 1
        /\ line_curpos' = line_curpos - 1
        /\ line' = [i \in Bytes |->
                      IF i \in line_curpos' .. line_position' - 1 THEN line[i + 1]
                      ELSE line[i]]
  /\ UNCHANGED <<quit_flag, past>>

Backspace ==
  /\ PlainKey("backspace")
  /\ \/ /\ line_curpos = 0
        /\ UNCHANGED <<line, line_position, line_curpos>>
     \/ /\ line_curpos > 0 /\ line_position > 0
        /\ line_position' = line_position - 1
        /\ line_curpos' = line_curpos - 1
        /\ line' = [i \in Bytes |->
                      CASE i = line_position' -> NUL
                        [] i \in line_curpos' .. line_position' - 1 -> line[i + 1]
                        [] OTHER -> line[i]]
  /\ UNCHANGED <<quit_flag, past>>

\* The entry a line becomes: its first line_position bytes, zeroes after them.
Entry(s, n) == [i \in DOMAIN EmptyEntry |-> IF i < n THEN s[i] ELSE NUL]

\* Mutant: the line is compared with the oldest entry.
IsOldestCommand ==
  /\ history_count > 0
  /\ \A i \in DOMAIN EmptyEntry : cmd_history[0][i] = line[i]

\* memcmp of all FINSH_CMD_SIZE bytes with the newest entry.
IsLastCommand ==
  /\ history_count > 0
  /\ \A i \in DOMAIN EmptyEntry : cmd_history[history_count - 1][i] = line[i]

\* Mutant: a full history grows on.
push_history_unbounded ==
  /\ cmd_history' = [cmd_history EXCEPT ![history_count] = Entry(line, line_position)]
  /\ history_count' = history_count + 1
  /\ current_history' = history_count + 1

shell_push_history ==
  LET new == Entry(line, line_position)
  IN \/ /\ line_position = 0 \/ IsLastCommand
        /\ current_history' = history_count
        /\ UNCHANGED <<cmd_history, history_count>>
     \/ /\ line_position # 0 /\ ~IsLastCommand
        /\ history_count < FINSH_HISTORY_LINES
        /\ cmd_history' = [cmd_history EXCEPT ![history_count] = new]
        /\ history_count' = history_count + 1
        /\ current_history' = history_count + 1
     \/ /\ line_position # 0 /\ ~IsLastCommand
        /\ history_count = FINSH_HISTORY_LINES
        /\ cmd_history' = [h \in Entries |-> IF h = FINSH_HISTORY_LINES - 1 THEN new
                                             ELSE cmd_history[h + 1]]
        /\ current_history' = history_count
        /\ UNCHANGED history_count

\* The name msh_exec looks up: leading blanks stripped, up to the next blank.
CommandName(s, n) ==
  LET blank(i) == s[i] = Blank
      first == CHOOSE i \in 0 .. n : (i = n \/ ~blank(i)) /\ \A j \in 0 .. i - 1 : blank(j)
      end == CHOOSE i \in first .. n : (i = n \/ blank(i))
                                       /\ \A j \in first .. i - 1 : ~blank(j)
  IN [i \in 1 .. end - first |-> s[first + i - 1]]

Enter ==
  /\ PlainKey("enter")
  /\ shell_push_history
  /\ quit_flag' = (CommandName(line, line_position) \in QuitNames)
  /\ line' = EmptyLine
  /\ line_position' = 0 /\ line_curpos' = 0

Insert(k) ==
  /\ k \in Printable /\ PlainKey(k)
  /\ LET position == IF line_position >= FINSH_CMD_SIZE THEN 0 ELSE line_position
         at == IF line_curpos < position THEN line_curpos ELSE position
         wrap == position + 1 >= FINSH_CMD_SIZE
     IN /\ line' = [i \in Bytes |->
                      CASE i = at -> k
                        [] i \in at + 1 .. position -> line[i - 1]
                        [] OTHER -> line[i]]
        /\ line_position' = IF wrap THEN 0 ELSE position + 1
        /\ line_curpos' = IF wrap THEN 0 ELSE line_curpos + 1
  /\ UNCHANGED <<quit_flag, past>>

ShellNext ==
  \/ Getchar
  \/ Escape \/ Bracket
  \/ Up \/ Down \/ Left \/ Right
  \/ Null \/ Tab \/ Backspace \/ Enter
  \/ \E k \in Printable : Insert(k)

ShellSpec == ShellInit /\ [][ShellNext]_shellVars

-----------------------------------------------------------------------------
ShellTypeOK ==
  /\ ch \in Keys \cup {NoKey}
  /\ stat \in {"WAIT_NORMAL", "WAIT_SPEC_KEY", "WAIT_FUNC_KEY"}
  /\ line \in [Bytes -> Printable \cup {NUL}]
  /\ line_position \in Bytes
  /\ line_curpos \in Nat
  /\ cmd_history \in [Entries -> [DOMAIN EmptyEntry -> Printable \cup {NUL}]]
  /\ history_count \in 0 .. FINSH_HISTORY_LINES
  /\ current_history \in 0 .. FINSH_HISTORY_LINES
  /\ quit_flag \in BOOLEAN

\* s holds n characters and nothing but zero bytes after them.
Clean(s, n) == \A i \in DOMAIN s : s[i] = NUL <=> i >= n

\* As long as no line of FINSH_CMD_SIZE characters is typed, line is a string
\* of line_position characters with zeroes up to its end, the cursor is in it
\* and there is room for one character more; every entry of the history is
\* such a string too.  memcmp in shell_push_history, strlen after a recall and
\* the arguments msh_split leaves unterminated all count on this.
CleanLine ==
  /\ Clean(line, line_position)
  /\ line_curpos <= line_position /\ line_position < FINSH_CMD_SIZE
  /\ current_history <= history_count
  /\ \A h \in 0 .. history_count - 1 :
       cmd_history[h][0] # NUL /\ Clean(cmd_history[h], strlen(cmd_history[h]))

\* "if current cmd is same as last cmd, don't push" (finsh.c:65, 84): no two
\* neighbours in the history are the same command.
NoRepeats ==
  \A h \in 1 .. history_count - 1 :
    Text(cmd_history[h], strlen(cmd_history[h]))
      # Text(cmd_history[h - 1], strlen(cmd_history[h - 1]))

\* "clear command line" (finsh.c:585): a line of no characters is empty.
ClearedLine == line_position = 0 => line[0] = NUL

\* The byte array with its two positions, and the array of entries, work as a
\* text with a cursor and a list of lines: every key that is read does to them
\* the one thing the user of a line editor expects of it (LineEditor), also one
\* that breaks an escape sequence off.  None is lost, doubled or taken for
\* another.
Editor == INSTANCE LineEditor WITH
  Chars <- Printable,
  Words <- Names,
  HistoryMax <- FINSH_HISTORY_LINES,
  key <- ch,
  begun <- IF stat = "WAIT_NORMAL" THEN 0 ELSE IF stat = "WAIT_SPEC_KEY" THEN 1 ELSE 2,
  text <- Text(line, line_position),
  cursor <- line_curpos,
  history <- [h \in 1 .. history_count |->
                Text(cmd_history[h - 1], strlen(cmd_history[h - 1]))],
  at <- current_history + 1
ImplementsEditor == Editor!EditorSpec
=============================================================================

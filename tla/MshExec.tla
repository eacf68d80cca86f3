------------------------------ MODULE MshExec ------------------------------
(***************************************************************************)
(* How src/libfinsh/finsh.c runs a line: the list of commands (list.h),    *)
(* filled by constructors before main, msh_exec with the search for the    *)
(* command, and msh_split.  FinshShell says how the line comes about,      *)
(* TestCommands what the command does; here a command that is called runs  *)
(* for as long as it likes, and returns or takes the program with it.      *)
(*                                                                         *)
(* Bytes of the line are numbered from 0 and ptr is an index; start is the *)
(* first one after the leading blanks, end the one after the last, so that *)
(* position < length is ptr < end.  A loop that only skips is one step.    *)
(***************************************************************************)
EXTENDS Integers, SequencesExt

CONSTANTS
  FINSH_ARG_MAX,
  Syscalls,     \* exported functions, each with the list node of its own
  Quits,        \* those that set quit_flag
  Name,         \* the name of each, a sequence of characters
  head,         \* func_list
  Characters,   \* what a line may be made of
  LineMax,      \* bound: characters of a line
  WordMax,      \* bound: words of a line
  Words,        \* what may be typed as one argument: [text, quoted]
  Gaps          \* what may be typed between two arguments

None == "none"
NUL == "nul"
Blanks == {" ", "tab"}
Quote == "\""
Backslash == "\\"

\* The shell takes no zero byte into a line [finsh.c:489].  A name is a C
\* identifier.  A quote inside a quoted word is escaped, and the backslash
\* belongs to the word.
ASSUME MshAssumption ==
  /\ FINSH_ARG_MAX \in Nat \ {0} /\ LineMax \in Nat /\ WordMax \in Nat
  /\ Blanks \cup {Quote, Backslash} \subseteq Characters /\ NUL \notin Characters
  /\ None \notin Syscalls /\ head \notin Syscalls /\ Quits \subseteq Syscalls
  /\ \A n, o \in Syscalls : Name[n] = Name[o] => n = o
  /\ \A n \in Syscalls : Quote \notin Range(Name[n])
  /\ \A w \in Words :
       /\ w.text \in Seq(Characters)
       /\ IF w.quoted
          THEN /\ \A i \in DOMAIN w.text :
                    w.text[i] = Quote => i > 1 /\ w.text[i - 1] = Backslash
               /\ w.text # <<>> => Last(w.text) # Backslash
          ELSE w.text # <<>> /\ w.text[1] # Quote /\ Range(w.text) \cap Blanks = {}
  /\ Gaps \subseteq Seq(Blanks)

VARIABLES
  next, prev,          \* links of the nodes in the list
  registered,          \* history: the nodes in the order of cmd_list_add
  meant,               \* history: the words of the line
  cmd, start, end,     \* the line
  pc,
  pos, func,           \* search: cursor, result
  ptr, argv            \* msh_split; argc is the length of argv

links == <<next, prev, registered>>
typed == <<meant, end>>
found == <<pos, func>>
split == <<ptr, argv>>
mshVars == <<links, typed, cmd, start, pc, found, split>>

Bytes == 0 .. LineMax

Zeroes == [i \in Bytes |-> NUL]

\* LIST_HEAD: a list of nothing is its head, linked to itself.
MshInit ==
  /\ next = [n \in {head} |-> head] /\ prev = next
  /\ registered = <<>>
  /\ meant = <<>> /\ cmd = Zeroes /\ start = 0 /\ end = 0
  /\ pc = "load"
  /\ pos = head /\ func = None
  /\ ptr = 0 /\ argv = <<>>

-----------------------------------------------------------------------------
(* list.h                                                                  *)

\* __list_add: new comes between at and after.
list_add_between(new, at, after) ==
  /\ next' = [n \in DOMAIN next \cup {new} |->
                IF n = at THEN new ELSE IF n = new THEN after ELSE next[n]]
  /\ prev' = [n \in DOMAIN prev \cup {new} |->
                IF n = after THEN new ELSE IF n = new THEN at ELSE prev[n]]

\* Mutant: the node goes in at the other end.
list_add_tail(new) == list_add_between(new, prev[head], head)

list_add(new) == list_add_between(new, head, next[head])

\* A constructor of FINSH_FUNCTION_EXPORT; the linker chooses their order.
cmd_list_add(n) ==
  /\ pc = "load" /\ n \notin Range(registered)
  /\ list_add(n)
  /\ registered' = Append(registered, n)
  /\ UNCHANGED <<typed, cmd, start, pc, found, split>>

Main ==
  /\ pc = "load" /\ Range(registered) = Syscalls
  /\ pc' = "prompt"
  /\ UNCHANGED <<links, typed, cmd, start, found, split>>

-----------------------------------------------------------------------------
(* msh_exec                                                                *)

Typed(w) == IF w.quoted THEN <<Quote>> \o w.text \o <<Quote>> ELSE w.text

\* What is typed for the first i words, gaps[i] before the i-th one.
Upto(words, gaps) ==
  LET upto[i \in 0 .. Len(words)] ==
        IF i = 0 THEN <<>> ELSE upto[i - 1] \o gaps[i] \o Typed(words[i])
  IN upto

\* All words and the last gap.  The last closing quote may be missing.
Line(words, gaps, open) ==
  LET all == Upto(words, gaps)[Len(words)]
  IN IF open THEN Front(all) ELSE all \o gaps[Len(words) + 1]

\* Enter: the line is in the buffer, with zeroes after it (FinshShell).
EnterLine ==
  /\ pc = "prompt"
  /\ \E n \in 0 .. WordMax : \E words \in [1 .. n -> Words], open \in BOOLEAN :
     \E gaps \in [1 .. n + 1 -> Gaps] :
       /\ open => words # <<>> /\ Last(words).quoted
       /\ \A i \in 2 .. n : words[i - 1].quoted \/ gaps[i] # <<>>
       /\ \E line \in {Line(words, gaps, open)} :
            /\ Len(line) <= LineMax
            /\ cmd' = [i \in Bytes |-> IF i < Len(line) THEN line[i + 1] ELSE NUL]
            /\ end' = Len(line)
       /\ meant' = words
  /\ pc' = "trim"
  /\ UNCHANGED <<links, start, found, split>>

BlankFrom(i) == Min({j \in i .. end : j = end \/ cmd[j] \in Blanks})
AfterBlanks(i) == Min({j \in i .. end : j = end \/ cmd[j] \notin Blanks})

\* msh_exec returns to finsh(), which clears the line; its variables are gone.
ReturnTo(place) ==
  /\ pc' = place
  /\ meant' = <<>> /\ cmd' = Zeroes /\ start' = 0 /\ end' = 0
  /\ pos' = head /\ func' = None
  /\ ptr' = 0 /\ argv' = <<>>
  /\ UNCHANGED links

Return == ReturnTo("prompt")

BlankLine == pc = "trim" /\ AfterBlanks(0) = end /\ Return

\* The leading blanks go; the search starts with the node before the head.
Trim ==
  /\ pc = "trim" /\ AfterBlanks(0) < end
  /\ start' = AfterBlanks(0)
  /\ pos' = prev[head]
  /\ pc' = "search"
  /\ UNCHANGED <<links, typed, cmd, func, split>>

\* The first cmd0_size characters.
CommandText == [i \in 1 .. BlankFrom(start) - start |-> cmd[start + i - 1]]

\* Mutant: names are compared without the check of the terminating zero.
IsCommandPrefix(n) == IsPrefix(CommandText, Name[n])

\* strncmp of cmd0_size characters, and the name is no longer.
IsCommand(n) == Name[n] = CommandText

\* One round of msh_get_cmd; with the command found msh_split starts.
Search ==
  /\ pc = "search" /\ pos # head
  /\ \/ /\ IsCommand(pos)
        /\ func' = pos
        /\ ptr' = start /\ argv' = <<>>
        /\ pc' = "split"
        /\ UNCHANGED pos
     \/ /\ ~IsCommand(pos)
        /\ pos' = prev[pos]
        /\ UNCHANGED <<func, split, pc>>
  /\ UNCHANGED <<links, typed, cmd, start>>

\* "command not found", with the line cut at its first space for the message.
NotFound == pc = "search" /\ pos = head /\ Return

\* cmd_func(argc, argv) returns; after q or quit finsh() leaves its loop, and
\* main the program.
CommandReturns ==
  /\ pc = "call"
  /\ ReturnTo(IF func \in Quits THEN "ended" ELSE "prompt")

\* A command may also kill the program [fclose(NULL) and argv[2] of
\* TestCommands].  One that waits for a key may do neither for ever.
CommandCrashes ==
  /\ pc = "call"
  /\ pc' = "ended"
  /\ UNCHANGED <<links, typed, cmd, start, found, split>>

-----------------------------------------------------------------------------
(* msh_split                                                               *)

\* Blanks become zeroes, which end the argument before them.
Strip ==
  /\ pc = "split" /\ ptr < end
  /\ ptr' = AfterBlanks(ptr)
  /\ cmd' = [i \in Bytes |-> IF i \in ptr .. ptr' - 1 THEN NUL ELSE cmd[i]]
  /\ pc' = IF Len(argv) >= FINSH_ARG_MAX \/ ptr' >= end THEN "call" ELSE "token"
  /\ UNCHANGED <<links, typed, start, found, argv>>

SplitEnd ==
  /\ pc = "split" /\ ptr >= end
  /\ pc' = "call"
  /\ UNCHANGED <<links, typed, cmd, start, found, split>>

PlainToken ==
  /\ pc = "token" /\ cmd[ptr] # Quote
  /\ argv' = Append(argv, ptr)
  /\ ptr' = BlankFrom(ptr)
  /\ pc' = "split"
  /\ UNCHANGED <<links, typed, cmd, start, found>>

QuotedToken ==
  /\ pc = "token" /\ cmd[ptr] = Quote
  /\ argv' = Append(argv, ptr + 1)
  /\ ptr' = ptr + 1
  /\ pc' = "string"
  /\ UNCHANGED <<links, typed, cmd, start, found>>

\* Mutant: a backslash that escapes nothing is not passed.
StringCharStuck ==
  /\ pc = "string" /\ cmd[ptr] # Quote /\ ptr < end
  /\ ptr' = CASE cmd[ptr] # Backslash -> ptr + 1
              [] cmd[ptr + 1] = Quote -> ptr + 2
              [] OTHER -> ptr
  /\ UNCHANGED <<links, typed, cmd, start, pc, found, argv>>

\* An escaped quote is passed with its backslash.
StringChar ==
  /\ pc = "string" /\ cmd[ptr] # Quote /\ ptr < end
  /\ ptr' = IF cmd[ptr] = Backslash /\ cmd[ptr + 1] = Quote THEN ptr + 2 ELSE ptr + 1
  /\ UNCHANGED <<links, typed, cmd, start, pc, found, argv>>

\* Mutant: the closing quote stays.
StringEndKept ==
  /\ pc = "string" /\ (cmd[ptr] = Quote \/ ptr >= end)
  /\ pc' = IF ptr >= end THEN "call" ELSE "split"
  /\ ptr' = IF ptr >= end THEN ptr ELSE ptr + 1
  /\ UNCHANGED <<links, typed, cmd, start, found, argv>>

StringEnd ==
  /\ pc = "string" /\ (cmd[ptr] = Quote \/ ptr >= end)
  /\ IF ptr >= end
     THEN pc' = "call" /\ UNCHANGED <<cmd, ptr>>
     ELSE pc' = "split" /\ cmd' = [cmd EXCEPT ![ptr] = NUL] /\ ptr' = ptr + 1
  /\ UNCHANGED <<links, typed, start, found, argv>>

MshStep ==
  \/ BlankLine \/ Trim \/ Search \/ NotFound
  \/ Strip \/ SplitEnd \/ PlainToken \/ QuotedToken \/ StringChar \/ StringEnd

MshNext ==
  \/ \E n \in Syscalls : cmd_list_add(n)
  \/ Main
  \/ EnterLine
  \/ MshStep
  \/ CommandReturns \/ CommandCrashes

MshSpec == MshInit /\ [][MshNext]_mshVars

\* The shell thread goes on between a line and its command; when a line is typed
\* is left to the operator, whether a command ends to the command.
FairMshSpec == MshSpec /\ WF_mshVars(MshStep)

-----------------------------------------------------------------------------
\* The list is a ring, the same in both directions, and the backward walks of
\* msh_get_cmd and help meet the commands in the order they were registered.
RegistrationOrder ==
  LET walk == <<head>> \o registered \o <<head>>
  IN /\ DOMAIN next = Range(walk) /\ DOMAIN prev = Range(walk)
     /\ \A i \in 1 .. Len(walk) - 1 :
          prev[walk[i]] = walk[i + 1] /\ next[walk[i + 1]] = walk[i]

\* The command called is the one whose name was typed as the first word, and
\* never one whose name only begins with it; "command not found" is said only
\* if there is none.
RightCommand ==
  /\ pc \in {"split", "token", "string", "call"}
       => ~meant[1].quoted /\ Name[func] = meant[1].text
  /\ pc = "search" /\ pos = head
       => \A n \in Syscalls : meant[1].quoted \/ Name[n] # meant[1].text

\* The string that begins at byte i.
StringAt(i) ==
  LET n == Min({j \in i .. LineMax : cmd[j] = NUL})
  IN [k \in 1 .. n - i |-> cmd[i + k - 1]]

\* The command gets the words of the line as the operator meant them, the
\* quoted ones without their quotes, and of too many the first FINSH_ARG_MAX:
\* each one terminated in the shared buffer, none running into the next.
ArgumentsAsTyped ==
  pc = "call" =>
    /\ Len(argv) = Min({FINSH_ARG_MAX, Len(meant)})
    /\ \A i \in DOMAIN argv : StringAt(argv[i]) = meant[i].text

\* Every line gets as far as its command or, when there is none to call, back to
\* the prompt: neither the search nor the split stays in its loop.  Whether the
\* command comes back is its own affair.
Answered == pc = "trim" ~> pc \in {"prompt", "call"}
=============================================================================

--------------------------- MODULE MshExecProofs ---------------------------
(***************************************************************************)
(* Theorems about MshExec, for every set of commands, whatever the order   *)
(* in which the linker has their constructors run, and for lines, words    *)
(* and gaps of any length: the list is a ring; the command called is the   *)
(* one typed; its arguments are the words as they were meant.              *)
(*                                                                         *)
(* The last two need to know where the words are in the line.  That is     *)
(* LaidOut, proved of every Line by induction over its words (a least      *)
(* counterexample: Least).  ExecInv says it of the line being run, and how *)
(* far msh_exec has come along it.                                         *)
(***************************************************************************)
EXTENDS MshExec, SequenceTheorems, WellFoundedInduction, TLAPS

\* The i-th node of the list, which begins and ends with its head.
Node(r, i) == IF i \in 1 .. Len(r) THEN r[i] ELSE head

\* Strengthening of RegistrationOrder: no node is in the list twice, which is
\* what keeps __list_add from cutting a part of the ring off.
RingInv ==
  /\ registered \in Seq(Syscalls)
  /\ \A i, j \in 1 .. Len(registered) : registered[i] = registered[j] => i = j
  /\ DOMAIN next = {Node(registered, i) : i \in 0 .. Len(registered)}
  /\ DOMAIN prev = {Node(registered, i) : i \in 0 .. Len(registered)}
  /\ \A i \in 0 .. Len(registered) :
       /\ prev[Node(registered, i)] = Node(registered, i + 1)
       /\ next[Node(registered, i + 1)] = Node(registered, i)

\* LIST_HEAD is a ring.
LEMMA EmptyRing == MshInit => RingInv
<1> SUFFICES ASSUME MshInit PROVE RingInv
  OBVIOUS
<1>1. registered = <<>> /\ Len(registered) = 0
  BY Zenon, EmptySeq DEF MshInit
<1>2. registered \in Seq(Syscalls)
  BY <1>1, EmptySeq, Zenon
<1>3. 1 .. Len(registered) = {} /\ 0 .. Len(registered) = {0}
  BY <1>1, SMT
<1>4. \A i : Node(registered, i) = head
  BY <1>3, Zenon DEF Node
<1>5. DOMAIN next = {head} /\ DOMAIN prev = {head}
      /\ next[head] = head /\ prev[head] = head
  BY Zenon DEF MshInit
<1> QED BY <1>2, <1>3, <1>4, <1>5, Zenon DEF RingInv

\* A constructor puts its node between the head and the newest one.
LEMMA AddKeeps == ASSUME RingInv, NEW n \in Syscalls, cmd_list_add(n) PROVE RingInv'
<1> DEFINE r == registered
           new == Append(r, n)
           last == Node(r, Len(r))
           old == 0 .. Len(r)
<1>1. r \in Seq(Syscalls) /\ Len(r) \in Nat
  BY LenProperties, Zenon DEF RingInv
<1>2. registered' = new
  BY Zenon DEF cmd_list_add
<1>3. /\ new \in Seq(Syscalls) /\ Len(new) = Len(r) + 1
      /\ new[Len(r) + 1] = n
      /\ \A i \in 1 .. Len(r) : new[i] = r[i]
  <2> HIDE DEF r
  <2> QED BY <1>1, AppendProperties
<1>4. n # head /\ \A i \in 1 .. Len(r) : r[i] # head /\ r[i] # n
  <2>1. head \notin Syscalls
    BY MshAssumption, Zenon
  <2>2. \A i \in 1 .. Len(r) : r[i] \in Syscalls
    BY <1>1, ElementOfSeq, Zenon
  <2>3. DOMAIN r = 1 .. Len(r)
    BY <1>1, LenProperties, Zenon
  <2>4. n \notin Range(r)
    BY Zenon DEF cmd_list_add
  <2> QED BY <2>1, <2>2, <2>3, <2>4, Zenon DEF Range
<1>5. \A i \in old : Node(r, i) # n
  BY <1>4, Zenon DEF Node
<1>6. \A i, j \in old : Node(r, i) = Node(r, j) => i = j
  <2> SUFFICES ASSUME NEW i \in old, NEW j \in old, Node(r, i) = Node(r, j) PROVE i = j
    OBVIOUS
  <2>1. (i = 0 \/ i \in 1 .. Len(r)) /\ (j = 0 \/ j \in 1 .. Len(r))
        /\ 0 \notin 1 .. Len(r)
    BY <1>1, SMT
  <2> QED BY <2>1, <1>4, Zenon DEF Node, RingInv
<1>7. \A i \in old : Node(new, i) = Node(r, i)
  <2> TAKE i \in old
  <2>1. i \in 1 .. Len(r) <=> i \in 1 .. Len(new)
    BY <1>1, <1>3, SMT
  <2> QED BY <2>1, <1>3, Zenon DEF Node
<1>8. Node(new, Len(r) + 1) = n /\ Node(new, Len(r) + 2) = head /\ Node(new, 0) = head
      /\ Node(r, Len(r) + 1) = head
  <2>1. /\ Len(r) + 1 \in 1 .. Len(new) /\ Len(r) + 2 \notin 1 .. Len(new)
        /\ 0 \notin 1 .. Len(new) /\ Len(r) + 1 \notin 1 .. Len(r)
    BY <1>1, <1>3, SMT
  <2> QED BY <2>1, <1>3, Zenon DEF Node
<1>9. Len(r) \in old /\ 0 \in old
  BY <1>1, SMT
<1>10. next[head] = last
  BY <1>8, <1>9, Zenon DEF RingInv
<1>11. /\ next' = [m \in DOMAIN next \cup {n} |->
                     IF m = head THEN n ELSE IF m = n THEN last ELSE next[m]]
       /\ prev' = [m \in DOMAIN prev \cup {n} |->
                     IF m = last THEN n ELSE IF m = n THEN head ELSE prev[m]]
  BY <1>10, Zenon DEF cmd_list_add, list_add, list_add_between
<1>12. 0 .. Len(new) = old \cup {Len(r) + 1}
  BY <1>1, <1>3, SMT
<1>13. DOMAIN next = {Node(r, i) : i \in old} /\ DOMAIN prev = {Node(r, i) : i \in old}
  BY Zenon DEF RingInv
<1>14. {Node(new, i) : i \in 0 .. Len(new)} = {Node(r, i) : i \in old} \cup {n}
  BY <1>7, <1>8, <1>12, Zenon
<1>15. DOMAIN next' = {Node(new, i) : i \in 0 .. Len(new)}
       /\ DOMAIN prev' = {Node(new, i) : i \in 0 .. Len(new)}
  BY <1>11, <1>13, <1>14, Zenon
<1>16. \A i, j \in 1 .. Len(new) : new[i] = new[j] => i = j
  <2>1. \A i \in 1 .. Len(new) : i \in 1 .. Len(r) \/ i = Len(r) + 1
    BY <1>1, <1>3, SMT
  <2> QED BY <2>1, <1>3, <1>4, Zenon DEF RingInv
<1>17. ASSUME NEW i \in old
       PROVE  prev'[Node(new, i)] = Node(new, i + 1) /\ next'[Node(new, i + 1)] = Node(new, i)
  <2>1. Node(new, i) = Node(r, i) /\ Node(r, i) \in DOMAIN prev /\ Node(r, i) # n
    BY <1>5, <1>7, <1>13, Zenon
  <2>2. CASE i = Len(r)
    <3>1. prev'[last] = n
      BY <2>1, <2>2, <1>11, Zenon
    <3>2. next'[n] = last
      BY <1>4, <1>11, Zenon
    <3> QED BY <2>1, <2>2, <3>1, <3>2, <1>8, Zenon
  <2>3. CASE i # Len(r)
    <3>1. i + 1 \in old /\ i + 1 \in 1 .. Len(r)
      BY <1>1, <2>3, SMT
    <3>2. Node(new, i + 1) = Node(r, i + 1) /\ Node(r, i + 1) \in DOMAIN next
          /\ Node(r, i + 1) # n /\ Node(r, i + 1) # head
      BY <3>1, <1>4, <1>5, <1>7, <1>13, Zenon DEF Node
    <3>3. Node(r, i) # last
      BY <2>3, <1>6, <1>9, Zenon
    <3>4. prev'[Node(r, i)] = prev[Node(r, i)]
      BY <2>1, <3>3, <1>11, Zenon
    <3>5. next'[Node(r, i + 1)] = next[Node(r, i + 1)]
      BY <3>2, <1>11, Zenon
    <3> QED BY <2>1, <3>2, <3>4, <3>5, Zenon DEF RingInv
  <2> QED BY <2>2, <2>3
<1>18. prev'[n] = head /\ next'[head] = n
  <2>1. last # n /\ head \in DOMAIN next
    <3>1. head = Node(r, 0)
      <4>1. 0 \notin 1 .. Len(r)
        BY <1>1, SMT
      <4> QED BY <4>1, Zenon DEF Node
    <3> QED BY <3>1, <1>5, <1>9, <1>13, Zenon
  <2> QED BY <2>1, <1>11, Zenon
<1>19. \A i \in 0 .. Len(new) :
         prev'[Node(new, i)] = Node(new, i + 1) /\ next'[Node(new, i + 1)] = Node(new, i)
  <2>1. Len(r) + 1 + 1 = Len(r) + 2
    BY <1>1, SMT
  <2> QED BY <2>1, <1>8, <1>12, <1>17, <1>18, Zenon
<1>20. new \in Seq(Syscalls)
  BY <1>3
<1> HIDE DEF new
<1>21. registered' = new
  BY <1>2
<1>22. registered' \in Seq(Syscalls)
       /\ \A i, j \in 1 .. Len(registered') : registered'[i] = registered'[j] => i = j
  BY <1>16, <1>20, <1>21, Zenon
<1>23. DOMAIN next' = {Node(registered', i) : i \in 0 .. Len(registered')}
       /\ DOMAIN prev' = {Node(registered', i) : i \in 0 .. Len(registered')}
  BY <1>15, <1>21, Zenon
<1>24. \A i \in 0 .. Len(registered') :
         /\ prev'[Node(registered', i)] = Node(registered', i + 1)
         /\ next'[Node(registered', i + 1)] = Node(registered', i)
  BY <1>19, <1>21, Zenon
<1> QED BY <1>22, <1>23, <1>24, Zenon DEF RingInv

\* A ring without repetitions is what RegistrationOrder says.
LEMMA RingIsOrder == RingInv => RegistrationOrder
<1> SUFFICES ASSUME RingInv PROVE RegistrationOrder
  OBVIOUS
<1> DEFINE r == registered
           walk == <<head>> \o r \o <<head>>
<1>1. r \in Seq(Syscalls) /\ Len(r) \in Nat
  BY LenProperties, Zenon DEF RingInv
<1>2. r \in Seq(Syscalls \cup {head}) /\ <<head>> \in Seq(Syscalls \cup {head})
      /\ Len(<<head>>) = 1 /\ <<head>>[1] = head
  BY <1>1, SMT
<1>3. /\ <<head>> \o r \in Seq(Syscalls \cup {head})
      /\ Len(<<head>> \o r) = 1 + Len(r)
      /\ \A i \in 1 .. 1 + Len(r) :
           (<<head>> \o r)[i] = IF i <= 1 THEN <<head>>[i] ELSE r[i - 1]
  BY <1>2, ConcatProperties, Zenon
<1>4. /\ walk \in Seq(Syscalls \cup {head})
      /\ Len(walk) = 1 + Len(r) + 1
      /\ \A i \in 1 .. 1 + Len(r) + 1 :
           walk[i] = IF i <= 1 + Len(r) THEN (<<head>> \o r)[i] ELSE <<head>>[i - (1 + Len(r))]
  <2> DEFINE front == <<head>> \o r
  <2> HIDE DEF front
  <2>1. front \in Seq(Syscalls \cup {head}) /\ Len(front) = 1 + Len(r)
    BY <1>3, Zenon DEF front
  <2>2. /\ front \o <<head>> \in Seq(Syscalls \cup {head})
        /\ Len(front \o <<head>>) = Len(front) + Len(<<head>>)
        /\ \A i \in 1 .. Len(front) + Len(<<head>>) :
             (front \o <<head>>)[i] =
               IF i <= Len(front) THEN front[i] ELSE <<head>>[i - Len(front)]
    BY <2>1, <1>2, ConcatProperties, Zenon
  <2>3. /\ front \o <<head>> \in Seq(Syscalls \cup {head})
        /\ Len(front \o <<head>>) = 1 + Len(r) + 1
        /\ \A i \in 1 .. 1 + Len(r) + 1 :
             (front \o <<head>>)[i] =
               IF i <= 1 + Len(r) THEN front[i] ELSE <<head>>[i - (1 + Len(r))]
    BY <2>1, <2>2, <1>2, Zenon
  <2> QED BY <2>3, Zenon DEF front
<1>5. \A i \in 0 .. Len(r) + 1 : walk[i + 1] = Node(r, i)
  <2> TAKE i \in 0 .. Len(r) + 1
  <2>1. i + 1 \in 1 .. 1 + Len(r) + 1 /\ (i + 1) - 1 = i
    BY <1>1, SMT
  <2>2. CASE i = 0
    <3>1. i + 1 <= 1 + Len(r) /\ i + 1 = 1 /\ 1 \in 1 .. 1 + Len(r) /\ 1 <= 1
          /\ i \notin 1 .. Len(r)
      BY <1>1, <2>2, SMT
    <3>2. walk[i + 1] = (<<head>> \o r)[1]
      BY <3>1, <2>1, <1>4, Zenon
    <3> QED BY <3>1, <3>2, <1>2, <1>3, Zenon DEF Node
  <2>3. CASE i \in 1 .. Len(r)
    <3>1. i + 1 <= 1 + Len(r) /\ i + 1 \in 1 .. 1 + Len(r) /\ ~(i + 1 <= 1)
      BY <1>1, <2>3, SMT
    <3>2. walk[i + 1] = (<<head>> \o r)[i + 1]
      BY <3>1, <2>1, <1>4, Zenon
    <3> QED BY <3>1, <3>2, <2>1, <2>3, <1>3, Zenon DEF Node
  <2>4. CASE i = Len(r) + 1
    <3>1. PICK k \in 1 .. 1 + Len(r) + 1 :
               k = i + 1 /\ ~(k <= 1 + Len(r)) /\ k - (1 + Len(r)) = 1
      BY <1>1, <2>4, SMT
    <3>2. walk[k] = <<head>>[k - (1 + Len(r))]
      BY <3>1, <1>4, Zenon
    <3>3. walk[i + 1] = head /\ i \notin 1 .. Len(r)
      <4>1. i \notin 1 .. Len(r)
        BY <1>1, <2>4, SMT
      <4> QED BY <4>1, <3>1, <3>2, <1>2, Zenon
    <3> QED BY <3>3, Zenon DEF Node
  <2>5. i = 0 \/ i \in 1 .. Len(r) \/ i = Len(r) + 1
    BY <1>1, SMT
  <2> QED BY <2>2, <2>3, <2>4, <2>5
<1>6. Range(walk) = {Node(r, i) : i \in 0 .. Len(r)}
  <2>1. DOMAIN walk = 1 .. Len(r) + 2
    <3>1. DOMAIN walk = 1 .. Len(walk)
      BY <1>4, LenProperties, Zenon
    <3>2. 1 + Len(r) + 1 = Len(r) + 2
      BY <1>1, SMT
    <3> QED BY <3>1, <3>2, <1>4, Zenon
  <2>2. \A k \in 1 .. Len(r) + 2 : k - 1 \in 0 .. Len(r) + 1 /\ k - 1 + 1 = k
    BY <1>1, SMT
  <2>3. \A i \in 0 .. Len(r) + 1 : i + 1 \in 1 .. Len(r) + 2
    BY <1>1, SMT
  <2>4. Range(walk) = {Node(r, i) : i \in 0 .. Len(r) + 1}
    <3> HIDE DEF walk, r
    <3>1. Range(walk) = {walk[k] : k \in 1 .. Len(r) + 2}
      BY <2>1, Zenon DEF Range
    <3>2. \A k \in 1 .. Len(r) + 2 : \E i \in 0 .. Len(r) + 1 : walk[k] = Node(r, i)
      <4> TAKE k \in 1 .. Len(r) + 2
      <4>1. walk[k - 1 + 1] = Node(r, k - 1)
        BY <2>2, <1>5, Zenon
      <4> QED BY <4>1, <2>2, Zenon
    <3>3. \A i \in 0 .. Len(r) + 1 : \E k \in 1 .. Len(r) + 2 : walk[k] = Node(r, i)
      BY <2>3, <1>5, Zenon
    <3> QED BY <3>1, <3>2, <3>3, Zenon
  <2>5. Node(r, Len(r) + 1) = Node(r, 0)
    <3>1. 0 \notin 1 .. Len(r) /\ Len(r) + 1 \notin 1 .. Len(r)
      BY <1>1, SMT
    <3> QED BY <3>1, Zenon DEF Node
  <2>6. 0 .. Len(r) + 1 = 0 .. Len(r) \cup {Len(r) + 1} /\ 0 \in 0 .. Len(r)
    BY <1>1, SMT
  <2> QED BY <2>4, <2>5, <2>6, Zenon
<1>7. \A k \in 1 .. Len(walk) - 1 :
        prev[walk[k]] = walk[k + 1] /\ next[walk[k + 1]] = walk[k]
  <2> TAKE k \in 1 .. Len(walk) - 1
  <2>1. PICK i \in 0 .. Len(r) : i + 1 = k
    <3>1. k - 1 \in 0 .. Len(r) /\ k - 1 + 1 = k
      <4> HIDE DEF walk
      <4> QED BY <1>1, <1>4, SMT
    <3> QED BY <3>1
  <2>2. i \in 0 .. Len(r) + 1 /\ i + 1 \in 0 .. Len(r) + 1
    BY <1>1, SMT
  <2>3. walk[k] = Node(r, i) /\ walk[k + 1] = Node(r, i + 1)
    BY <2>1, <2>2, <1>5, Zenon
  <2> QED BY <2>3, Zenon DEF RingInv
<1>8. DOMAIN next = Range(walk) /\ DOMAIN prev = Range(walk)
  BY <1>6, Zenon DEF RingInv
<1> QED BY <1>7, <1>8, Zenon DEF RegistrationOrder

\* Nothing but a constructor touches the list.
LEMMA RingStep == ASSUME RingInv, [MshNext]_mshVars PROVE RingInv'
<1>1. CASE \E n \in Syscalls : cmd_list_add(n)
  BY <1>1, AddKeeps, Zenon
<1>2. CASE UNCHANGED links
  BY <1>2, Zenon DEF RingInv, links
<1>3. Main \/ EnterLine \/ MshStep \/ CommandReturns \/ CommandCrashes => UNCHANGED links
  BY Zenon DEF Main, EnterLine, MshStep, BlankLine, Trim, Search, NotFound, CommandReturns,
    CommandCrashes, Strip, SplitEnd, PlainToken, QuotedToken, StringChar, StringEnd, Return,
    ReturnTo
<1>4. UNCHANGED mshVars => UNCHANGED links
  BY Zenon DEF mshVars
<1> QED BY <1>1, <1>2, <1>3, <1>4, Zenon DEF MshNext

\* The list of commands is a ring whose backward walk, that of msh_get_cmd
\* and of help, meets the commands in the order they were registered.
THEOREM RegistrationOrderAlways == MshSpec => []RegistrationOrder
<1>1. RingInv /\ [MshNext]_mshVars => RingInv'
  BY RingStep, Zenon
<1> QED BY EmptyRing, RingIsOrder, <1>1, PTL DEF MshSpec

-----------------------------------------------------------------------------
(* Where the words of a line are.  at[i] is the byte the i-th word begins   *)
(* at, with its quote if it has one, and at[m + 1] the length of the line.  *)

\* The bytes of the argument, from Body to before BodyEnd, and of the word.
Body(words, at, i) == at[i] + (IF words[i].quoted THEN 1 ELSE 0)
BodyEnd(words, at, i) == Body(words, at, i) + Len(words[i].text)
Stop(words, at, i) ==
  IF i = 0 THEN 0 ELSE BodyEnd(words, at, i) + (IF words[i].quoted THEN 1 ELSE 0)

\* The i-th word of m is in the line; of the last one the quote may be missing.
WordLaid(line, words, m, at, open, i) ==
  /\ at[i] \in Nat /\ at[i] < Len(line) /\ BodyEnd(words, at, i) <= Len(line)
  /\ \A k \in 1 .. Len(words[i].text) : line[Body(words, at, i) + k] = words[i].text[k]
  /\ words[i].quoted =>
       /\ line[at[i] + 1] = Quote
       /\ IF open /\ i = m
          THEN BodyEnd(words, at, i) = Len(line)
          ELSE BodyEnd(words, at, i) < Len(line) /\ line[BodyEnd(words, at, i) + 1] = Quote

\* The first m words are in the line, one after the other, with nothing but
\* blanks before, between and after them.
LaidOut(line, words, m, at, open) ==
  /\ line \in Seq(Characters)
  /\ at[m + 1] = Len(line)
  /\ \A i \in 1 .. m : WordLaid(line, words, m, at, open, i)
  /\ \A i, j \in 1 .. m : i < j => Stop(words, at, i) <= at[j]
  /\ \A i \in 1 .. m : i < m /\ ~words[i].quoted => Stop(words, at, i) < at[i + 1]
  /\ \A i \in 0 .. m : \A j \in Stop(words, at, i) .. at[i + 1] - 1 : line[j + 1] \in Blanks

-----------------------------------------------------------------------------
\* The byte i of the line as it was entered.
Entered(line, i) == IF i < Len(line) THEN line[i + 1] ELSE NUL

\* The i-th argument ends with a zero.
Closed(at, i) == cmd[BodyEnd(meant, at, i)] = NUL

\* How far msh_split is: the words it has passed are arguments, the others are
\* as they were entered.
Passed(line, at) ==
  LET k == Len(argv)
  IN /\ argv \in Seq(Nat) /\ k <= FINSH_ARG_MAX /\ k <= Len(meant)
     /\ ptr \in Nat
     /\ \A j \in Bytes : j >= ptr => cmd[j] = Entered(line, j)
     /\ \A i \in 1 .. k :
          /\ argv[i] = Body(meant, at, i)
          /\ \A c \in 1 .. Len(meant[i].text) :
               cmd[argv[i] + c - 1] = meant[i].text[c]
          /\ i < k => Closed(at, i)

\* Between words; in front of the next one; in a quoted one, never on a quote
\* that belongs to it; at the end.
AtSplit(at) ==
  LET k == Len(argv)
  IN /\ pc = "split" => /\ Stop(meant, at, k) <= ptr /\ ptr <= at[k + 1]
                        /\ k > 0 => Closed(at, k) \/ ptr = BodyEnd(meant, at, k)
     /\ pc = "token" => /\ k < Len(meant) /\ k < FINSH_ARG_MAX /\ ptr = at[k + 1]
                        /\ k > 0 => Closed(at, k)
     /\ pc = "string" => /\ k > 0 /\ meant[k].quoted
                         /\ argv[k] <= ptr /\ ptr <= BodyEnd(meant, at, k)
                         /\ ptr < BodyEnd(meant, at, k) =>
                              meant[k].text[ptr - argv[k] + 1] # Quote
     /\ pc = "call" => /\ k = FINSH_ARG_MAX \/ k = Len(meant)
                       /\ k > 0 => Closed(at, k)

\* The line, the words meant, and how far msh_exec is with them.
Reading(line, at, open) ==
  /\ meant \in Seq(Words)
  /\ cmd \in [Bytes -> Characters \cup {NUL}]
  /\ end = Len(line) /\ end <= LineMax
  /\ LaidOut(line, meant, Len(meant), at, open)
  /\ pc \in {"trim", "search"} => \A j \in Bytes : cmd[j] = Entered(line, j)
  /\ pc # "trim" => meant # <<>> /\ start = at[1]
  /\ pc \in {"split", "token", "string", "call"} => Passed(line, at) /\ AtSplit(at)

\* Which command: the ones the search has passed are not the one meant.
Named ==
  /\ pc = "search" =>
       \E i \in 1 .. Len(registered) + 1 :
         /\ pos = Node(registered, i)
         /\ \A j \in 1 .. i - 1 : meant[1].quoted \/ Name[registered[j]] # meant[1].text
  /\ pc \in {"split", "token", "string", "call"} =>
       ~meant[1].quoted /\ Name[func] = meant[1].text

\* The inductive invariant of MshSpec, beside RingInv.
ExecInv ==
  /\ pc \in {"load", "prompt", "trim", "search", "split", "token", "string", "call", "ended"}
  /\ pc # "load" => Range(registered) = Syscalls
  /\ pc \notin {"load", "prompt", "ended"} => \E line, at, open : Reading(line, at, open)
  /\ Named

-----------------------------------------------------------------------------
\* Every nonempty set of numbers has a least one.
LEMMA Least ==
  ASSUME NEW T, T \subseteq Nat, T # {}
  PROVE  Min(T) \in T /\ \A y \in T : Min(T) <= y
<1> DEFINE R == OpToRel(LAMBDA x, y : x < y, Nat)
<1>1. IsWellFoundedOn(R, Nat)
  BY NatLessThanWellFounded, Zenon
<1>2. PICK x \in T : \A y \in T : ~(<<y, x>> \in R)
  BY <1>1, WFMin, Zenon
<1>3. \A y \in T : x <= y
  <2> TAKE y \in T
  <2>1. x \in Nat /\ y \in Nat
    OBVIOUS
  <2>2. ~(y < x)
    BY <1>2, <2>1, Zenon DEF OpToRel
  <2>3. QED
    BY <2>1, <2>2, SMT
<1>4. QED
  BY <1>3, Zenon DEF Min

\* Upto is the function its recursion describes.
UptoIs(f, words, gaps, m) ==
  f = [i \in 0 .. m |-> IF i = 0 THEN <<>> ELSE f[i - 1] \o gaps[i] \o Typed(words[i])]

LEMMA UptoExists ==
  ASSUME NEW words, NEW gaps, NEW m \in Nat
  PROVE  \E f : UptoIs(f, words, gaps, m)
<1> DEFINE T == {k \in Nat : ~\E f : UptoIs(f, words, gaps, k)}
<1>1. SUFFICES ASSUME T # {} PROVE FALSE
  OBVIOUS
<1> DEFINE n == Min(T)
<1>2. n \in T /\ \A k \in T : n <= k
  BY <1>1, Least, Zenon
<1> HIDE DEF n
<1>3. CASE n = 0
  <2> DEFINE f == [i \in 0 .. 0 |-> <<>>]
  <2>1. \A i \in 0 .. 0 : i = 0
    BY SMT
  <2>2. f = [i \in 0 .. 0 |-> IF i = 0 THEN <<>> ELSE f[i - 1] \o gaps[i] \o Typed(words[i])]
    BY <2>1, Zenon
  <2>3. QED
    BY <1>2, <1>3, <2>2, Zenon DEF UptoIs
<1>4. CASE n # 0
  <2>1. n \in Nat /\ n - 1 \in Nat /\ ~(n <= n - 1) /\ n \notin 0 .. n - 1
        /\ 0 .. n = 0 .. n - 1 \cup {n}
        /\ (\A i \in 0 .. n - 1 : i = 0 \/ i - 1 \in 0 .. n - 1)
        /\ n - 1 \in 0 .. n - 1
    BY <1>2, <1>4, SMT
  <2>2. PICK f : UptoIs(f, words, gaps, n - 1)
    BY <1>2, <2>1, Zenon
  <2> DEFINE e(h, i) == IF i = 0 THEN <<>> ELSE h[i - 1] \o gaps[i] \o Typed(words[i])
             g == [i \in 0 .. n |-> IF i \in 0 .. n - 1 THEN f[i] ELSE e(f, n)]
  <2>3. \A i \in 0 .. n - 1 : f[i] = e(f, i) /\ g[i] = f[i]
    <3>1. f = [i \in 0 .. n - 1 |-> e(f, i)]
      BY <2>2, Zenon DEF UptoIs
    <3> HIDE DEF e
    <3>2. QED
      BY <2>1, <3>1, Zenon
  <2>4. g[n] = e(f, n) /\ e(f, n) = e(g, n)
    <3>1. g[n - 1] = f[n - 1]
      <4> HIDE DEF e, g
      <4>1. n - 1 \in 0 .. n - 1
        BY <2>1
      <4>2. \A i \in 0 .. n - 1 : g[i] = f[i]
        BY <2>3
      <4>3. QED
        BY <4>1, <4>2, SMT
    <3>2. e(f, n) = e(g, n)
      <4> HIDE DEF g
      <4>1. QED
        BY <1>4, <3>1, Zenon
    <3>3. g[n] = e(f, n)
      <4> HIDE DEF e
      <4>1. n \in 0 .. n
        BY <2>1, SMT
      <4>2. QED
        BY <2>1, <4>1, Zenon
    <3>4. QED
      BY <3>2, <3>3
  <2>5. \A i \in 0 .. n - 1 : e(f, i) = e(g, i)
    BY <2>1, <2>3, Zenon
  <2>6. \A i \in 0 .. n : g[i] = e(g, i)
    <3> HIDE DEF e, g
    <3>1. QED
      BY <2>1, <2>3, <2>4, <2>5, Zenon
  <2>7. g = [i \in 0 .. n |-> g[i]]
    BY Zenon
  <2>8. g = [i \in 0 .. n |-> e(g, i)]
    <3> HIDE DEF e, g
    <3>1. QED
      BY <2>6, <2>7, Zenon
  <2>9. UptoIs(g, words, gaps, n)
    BY <2>8, Zenon DEF UptoIs
  <2>10. QED
    BY <1>2, <2>9, Zenon
<1>5. QED
  BY <1>3, <1>4

LEMMA UptoDefined ==
  ASSUME NEW words, NEW gaps, Len(words) \in Nat
  PROVE  UptoIs(Upto(words, gaps), words, gaps, Len(words))
<1>1. Upto(words, gaps) = CHOOSE f : UptoIs(f, words, gaps, Len(words))
  BY Zenon DEF Upto, UptoIs
<1>2. QED
  BY <1>1, UptoExists, Zenon

\* What is typed for i words is what is typed for one less, the gap, the word.
LEMMA UptoNext ==
  ASSUME NEW words, NEW gaps, Len(words) \in Nat
  PROVE  /\ Upto(words, gaps)[0] = <<>>
         /\ \A i \in 1 .. Len(words) :
              Upto(words, gaps)[i] = Upto(words, gaps)[i - 1] \o gaps[i] \o Typed(words[i])
<1> DEFINE f == Upto(words, gaps)
           m == Len(words)
<1>1. f = [i \in 0 .. m |-> IF i = 0 THEN <<>> ELSE f[i - 1] \o gaps[i] \o Typed(words[i])]
  BY UptoDefined, Zenon DEF UptoIs
<1>2. 0 \in 0 .. m /\ \A i \in 1 .. m : i \in 0 .. m /\ i # 0
  BY SMT
<1> HIDE DEF f
<1>3. \A i \in 0 .. m : f[i] = IF i = 0 THEN <<>> ELSE f[i - 1] \o gaps[i] \o Typed(words[i])
  BY <1>1, Zenon
<1>4. QED
  BY <1>2, <1>3, Zenon DEF f

\* Two sequences, and three, one after the other.
IsTwo(S, v, s, t) ==
  /\ v \in Seq(S) /\ Len(s) \in Nat /\ Len(t) \in Nat
  /\ Len(v) = Len(s) + Len(t)
  /\ \A j \in 1 .. Len(s) : v[j] = s[j]
  /\ \A j \in 1 .. Len(t) : v[Len(s) + j] = t[j]

IsThree(S, v, s, t, u) ==
  /\ v \in Seq(S) /\ Len(s) \in Nat /\ Len(t) \in Nat /\ Len(u) \in Nat
  /\ Len(v) = Len(s) + Len(t) + Len(u)
  /\ \A j \in 1 .. Len(s) : v[j] = s[j]
  /\ \A j \in 1 .. Len(t) : v[Len(s) + j] = t[j]
  /\ \A j \in 1 .. Len(u) : v[Len(s) + Len(t) + j] = u[j]

LEMMA Two == ASSUME NEW S, NEW s \in Seq(S), NEW t \in Seq(S) PROVE IsTwo(S, s \o t, s, t)
<1> DEFINE v == s \o t
<1>1. Len(s) \in Nat /\ Len(t) \in Nat
  BY LenProperties
<1>2. /\ v \in Seq(S) /\ Len(v) = Len(s) + Len(t)
      /\ \A j \in 1 .. Len(s) + Len(t) : v[j] = IF j <= Len(s) THEN s[j] ELSE t[j - Len(s)]
  BY ConcatProperties, Zenon
<1> HIDE DEF v
<1>3. \A j \in 1 .. Len(s) : v[j] = s[j]
  BY <1>1, <1>2, SMT
<1>4. ASSUME NEW j \in 1 .. Len(t) PROVE v[Len(s) + j] = t[j]
  <2>1. Len(s) + j \in 1 .. Len(s) + Len(t) /\ ~(Len(s) + j <= Len(s)) /\ Len(s) + j - Len(s) = j
    BY <1>1, SMT
  <2>2. v[Len(s) + j] = t[Len(s) + j - Len(s)]
    BY <1>2, <2>1, SMT
  <2>3. QED
    BY <2>1, <2>2, SMT
<1>5. QED
  BY <1>1, <1>2, <1>3, <1>4, Zenon DEF IsTwo, v

LEMMA Three ==
  ASSUME NEW S, NEW s \in Seq(S), NEW t \in Seq(S), NEW u \in Seq(S)
  PROVE  IsThree(S, s \o t \o u, s, t, u)
<1> DEFINE v == s \o t
           x == v \o u
<1>1. IsTwo(S, v, s, t)
  BY Two, Zenon
<1> HIDE DEF v
<1>2. v \in Seq(S)
  BY <1>1, Zenon DEF IsTwo
<1>3. IsTwo(S, x, v, u)
  BY <1>2, Two, Zenon
<1> HIDE DEF x
<1>4. /\ x \in Seq(S) /\ Len(s) \in Nat /\ Len(t) \in Nat /\ Len(u) \in Nat
      /\ Len(v) = Len(s) + Len(t)
      /\ Len(x) = Len(v) + Len(u)
  BY <1>1, <1>3, Zenon DEF IsTwo
<1>5. Len(x) = Len(s) + Len(t) + Len(u)
  BY <1>4, SMT
<1>6. ASSUME NEW j \in 1 .. Len(s) PROVE x[j] = s[j]
  <2>1. j \in 1 .. Len(v)
    BY <1>4, SMT
  <2>2. QED
    BY <1>1, <1>3, <2>1, Zenon DEF IsTwo
<1>7. ASSUME NEW j \in 1 .. Len(t) PROVE x[Len(s) + j] = t[j]
  <2>1. Len(s) + j \in 1 .. Len(v)
    BY <1>4, SMT
  <2>2. QED
    BY <1>1, <1>3, <2>1, Zenon DEF IsTwo
<1>8. ASSUME NEW j \in 1 .. Len(u) PROVE x[Len(s) + Len(t) + j] = u[j]
  BY <1>3, <1>4, Zenon DEF IsTwo
<1>9. QED
  BY <1>4, <1>5, <1>6, <1>7, <1>8, Zenon DEF IsThree, v, x

\* What a word and a blank are made of.
LEMMA Bytewise ==
  /\ Quote \in Characters /\ Backslash \in Characters /\ Blanks \subseteq Characters
  /\ NUL \notin Characters /\ Quote \notin Blanks /\ Quote # Backslash
<1>1. Quote \in Characters /\ Backslash \in Characters /\ Blanks \subseteq Characters
  BY MshAssumption, Zenon
<1>2. NUL \notin Characters
  BY MshAssumption
<1>5. Quote \notin Blanks
  BY SMT DEF Quote, Blanks
<1>6. Quote # Backslash
  BY SMT DEF Quote, Backslash
<1>7. QED
  BY <1>1, <1>2, <1>5, <1>6

\* A word as it is typed.
LEMMA TypedIs ==
  ASSUME NEW w \in Words
  PROVE  /\ w.text \in Seq(Characters) /\ Len(w.text) \in Nat
         /\ Typed(w) \in Seq(Characters)
         /\ w.quoted =>
              /\ Len(Typed(w)) = Len(w.text) + 2
              /\ Typed(w)[1] = Quote /\ Typed(w)[Len(w.text) + 2] = Quote
              /\ \A k \in 1 .. Len(w.text) : Typed(w)[1 + k] = w.text[k]
         /\ ~w.quoted => Typed(w) = w.text /\ w.text # <<>> /\ Len(w.text) > 0
<1>1. w.text \in Seq(Characters) /\ Len(w.text) \in Nat
  BY MshAssumption, LenProperties, Zenon
<1>2. <<Quote>> \in Seq(Characters) /\ Len(<<Quote>>) = 1 /\ <<Quote>>[1] = Quote
  BY Bytewise, SMT
<1>3. ASSUME w.quoted
      PROVE  /\ Typed(w) \in Seq(Characters)
             /\ Len(Typed(w)) = Len(w.text) + 2
             /\ Typed(w)[1] = Quote /\ Typed(w)[Len(w.text) + 2] = Quote
             /\ \A k \in 1 .. Len(w.text) : Typed(w)[1 + k] = w.text[k]
  <2> DEFINE q == <<Quote>>
             t == q \o w.text \o q
  <2>1. Typed(w) = t
    BY <1>3, Zenon DEF Typed
  <2> HIDE DEF q
  <2>2. IsThree(Characters, t, q, w.text, q)
    <3>1. q \in Seq(Characters)
      BY <1>2, Zenon DEF q
    <3>2. QED
      BY <1>1, <3>1, Three, Zenon
  <2> HIDE DEF t
  <2>3. Len(q) = 1 /\ q[1] = Quote
    BY <1>2, Zenon DEF q
  <2>4. /\ Len(t) = Len(w.text) + 2
        /\ t[1] = Quote /\ t[Len(w.text) + 2] = Quote
        /\ \A k \in 1 .. Len(w.text) : t[1 + k] = w.text[k]
    <3>1. t[1] = Quote
      BY <2>2, <2>3, SMT DEF IsThree
    <3>2. t[1 + Len(w.text) + 1] = Quote /\ 1 + Len(w.text) + 1 = Len(w.text) + 2
      BY <1>1, <2>2, <2>3, SMT DEF IsThree
    <3>3. \A k \in 1 .. Len(w.text) : t[1 + k] = w.text[k]
      BY <2>2, <2>3, Zenon DEF IsThree
    <3>4. Len(t) = Len(w.text) + 2
      BY <1>1, <2>2, <2>3, SMT DEF IsThree
    <3>5. QED
      BY <3>1, <3>2, <3>3, <3>4, Zenon
  <2>5. QED
    BY <2>1, <2>2, <2>4, Zenon DEF IsThree
<1>4. ASSUME ~w.quoted PROVE Typed(w) = w.text /\ w.text # <<>> /\ Len(w.text) > 0
  <2>1. w.text # <<>>
    BY <1>4, MshAssumption, Zenon
  <2>2. Len(w.text) # 0
    BY <1>1, <2>1, EmptySeq, Zenon
  <2>3. QED
    BY <1>1, <1>4, <2>1, <2>2, SMT DEF Typed
<1>5. QED
  BY <1>1, <1>3, <1>4, Zenon

\* Where a word ends.
Span(line, words, at, i) ==
  /\ Len(words[i].text) \in Nat /\ (~words[i].quoted => Len(words[i].text) > 0)
  /\ at[i] \in Nat /\ Body(words, at, i) \in Nat /\ BodyEnd(words, at, i) \in Nat
  /\ Body(words, at, i) = at[i] + (IF words[i].quoted THEN 1 ELSE 0)
  /\ BodyEnd(words, at, i) = Body(words, at, i) + Len(words[i].text)
  /\ Stop(words, at, i) = BodyEnd(words, at, i) + (IF words[i].quoted THEN 1 ELSE 0)
  /\ Stop(words, at, i) \in Nat /\ at[i] < Stop(words, at, i)

LEMMA WordSpan ==
  ASSUME NEW words, NEW at, NEW i, words[i] \in Words, i # 0, at[i] \in Nat, NEW line
  PROVE  Span(line, words, at, i)
<1> DEFINE b == Body(words, at, i)
           e == BodyEnd(words, at, i)
           l == Len(words[i].text)
           q == words[i].quoted
           s == Stop(words, at, i)
<1>1. /\ b = at[i] + (IF q THEN 1 ELSE 0) /\ e = b + l
      /\ s = e + (IF q THEN 1 ELSE 0)
  BY Zenon DEF Body, BodyEnd, Stop
<1>2. l \in Nat /\ (~q => l > 0)
  BY TypedIs, Zenon
<1> HIDE DEF b, e, l, s, q
<1>3. b \in Nat /\ e \in Nat /\ s \in Nat /\ at[i] < s
  <2>1. CASE q
    BY <1>1, <1>2, <2>1, SMT
  <2>2. CASE ~q
    BY <1>1, <1>2, <2>2, SMT
  <2>3. QED
    BY <2>1, <2>2
<1>4. QED
  BY <1>1, <1>2, <1>3, Zenon DEF Span, b, e, l, s, q

\* A word stays where it is when the line is changed behind it.
SameUpto(more, line, l) ==
  /\ l \in Nat /\ Len(line) \in Nat /\ Len(more) \in Nat /\ l <= Len(more)
  /\ \A j \in 1 .. l : more[j] = line[j]

Kept(more, words, n, at, to, i) ==
  WordLaid(more, words, n, to, FALSE, i) /\ Stop(words, to, i) = Stop(words, at, i)

LEMMA WordKept ==
  ASSUME NEW line, NEW more, NEW words, NEW m, NEW n, NEW at, NEW to, NEW i, i # 0,
         words[i] \in Words, WordLaid(line, words, m, at, FALSE, i), to[i] = at[i],
         NEW l, SameUpto(more, line, l), Stop(words, at, i) <= l
  PROVE  Kept(more, words, n, at, to, i)
<1> DEFINE b == Body(words, at, i)
           e == BodyEnd(words, at, i)
           s == Stop(words, at, i)
           text == words[i].text
<1>0. /\ l \in Nat /\ Len(line) \in Nat /\ Len(more) \in Nat /\ l <= Len(more)
      /\ \A j \in 1 .. l : more[j] = line[j]
  BY Zenon DEF SameUpto
<1>1. Body(words, to, i) = b /\ BodyEnd(words, to, i) = e
      /\ Stop(words, to, i) = Stop(words, at, i)
  BY Zenon DEF Body, BodyEnd, Stop
<1>2. at[i] \in Nat
  BY Zenon DEF WordLaid
<1>3. Span(line, words, at, i)
  BY <1>2, WordSpan, Zenon
<1>4. /\ Len(text) \in Nat /\ b \in Nat /\ e \in Nat /\ s \in Nat /\ s <= l /\ e = b + Len(text)
      /\ s = e + (IF words[i].quoted THEN 1 ELSE 0) /\ at[i] < s
  BY <1>3, Zenon DEF Span
<1>5. /\ \A k \in 1 .. Len(text) : line[b + k] = text[k]
      /\ words[i].quoted => line[at[i] + 1] = Quote /\ line[e + 1] = Quote
  BY Zenon DEF WordLaid
<1> HIDE DEF b, e, text, s
<1>6. ASSUME NEW k \in 1 .. Len(text) PROVE more[b + k] = text[k]
  <2>1. e <= l
    BY <1>0, <1>4, SMT
  <2>2. b + k \in 1 .. l
    BY <1>0, <1>4, <2>1, SMT
  <2>3. QED
    BY <1>0, <1>5, <2>2, Zenon
<1>7. at[i] < Len(more) /\ e <= Len(more)
  BY <1>0, <1>2, <1>4, SMT
<1>8. ASSUME words[i].quoted
      PROVE  more[at[i] + 1] = Quote /\ e < Len(more) /\ more[e + 1] = Quote
  <2>1. s = e + 1
    BY <1>4, <1>8, Zenon
  <2>2. at[i] + 1 \in 1 .. l /\ e + 1 \in 1 .. l /\ e < Len(more)
    BY <1>0, <1>2, <1>4, <2>1, SMT
  <2>3. more[at[i] + 1] = line[at[i] + 1] /\ more[e + 1] = line[e + 1]
    BY <1>0, <2>2, Zenon
  <2>4. QED
    BY <1>5, <1>8, <2>2, <2>3, Zenon
<1>9. WordLaid(more, words, n, to, FALSE, i)
  BY <1>1, <1>2, <1>6, <1>7, <1>8, Zenon DEF WordLaid, text
<1>10. QED
  BY <1>1, <1>9, Zenon DEF Kept

\* It ends within the line.
LEMMA WordInside ==
  ASSUME NEW line, Len(line) \in Nat, NEW words, NEW m, NEW at, NEW i, i # 0,
         words[i] \in Words, WordLaid(line, words, m, at, FALSE, i)
  PROVE  Stop(words, at, i) <= Len(line) /\ Span(line, words, at, i)
<1>1. /\ at[i] \in Nat /\ BodyEnd(words, at, i) <= Len(line)
      /\ words[i].quoted => BodyEnd(words, at, i) < Len(line)
  BY Zenon DEF WordLaid
<1>2. Span(line, words, at, i)
  BY <1>1, WordSpan, Zenon
<1>3. /\ BodyEnd(words, at, i) \in Nat
      /\ Stop(words, at, i) = BodyEnd(words, at, i) + (IF words[i].quoted THEN 1 ELSE 0)
  BY <1>2, Zenon DEF Span
<1>4. CASE words[i].quoted
  <2>1. Stop(words, at, i) = BodyEnd(words, at, i) + 1 /\ BodyEnd(words, at, i) < Len(line)
    BY <1>1, <1>3, <1>4, Zenon
  <2>2. QED
    BY <1>2, <1>3, <2>1, SMT
<1>5. CASE ~words[i].quoted
  <2>1. Stop(words, at, i) = BodyEnd(words, at, i) + 0 /\ BodyEnd(words, at, i) <= Len(line)
    BY <1>1, <1>3, <1>5, Zenon
  <2>2. QED
    BY <1>2, <1>3, <2>1, SMT
<1>6. QED
  BY <1>4, <1>5

\* All is typed so far, up to the end of the last word.
Glued(line, words, m, at) ==
  LaidOut(line, words, m, at, FALSE) /\ Stop(words, at, m) = Len(line)

\* One word more.
LEMMA WordGoesOn ==
  ASSUME NEW words \in Seq(Words), NEW m \in Nat, m + 1 <= Len(words), NEW gap \in Gaps,
         NEW line, NEW at, Glued(line, words, m, at),
         m > 0 => words[m].quoted \/ gap # <<>>
  PROVE  \E to : Glued(line \o gap \o Typed(words[m + 1]), words, m + 1, to)
<1> DEFINE w == words[m + 1]
           more == line \o gap \o Typed(w)
           to == [i \in 1 .. m + 2 |->
                    IF i <= m THEN at[i]
                    ELSE IF i = m + 1 THEN Len(line) + Len(gap) ELSE Len(more)]
           n == m + 1
<1>1. /\ Len(words) \in Nat /\ \A i \in 1 .. Len(words) : words[i] \in Words
      /\ m + 1 \in 1 .. Len(words)
  <2>1. Len(words) \in Nat /\ \A i \in 1 .. Len(words) : words[i] \in Words
    BY LenProperties, ElementOfSeq, Zenon
  <2>2. QED
    BY <2>1, SMT
<1>2. w \in Words
  BY <1>1, Zenon
<1>3. /\ line \in Seq(Characters) /\ gap \in Seq(Characters) /\ Typed(w) \in Seq(Characters)
      /\ gap \in Seq(Blanks)
  <2>1. gap \in Seq(Blanks)
    BY MshAssumption, Zenon
  <2>2. gap \in Seq(Characters)
    BY <2>1, Bytewise, SeqMonotonic, Zenon
  <2>3. QED
    BY <1>2, <2>1, <2>2, TypedIs, Zenon DEF Glued, LaidOut
<1> HIDE DEF w
<1>4. IsThree(Characters, more, line, gap, Typed(w))
  BY <1>3, Three, Zenon
<1> HIDE DEF more
<1>5. /\ Len(line) \in Nat /\ Len(gap) \in Nat /\ Len(Typed(w)) \in Nat /\ Len(more) \in Nat
      /\ Len(more) = Len(line) + Len(gap) + Len(Typed(w))
      /\ \A j \in 1 .. Len(line) : more[j] = line[j]
      /\ \A j \in 1 .. Len(gap) : more[Len(line) + j] = gap[j]
      /\ \A j \in 1 .. Len(Typed(w)) : more[Len(line) + Len(gap) + j] = Typed(w)[j]
      /\ more \in Seq(Characters)
  <2>1. Len(more) = Len(line) + Len(gap) + Len(Typed(w))
    BY <1>4, Zenon DEF IsThree
  <2>2. Len(line) \in Nat /\ Len(gap) \in Nat /\ Len(Typed(w)) \in Nat
    BY <1>4, Zenon DEF IsThree
  <2>3. Len(more) \in Nat
    BY <2>1, <2>2, SMT
  <2>4. QED
    BY <1>4, <2>3, Zenon DEF IsThree
<1>6. /\ \A i \in 1 .. m : to[i] = at[i]
      /\ to[m + 1] = Len(line) + Len(gap)
      /\ to[m + 1 + 1] = Len(more)
  BY SMT
<1> HIDE DEF to
<1>7. Len(line) <= Len(more)
  BY <1>5, SMT
<1>8. ASSUME NEW i \in 1 .. m
      PROVE  /\ WordLaid(more, words, n, to, FALSE, i)
             /\ Stop(words, to, i) = Stop(words, at, i)
             /\ Stop(words, at, i) \in Nat /\ at[i] < Stop(words, at, i)
             /\ Stop(words, at, i) <= Len(line)
  <2>1. i \in 1 .. Len(words) /\ i # 0
    BY <1>1, SMT
  <2>2. WordLaid(line, words, m, at, FALSE, i)
    BY Zenon DEF Glued, LaidOut
  <2>3. words[i] \in Words /\ to[i] = at[i]
    BY <1>1, <1>6, <2>1, Zenon
  <2>4. SameUpto(more, line, Len(line))
    BY <1>5, <1>7, Zenon DEF SameUpto
  <2>5. Stop(words, at, i) <= Len(line) /\ Span(line, words, at, i)
    BY <1>5, <2>1, <2>2, <2>3, WordInside, Zenon
  <2>6. Kept(more, words, n, at, to, i)
    BY <2>1, <2>2, <2>3, <2>4, <2>5, WordKept, Zenon
  <2>7. QED
    BY <2>5, <2>6, Zenon DEF Kept, Span
<1>9. /\ Len(w.text) \in Nat
      /\ w.quoted =>
           /\ Len(Typed(w)) = Len(w.text) + 2
           /\ Typed(w)[1] = Quote /\ Typed(w)[Len(w.text) + 2] = Quote
           /\ \A k \in 1 .. Len(w.text) : Typed(w)[1 + k] = w.text[k]
      /\ ~w.quoted => Typed(w) = w.text /\ Len(w.text) > 0
  BY <1>2, TypedIs, Zenon
<1> DEFINE L == Len(line) + Len(gap)
<1>10. /\ Body(words, to, n) = L + (IF w.quoted THEN 1 ELSE 0)
       /\ BodyEnd(words, to, n) = L + (IF w.quoted THEN 1 ELSE 0) + Len(w.text)
       /\ Stop(words, to, n) = L + (IF w.quoted THEN 1 ELSE 0) + Len(w.text)
                                 + (IF w.quoted THEN 1 ELSE 0)
  <2>1. n # 0 /\ to[n] = L
    BY <1>6, SMT
  <2>2. QED
    BY <2>1, Zenon DEF Body, BodyEnd, Stop, w
<1>11. L \in Nat /\ L < Len(more) /\ L + Len(Typed(w)) = Len(more)
  BY <1>5, <1>9, SMT
<1> HIDE DEF L
<1>12. ASSUME w.quoted
       PROVE  /\ more[L + 1] = Quote /\ more[L + Len(w.text) + 2] = Quote
              /\ \A k \in 1 .. Len(w.text) : more[L + 1 + k] = w.text[k]
  <2>1. ASSUME NEW j \in 1 .. Len(w.text) + 2 PROVE more[L + j] = Typed(w)[j]
    BY <1>5, <1>9, <1>12, Zenon DEF L
  <2>2. more[L + 1] = Quote
    BY <1>9, <1>12, <2>1, SMT
  <2>3. more[L + Len(w.text) + 2] = Quote
    <3>1. Len(w.text) + 2 \in 1 .. Len(w.text) + 2
          /\ L + (Len(w.text) + 2) = L + Len(w.text) + 2
      BY <1>9, <1>11, SMT
    <3>2. more[L + (Len(w.text) + 2)] = Typed(w)[Len(w.text) + 2]
      BY <2>1, <3>1, Zenon
    <3>3. QED
      BY <1>9, <1>12, <3>1, <3>2, Zenon
  <2>4. ASSUME NEW k \in 1 .. Len(w.text) PROVE more[L + 1 + k] = w.text[k]
    <3>1. 1 + k \in 1 .. Len(w.text) + 2 /\ L + (1 + k) = L + 1 + k
      BY <1>9, <1>11, SMT
    <3>2. more[L + (1 + k)] = Typed(w)[1 + k]
      BY <2>1, <3>1, Zenon
    <3>3. QED
      BY <1>9, <1>12, <3>1, <3>2, Zenon
  <2>5. QED
    BY <2>2, <2>3, <2>4, Zenon
<1>13. ASSUME ~w.quoted PROVE \A k \in 1 .. Len(w.text) : more[L + k] = w.text[k]
  BY <1>5, <1>9, <1>13, Zenon DEF L
<1>14. WordLaid(more, words, n, to, FALSE, n) /\ Stop(words, to, n) = Len(more)
  <2>1. to[n] = L
    BY <1>6, Zenon DEF L
  <2>2. CASE w.quoted
    <3>1. /\ Body(words, to, n) = L + 1
          /\ BodyEnd(words, to, n) = L + 1 + Len(w.text)
          /\ Stop(words, to, n) = L + 1 + Len(w.text) + 1
      BY <1>10, <2>2, Zenon
    <3>2. /\ L + 1 + Len(w.text) < Len(more) /\ L + 1 + Len(w.text) <= Len(more)
          /\ L + 1 + Len(w.text) + 1 = L + Len(w.text) + 2
          /\ L + 1 + Len(w.text) + 1 = Len(more)
      <4>1. Len(w.text) \in Nat /\ Len(Typed(w)) = Len(w.text) + 2
        BY <1>9, <2>2, Zenon
      <4>2. L \in Nat /\ L + (Len(w.text) + 2) = Len(more)
        BY <1>11, <4>1, Zenon
      <4>3. QED
        <5>1. \A x, y \in Nat : /\ x + 1 + y < x + (y + 2) /\ x + 1 + y <= x + (y + 2)
                                /\ x + 1 + y + 1 = x + y + 2 /\ x + 1 + y + 1 = x + (y + 2)
          BY SMT
        <5>2. QED
          BY <4>1, <4>2, <5>1, Zenon
    <3>3. QED
      BY <1>11, <1>12, <2>1, <2>2, <3>1, <3>2, Zenon DEF WordLaid, w
  <2>3. CASE ~w.quoted
    <3>0. /\ Body(words, to, n) = L + 0
          /\ BodyEnd(words, to, n) = L + 0 + Len(w.text)
          /\ Stop(words, to, n) = L + 0 + Len(w.text) + 0
      BY <1>10, <2>3, Zenon
    <3>1. /\ Body(words, to, n) = L /\ BodyEnd(words, to, n) = L + Len(w.text)
          /\ Stop(words, to, n) = L + Len(w.text)
      BY <1>9, <1>11, <3>0, SMT
    <3>2. L + Len(w.text) <= Len(more) /\ L + Len(w.text) = Len(more)
      BY <1>9, <1>11, <2>3, SMT
    <3>3. QED
      BY <1>11, <1>13, <2>1, <2>3, <3>1, <3>2, Zenon DEF WordLaid, w
  <2>4. QED
    BY <2>2, <2>3
<1>15. \A i \in 1 .. n : i \in 1 .. m \/ i = n
  BY SMT
<1>16. \A i \in 1 .. n : WordLaid(more, words, n, to, FALSE, i)
  BY <1>8, <1>14, <1>15, Zenon
<1>17. ASSUME NEW i \in 1 .. n, NEW j \in 1 .. n, i < j PROVE Stop(words, to, i) <= to[j]
  <2>1. i \in 1 .. m
    BY <1>17, SMT
  <2>2. CASE j \in 1 .. m
    BY <1>6, <1>8, <1>17, <2>1, <2>2, Zenon DEF Glued, LaidOut
  <2>3. CASE j = n
    <3>1. to[j] = Len(line) + Len(gap)
      BY <1>6, <2>3, Zenon
    <3>2. /\ Stop(words, to, i) = Stop(words, at, i)
          /\ Stop(words, at, i) \in Nat /\ Stop(words, at, i) <= Len(line)
      BY <1>8, <2>1, Zenon
    <3>3. QED
      BY <1>5, <3>1, <3>2, SMT
  <2>4. QED
    BY <1>15, <2>2, <2>3, Zenon
<1>18. ASSUME NEW i \in 1 .. n, i < n, ~words[i].quoted PROVE Stop(words, to, i) < to[i + 1]
  <2>1. i \in 1 .. m
    BY <1>18, SMT
  <2>2. CASE i < m
    <3>1. i + 1 \in 1 .. m
      BY <2>1, <2>2, SMT
    <3>2. Stop(words, at, i) < at[i + 1]
      BY <1>18, <2>1, <2>2, Zenon DEF Glued, LaidOut
    <3>3. QED
      BY <1>6, <1>8, <2>1, <3>1, <3>2, Zenon
  <2>3. CASE ~(i < m)
    <3>1. i = m /\ m > 0 /\ i + 1 = m + 1
      BY <2>1, <2>3, SMT
    <3>2. gap # <<>>
      BY <1>18, <3>1, Zenon
    <3>3. Len(gap) # 0
      BY <1>3, <3>2, EmptySeq, Zenon
    <3>4. Stop(words, to, i) <= Len(line) /\ Stop(words, to, i) \in Nat
      BY <1>8, <2>1, Zenon
    <3>5. to[i + 1] = Len(line) + Len(gap)
      BY <1>6, <3>1, Zenon
    <3>6. QED
      BY <1>5, <3>3, <3>4, <3>5, SMT
  <2>4. QED
    BY <2>2, <2>3
<1>19. ASSUME NEW i \in 0 .. n, NEW j \in Stop(words, to, i) .. to[i + 1] - 1
       PROVE  more[j + 1] \in Blanks
  <2>1. Stop(words, to, 0) = 0 /\ Stop(words, at, 0) = 0
    BY Zenon DEF Stop
  <2>2. CASE i < m
    <3>1. i \in 0 .. m /\ i + 1 \in 1 .. m /\ (i = 0 \/ i \in 1 .. m)
      BY <2>2, SMT
    <3>2. Stop(words, to, i) = Stop(words, at, i) /\ Stop(words, at, i) \in Nat
      <4>1. CASE i = 0
        BY <2>1, <4>1, SMT
      <4>2. CASE i \in 1 .. m
        BY <1>8, <4>2, Zenon
      <4>3. QED
        BY <3>1, <4>1, <4>2
    <3>3. to[i + 1] = at[i + 1] /\ at[i + 1] \in Nat /\ at[i + 1] < Len(line)
      <4>1. WordLaid(line, words, m, at, FALSE, i + 1)
        BY <3>1, Zenon DEF Glued, LaidOut
      <4>2. QED
        BY <1>6, <3>1, <4>1, Zenon DEF WordLaid
    <3>4. line[j + 1] \in Blanks
      BY <3>1, <3>2, <3>3, Zenon DEF Glued, LaidOut
    <3>5. j + 1 \in 1 .. Len(line)
      BY <1>5, <3>2, <3>3, SMT
    <3>6. QED
      BY <1>5, <3>4, <3>5, Zenon
  <2>3. CASE i = m
    <3>1. Stop(words, to, i) = Len(line)
      <4>1. CASE m = 0
        BY <2>1, <2>3, <4>1, Zenon DEF Glued
      <4>2. CASE m # 0
        <5>1. m \in 1 .. m
          BY <4>2, SMT
        <5>2. QED
          BY <1>8, <2>3, <5>1, Zenon DEF Glued
      <4>3. QED
        BY <4>1, <4>2
    <3>2. to[i + 1] = Len(line) + Len(gap)
      BY <1>6, <2>3, Zenon
    <3>3. PICK k \in 1 .. Len(gap) : Len(line) + k = j + 1
      <4>1. j + 1 - Len(line) \in 1 .. Len(gap) /\ Len(line) + (j + 1 - Len(line)) = j + 1
        BY <1>5, <3>1, <3>2, SMT
      <4>2. QED
        BY <4>1, Zenon
    <3>4. gap[k] \in Blanks
      BY <1>3, ElementOfSeq, Zenon
    <3>5. QED
      BY <1>5, <3>3, <3>4, Zenon
  <2>4. CASE i = n
    <3>1. Stop(words, to, i) = Len(more) /\ to[i + 1] = Len(more)
      BY <1>6, <1>14, <2>4, Zenon
    <3>2. QED
      BY <1>5, <3>1, SMT
  <2>5. QED
    BY <2>2, <2>3, <2>4, SMT
<1>20. LaidOut(more, words, n, to, FALSE)
  BY <1>5, <1>6, <1>16, <1>17, <1>18, <1>19, Zenon DEF LaidOut
<1>21. QED
  BY <1>14, <1>20, Zenon DEF Glued, more, w

\* Any number of words.
IsGlued(words, gaps, m) == \E at : Glued(Upto(words, gaps)[m], words, m, at)

\* What may be typed between words.
Typable(words, gaps) ==
  /\ words \in Seq(Words)
  /\ \A i \in 1 .. Len(words) + 1 : gaps[i] \in Gaps
  /\ \A i \in 1 .. Len(words) : i > 1 => words[i - 1].quoted \/ gaps[i] # <<>>

LEMMA WordsGlued ==
  ASSUME NEW words, NEW gaps, Typable(words, gaps), NEW m \in 0 .. Len(words)
  PROVE  IsGlued(words, gaps, m)
<1> DEFINE T == {k \in Nat : k <= Len(words) /\ ~IsGlued(words, gaps, k)}
           n == Min(T)
<1>1. words \in Seq(Words) /\ Len(words) \in Nat
  BY LenProperties, Zenon DEF Typable
<1>2. SUFFICES ASSUME T # {} PROVE FALSE
  <2>1. m \in Nat /\ m <= Len(words)
    BY <1>1, SMT
  <2>2. QED
    BY <2>1, Zenon
<1>3. T \subseteq Nat
  OBVIOUS
<1>4. n \in T /\ \A k \in T : n <= k
  <2> HIDE DEF T
  <2>1. QED
    BY <1>2, <1>3, Least, Zenon
<1> HIDE DEF n
<1>5. n \in Nat /\ n <= Len(words) /\ ~IsGlued(words, gaps, n)
  BY <1>4, Zenon
<1>6. /\ Upto(words, gaps)[0] = <<>>
      /\ \A i \in 1 .. Len(words) :
           Upto(words, gaps)[i] = Upto(words, gaps)[i - 1] \o gaps[i] \o Typed(words[i])
  BY <1>1, UptoNext, Zenon
<1>7. CASE n = 0
  <2> DEFINE at == [i \in 1 .. 1 |-> 0]
  <2>1. at[0 + 1] = 0
    BY SMT
  <2> HIDE DEF at
  <2>2. <<>> \in Seq(Characters) /\ Len(<<>>) = 0
    BY EmptySeq, Zenon
  <2>3. 1 .. 0 = {} /\ 0 .. 0 = {0} /\ 0 .. 0 - 1 = {}
    BY SMT
  <2>4. Stop(words, at, 0) = 0
    BY Zenon DEF Stop
  <2>5. LaidOut(<<>>, words, 0, at, FALSE)
    <3>1. \A i \in 0 .. 0 : \A j \in Stop(words, at, i) .. at[i + 1] - 1 : <<>>[j + 1] \in Blanks
      <4> SUFFICES ASSUME NEW i \in 0 .. 0, NEW j \in Stop(words, at, i) .. at[i + 1] - 1
                   PROVE  FALSE
        OBVIOUS
      <4>1. i = 0
        BY <2>3, Zenon
      <4>2. j \in 0 .. 0 - 1
        BY <2>1, <2>4, <4>1, Zenon
      <4>3. QED
        BY <2>3, <4>2, Zenon
    <3>2. QED
      BY <2>1, <2>2, <2>3, <3>1, Zenon DEF LaidOut
  <2>6. Glued(<<>>, words, 0, at)
    BY <2>2, <2>4, <2>5, Zenon DEF Glued
  <2>7. QED
    BY <1>5, <1>6, <1>7, <2>6, Zenon DEF IsGlued
<1>8. CASE n # 0
  <2>1. PICK k \in Nat : n = k + 1
    <3>1. n - 1 \in Nat /\ n = n - 1 + 1
      BY <1>5, <1>8, SMT
    <3>2. QED
      BY <3>1, Zenon
  <2>2. /\ k + 1 <= Len(words) /\ k <= Len(words) /\ ~(k + 1 <= k) /\ k + 1 - 1 = k
        /\ k + 1 \in 1 .. Len(words) /\ k + 1 \in 1 .. Len(words) + 1
        /\ k > 0 => k + 1 > 1
    BY <1>1, <1>5, <2>1, SMT
  <2>3. IsGlued(words, gaps, k)
    BY <1>4, <2>1, <2>2, Zenon
  <2>4. PICK at : Glued(Upto(words, gaps)[k], words, k, at)
    BY <2>3, Zenon DEF IsGlued
  <2>5. gaps[k + 1] \in Gaps /\ (k > 0 => words[k].quoted \/ gaps[k + 1] # <<>>)
    <3>1. \A i \in 1 .. Len(words) : \A j : i - 1 = j /\ i > 1 => words[j].quoted \/ gaps[i] # <<>>
      BY Zenon DEF Typable
    <3>2. gaps[k + 1] \in Gaps
      BY <2>2, Zenon DEF Typable
    <3>3. ASSUME NEW i \in 1 .. Len(words), i = k + 1, k > 0 PROVE words[k].quoted \/ gaps[i] # <<>>
      <4>1. i - 1 = k /\ i > 1
        BY <3>3, SMT
      <4>2. QED
        BY <3>1, <4>1, Zenon
    <3>4. QED
      BY <2>2, <3>2, <3>3, Zenon
  <2>6. \E to : Glued(Upto(words, gaps)[k] \o gaps[k + 1] \o Typed(words[k + 1]), words, k + 1, to)
    BY <1>1, <2>2, <2>4, <2>5, WordGoesOn, Zenon
  <2>7. Upto(words, gaps)[k + 1] = Upto(words, gaps)[k] \o gaps[k + 1] \o Typed(words[k + 1])
    <3>1. \A i \in 1 .. Len(words) : \A j : i - 1 = j =>
            Upto(words, gaps)[i] = Upto(words, gaps)[j] \o gaps[i] \o Typed(words[i])
      BY <1>6, Zenon
    <3>2. ASSUME NEW i \in 1 .. Len(words), i = k + 1
          PROVE  Upto(words, gaps)[i] = Upto(words, gaps)[k] \o gaps[i] \o Typed(words[i])
      <4>1. i - 1 = k
        BY <3>2, SMT
      <4>2. QED
        BY <3>1, <4>1, Zenon
    <3>3. QED
      BY <2>2, <3>2, Zenon
  <2>8. QED
    BY <1>5, <2>1, <2>6, <2>7, Zenon DEF IsGlued
<1>9. QED
  BY <1>7, <1>8

\* The line is complete: the last gap behind it,
LEMMA ClosedLaidOut ==
  ASSUME NEW all, NEW words \in Seq(Words), NEW at, NEW gap \in Gaps, NEW n, n = Len(words),
         Glued(all, words, n, at)
  PROVE  \E to : LaidOut(all \o gap, words, n, to, FALSE)
<1> DEFINE line == all \o gap
           to == [i \in 1 .. n + 1 |-> IF i <= n THEN at[i] ELSE Len(line)]
<1>1. /\ n \in Nat /\ \A i \in 1 .. n : words[i] \in Words
  BY LenProperties, ElementOfSeq, Zenon
<1>2. all \in Seq(Characters) /\ gap \in Seq(Characters) /\ gap \in Seq(Blanks)
  <2>1. gap \in Seq(Blanks)
    BY MshAssumption, Zenon
  <2>2. gap \in Seq(Characters)
    BY <2>1, Bytewise, SeqMonotonic, Zenon
  <2>3. QED
    BY <2>1, <2>2, Zenon DEF Glued, LaidOut
<1>3. IsTwo(Characters, line, all, gap)
  BY <1>2, Two, Zenon
<1> HIDE DEF line
<1>4. /\ line \in Seq(Characters) /\ Len(all) \in Nat /\ Len(gap) \in Nat
      /\ Len(line) = Len(all) + Len(gap)
      /\ \A j \in 1 .. Len(all) : line[j] = all[j]
      /\ \A j \in 1 .. Len(gap) : line[Len(all) + j] = gap[j]
  BY <1>3, Zenon DEF IsTwo
<1>5. (\A i \in 1 .. n : to[i] = at[i]) /\ to[n + 1] = Len(line)
  BY <1>1, SMT
<1> HIDE DEF to
<1>6. SameUpto(line, all, Len(all))
  <2>1. Len(line) \in Nat /\ Len(all) <= Len(line)
    BY <1>4, SMT
  <2>2. QED
    BY <1>4, <2>1, Zenon DEF SameUpto
<1>7. ASSUME NEW i \in 1 .. n
      PROVE  Kept(line, words, n, at, to, i)
  <2>1. i # 0
    BY <1>1, SMT
  <2>2. words[i] \in Words /\ WordLaid(all, words, n, at, FALSE, i) /\ to[i] = at[i]
    BY <1>1, <1>5, Zenon DEF Glued, LaidOut
  <2>3. Stop(words, at, i) <= Len(all)
    BY <1>4, <2>1, <2>2, WordInside, Zenon
  <2>4. QED
    BY <1>6, <2>1, <2>2, <2>3, WordKept, Zenon
<1>8. Stop(words, to, 0) = 0 /\ Stop(words, at, 0) = 0
  BY Zenon DEF Stop
<1>9. \A i \in 0 .. n : i = 0 \/ i \in 1 .. n
  BY <1>1, SMT
<1>10. \A i \in 0 .. n : Stop(words, to, i) = Stop(words, at, i)
  BY <1>7, <1>8, <1>9, Zenon DEF Kept
<1>11. \A i \in 1 .. n : i < n => i + 1 \in 1 .. n
  BY <1>1, SMT
<1>12. ASSUME NEW i \in 0 .. n, NEW j \in Stop(words, to, i) .. to[i + 1] - 1
       PROVE  line[j + 1] \in Blanks
  <2>1. CASE i # n
    <3>1. i + 1 \in 1 .. n
      BY <1>1, <2>1, SMT
    <3>2. line[j + 1] = all[j + 1]
      <4>1. WordLaid(all, words, n, at, FALSE, i + 1)
        BY <3>1, Zenon DEF Glued, LaidOut
      <4>2. to[i + 1] = at[i + 1] /\ at[i + 1] \in Nat /\ at[i + 1] < Len(all)
        BY <1>5, <3>1, <4>1, Zenon DEF WordLaid
      <4>3. Stop(words, to, i) \in Nat
        <5>1. CASE i = 0
          BY <1>8, <5>1, SMT
        <5>2. CASE i \in 1 .. n
          <6>1. i # 0 /\ words[i] \in Words /\ WordLaid(all, words, n, at, FALSE, i)
            <7>1. i # 0
              BY <1>1, <5>2, SMT
            <7>2. QED
              BY <1>1, <5>2, <7>1, Zenon DEF Glued, LaidOut
          <6>2. Span(all, words, at, i)
            BY <1>4, <6>1, WordInside, Zenon
          <6>3. QED
            BY <1>10, <6>2, Zenon DEF Span
        <5>3. QED
          BY <1>9, <5>1, <5>2
      <4>4. j + 1 \in 1 .. Len(all)
        BY <1>4, <4>2, <4>3, SMT
      <4>5. QED
        BY <1>4, <4>4, Zenon
    <3>3. all[j + 1] \in Blanks
      BY <1>5, <1>10, <3>1, Zenon DEF Glued, LaidOut
    <3>4. QED
      BY <3>2, <3>3, Zenon
  <2>2. CASE i = n
    <3>1. Stop(words, to, i) = Len(all) /\ to[i + 1] = Len(line)
      BY <1>5, <1>10, <2>2, Zenon DEF Glued
    <3>2. PICK k \in 1 .. Len(gap) : Len(all) + k = j + 1
      <4>1. j + 1 - Len(all) \in 1 .. Len(gap) /\ Len(all) + (j + 1 - Len(all)) = j + 1
        BY <1>4, <3>1, SMT
      <4>2. QED
        BY <4>1, Zenon
    <3>3. gap[k] \in Blanks
      BY <1>2, ElementOfSeq, Zenon
    <3>4. QED
      BY <1>4, <3>2, <3>3, Zenon
  <2>3. QED
    BY <2>1, <2>2
<1>13. LaidOut(line, words, n, to, FALSE)
  <2>1. \A i \in 1 .. n : WordLaid(line, words, n, to, FALSE, i)
    BY <1>7, Zenon DEF Kept
  <2>2. \A i \in 1 .. n : i \in 0 .. n
    BY <1>1, SMT
  <2>3. \A i, j \in 1 .. n : i < j => Stop(words, to, i) <= to[j]
    BY <1>5, <1>10, <2>2, Zenon DEF Glued, LaidOut
  <2>4. \A i \in 1 .. n : i < n /\ ~words[i].quoted => Stop(words, to, i) < to[i + 1]
    BY <1>5, <1>10, <1>11, <2>2, Zenon DEF Glued, LaidOut
  <2>5. QED
    BY <1>4, <1>5, <1>12, <2>1, <2>3, <2>4, Zenon DEF LaidOut
<1>14. QED
  BY <1>13, Zenon DEF line

\* or the closing quote of the last word missing.
IsFront(t, s) ==
  /\ t \in Seq(Characters) /\ Len(s) \in Nat /\ Len(t) \in Nat /\ Len(s) = Len(t) + 1
  /\ \A j \in 1 .. Len(t) : t[j] = s[j]

LEMMA FrontIs ==
  ASSUME NEW s \in Seq(Characters), Len(s) # 0
  PROVE  IsFront(Front(s), s)
<1> DEFINE l == Len(s)
           k == l - 1
           t == SubSeq(s, 1, k)
<1>1. l \in Nat /\ \A i \in 1 .. l : s[i] \in Characters
  BY LenProperties, ElementOfSeq, Zenon
<1> HIDE DEF l
<1>2. 1 \in Int /\ k \in Int /\ \A i \in 1 .. k : i \in 1 .. l
  BY <1>1, SMT
<1>3. \A i \in 1 .. k : s[i] \in Characters
  BY <1>1, <1>2, Zenon
<1> HIDE DEF k
<1>4. /\ t \in Seq(Characters)
      /\ Len(t) = IF 1 <= k THEN k - 1 + 1 ELSE 0
      /\ \A i \in 1 .. k - 1 + 1 : t[i] = s[1 + i - 1]
  BY <1>2, <1>3, SubSeqProperties
<1> HIDE DEF t
<1>5. l # 0
  BY Zenon DEF l
<1>6. Len(t) \in Nat /\ l = Len(t) + 1
  BY <1>1, <1>4, <1>5, SMT DEF k
<1>7. \A i \in 1 .. Len(t) : t[i] = s[i]
  BY <1>1, <1>4, <1>5, <1>6, SMT DEF k
<1>8. IsFront(t, s)
  BY <1>1, <1>4, <1>6, <1>7, Zenon DEF IsFront, l
<1>9. QED
  BY <1>8, Zenon DEF Front, t, k, l

\* With that quote missing, the other words stay where they are.
LEMMA OpenLaidOut ==
  ASSUME NEW all, NEW words \in Seq(Words), NEW at, NEW n, n = Len(words),
         n > 0, words[n].quoted, Glued(all, words, n, at)
  PROVE  \E to : LaidOut(Front(all), words, n, to, TRUE)
<1> DEFINE line == Front(all)
           l == Len(line)
           to == [i \in 1 .. n + 1 |-> IF i <= n THEN at[i] ELSE l]
<1>1. n \in Nat /\ n \in 1 .. n /\ n # 0 /\ \A i \in 1 .. n : words[i] \in Words /\ i # 0
  <2>1. n \in Nat /\ \A i \in 1 .. n : words[i] \in Words
    BY LenProperties, ElementOfSeq, Zenon
  <2>2. QED
    BY <2>1, SMT
<1>2. all \in Seq(Characters) /\ Len(all) \in Nat
  BY LenProperties, Zenon DEF Glued, LaidOut
<1>3. ASSUME NEW i \in 1 .. n
      PROVE  Stop(words, at, i) <= Len(all) /\ Span(all, words, at, i)
  <2>1. WordLaid(all, words, n, at, FALSE, i)
    BY Zenon DEF Glued, LaidOut
  <2>2. QED
    BY <1>1, <1>2, <2>1, WordInside, Zenon
<1> DEFINE b == Body(words, at, n)
           e == BodyEnd(words, at, n)
<1>4. /\ at[n] \in Nat /\ b = at[n] + 1 /\ e = b + Len(words[n].text) /\ Len(all) = e + 1
      /\ b \in Nat /\ e \in Nat /\ Len(words[n].text) \in Nat /\ Stop(words, at, n) = e + 1
  <2>1. Span(all, words, at, n) /\ Stop(words, at, n) = Len(all)
    BY <1>1, <1>3, Zenon DEF Glued
  <2>2. QED
    BY <2>1, Zenon DEF Span
<1> HIDE DEF b, e
<1>5. Len(all) # 0
  BY <1>4, SMT
<1>6. IsFront(line, all)
  BY <1>2, <1>5, FrontIs, Zenon
<1> HIDE DEF line
<1>7. /\ line \in Seq(Characters) /\ l \in Nat /\ Len(all) = l + 1
      /\ \A j \in 1 .. l : line[j] = all[j]
  BY <1>6, Zenon DEF IsFront
<1> HIDE DEF l
<1>8. l = e /\ at[n] < l /\ l <= Len(all)
  BY <1>4, <1>7, SMT
<1>9. (\A i \in 1 .. n : to[i] = at[i]) /\ to[n + 1] = l
  BY <1>1, SMT
<1> HIDE DEF to
<1>10. SameUpto(line, all, l)
  <2>1. l <= l /\ l = Len(line)
    BY <1>7, SMT DEF l
  <2>2. QED
    BY <1>2, <1>7, <2>1, Zenon DEF SameUpto
<1>11. ASSUME NEW i \in 1 .. n, i < n PROVE Kept(line, words, n, at, to, i)
  <2>1. Stop(words, at, i) <= at[n]
    BY <1>1, <1>11, Zenon DEF Glued, LaidOut
  <2>2. Stop(words, at, i) \in Nat
    BY <1>3, Zenon DEF Span
  <2>3. Stop(words, at, i) <= l
    BY <1>4, <1>7, <1>8, <2>1, <2>2, SMT
  <2>4. WordLaid(all, words, n, at, FALSE, i) /\ to[i] = at[i]
    BY <1>9, Zenon DEF Glued, LaidOut
  <2>5. QED
    BY <1>1, <1>10, <2>3, <2>4, WordKept, Zenon
<1>12. Body(words, to, n) = b /\ BodyEnd(words, to, n) = e /\ Stop(words, to, n) = Stop(words, at, n)
  <2>1. to[n] = at[n]
    BY <1>1, <1>9, Zenon
  <2>2. QED
    BY <2>1, Zenon DEF Body, BodyEnd, Stop, b, e
<1>13. WordLaid(line, words, n, to, TRUE, n)
  <2>1. to[n] = at[n] /\ l = Len(line)
    BY <1>1, <1>9, Zenon DEF l
  <2>2. WordLaid(all, words, n, at, FALSE, n)
    BY <1>1, Zenon DEF Glued, LaidOut
  <2>3. \A k \in 1 .. Len(words[n].text) : line[b + k] = words[n].text[k]
    <3> TAKE k \in 1 .. Len(words[n].text)
    <3>1. all[b + k] = words[n].text[k]
      BY <2>2, Zenon DEF WordLaid, b
    <3>2. b + k \in 1 .. l
      BY <1>4, <1>8, SMT
    <3>3. QED
      BY <1>7, <3>1, <3>2, Zenon
  <2>4. line[at[n] + 1] = Quote
    <3>1. all[at[n] + 1] = Quote
      BY <2>2, Zenon DEF WordLaid
    <3>2. at[n] + 1 \in 1 .. l
      BY <1>4, <1>7, <1>8, SMT
    <3>3. QED
      BY <1>7, <3>1, <3>2, Zenon
  <2>5. e <= l
    BY <1>4, <1>8, SMT
  <2>6. QED
    BY <1>4, <1>8, <1>12, <2>1, <2>3, <2>4, <2>5, Zenon DEF WordLaid
<1>14. \A i \in 1 .. n : i < n \/ i = n
  BY <1>1, SMT
<1>15. \A i \in 1 .. n : WordLaid(line, words, n, to, TRUE, i)
  <2> TAKE i \in 1 .. n
  <2>1. CASE i = n
    BY <1>13, <2>1, Zenon
  <2>2. CASE i < n
    <3>1. i # n
      BY <1>1, <2>2, SMT
    <3>2. QED
      BY <1>11, <2>2, <3>1, Zenon DEF Kept, WordLaid
  <2>3. QED
    BY <1>14, <2>1, <2>2, Zenon
<1>16. \A i \in 1 .. n : Stop(words, to, i) = Stop(words, at, i)
  BY <1>11, <1>12, <1>14, Zenon DEF Kept
<1>17. \A i, j \in 1 .. n : i < j => Stop(words, to, i) <= to[j]
  BY <1>9, <1>16, Zenon DEF Glued, LaidOut
<1>18. \A i \in 1 .. n : i < n => i + 1 \in 1 .. n
  BY <1>1, SMT
<1>19. \A i \in 1 .. n : i < n /\ ~words[i].quoted => Stop(words, to, i) < to[i + 1]
  BY <1>9, <1>16, <1>18, Zenon DEF Glued, LaidOut
<1>20. ASSUME NEW i \in 0 .. n, NEW j \in Stop(words, to, i) .. to[i + 1] - 1
       PROVE  line[j + 1] \in Blanks
  <2>1. CASE i # n
    <3>1. i + 1 \in 1 .. n /\ (i = 0 \/ i \in 1 .. n)
      BY <1>1, <2>1, SMT
    <3>2. Stop(words, to, i) = Stop(words, at, i) /\ Stop(words, at, i) \in Nat
      <4>1. CASE i = 0
        <5>1. Stop(words, to, i) = 0 /\ Stop(words, at, i) = 0
          BY <4>1, Zenon DEF Stop
        <5>2. QED
          BY <5>1, SMT
      <4>2. CASE i \in 1 .. n
        BY <1>3, <1>16, <4>2, Zenon DEF Span
      <4>3. QED
        BY <3>1, <4>1, <4>2
    <3>3. to[i + 1] = at[i + 1] /\ at[i + 1] \in Nat /\ at[i + 1] < l
      BY <1>9, <1>15, <3>1, Zenon DEF WordLaid, l
    <3>4. all[j + 1] \in Blanks
      BY <3>2, <3>3, Zenon DEF Glued, LaidOut
    <3>5. j + 1 \in 1 .. l
      BY <1>7, <3>2, <3>3, SMT
    <3>6. QED
      BY <1>7, <3>4, <3>5, Zenon
  <2>2. CASE i = n
    <3>1. Stop(words, to, i) = e + 1 /\ to[i + 1] = l
      BY <1>1, <1>4, <1>9, <1>16, <2>2, Zenon
    <3>2. QED
      BY <1>4, <1>8, <3>1, SMT
  <2>3. QED
    BY <2>1, <2>2
<1>21. LaidOut(line, words, n, to, TRUE)
  BY <1>7, <1>9, <1>15, <1>17, <1>19, <1>20, Zenon DEF LaidOut, l
<1>22. QED
  BY <1>21, Zenon DEF line

\* So every line that is typed has its words laid out.
IsLaid(line, words, open) == \E at : LaidOut(line, words, Len(words), at, open)

LEMMA LineLaidOut ==
  ASSUME NEW words, NEW gaps, NEW open \in BOOLEAN, Typable(words, gaps),
         open => words # <<>> /\ Last(words).quoted
  PROVE  IsLaid(Line(words, gaps, open), words, open)
<1> DEFINE n == Len(words)
           all == Upto(words, gaps)[n]
<1>1. words \in Seq(Words) /\ n \in Nat
  BY LenProperties, Zenon DEF Typable
<1> HIDE DEF n
<1>2. n \in 0 .. n /\ n + 1 \in 1 .. n + 1 /\ n = Len(words)
  BY <1>1, SMT DEF n
<1>3. IsGlued(words, gaps, n)
  BY <1>2, WordsGlued, Zenon
<1>4. PICK at : Glued(all, words, n, at)
  BY <1>3, Zenon DEF IsGlued
<1> HIDE DEF all
<1>5. CASE open
  <2>1. n > 0 /\ words[n].quoted
    <3>1. n # 0
      BY <1>1, <1>2, <1>5, EmptySeq, Zenon
    <3>2. n > 0
      BY <1>1, <3>1, SMT
    <3>3. QED
      BY <1>5, <3>2, Zenon DEF Last, n
  <2>2. \E to : LaidOut(Front(all), words, n, to, TRUE)
    BY <1>1, <1>2, <1>4, <2>1, OpenLaidOut, Zenon
  <2>3. Line(words, gaps, open) = Front(all) /\ open = TRUE
    BY <1>5, Zenon DEF Line, all, n
  <2>4. QED
    BY <2>2, <2>3, Zenon DEF IsLaid, n
<1>6. CASE ~open
  <2>1. gaps[n + 1] \in Gaps
    BY <1>2, Zenon DEF Typable, n
  <2>2. \E to : LaidOut(all \o gaps[n + 1], words, n, to, FALSE)
    BY <1>1, <1>2, <1>4, <2>1, ClosedLaidOut, Zenon
  <2>3. Line(words, gaps, open) = all \o gaps[n + 1] /\ open = FALSE
    BY <1>6, Zenon DEF Line, all, n
  <2>4. QED
    BY <2>2, <2>3, Zenon DEF IsLaid, n
<1>7. QED
  BY <1>5, <1>6

-----------------------------------------------------------------------------
\* Where the words of the line read are.
WordIn(line, at, open, i) ==
  /\ meant[i] \in Words /\ i # 0 /\ i > 0
  /\ Span(line, meant, at, i)
  /\ WordLaid(line, meant, Len(meant), at, open, i)
  /\ at[i] < end /\ BodyEnd(meant, at, i) <= end
  /\ BodyEnd(meant, at, i) <= at[i + 1]
  /\ ~meant[i].quoted => BodyEnd(meant, at, i) = end \/ BodyEnd(meant, at, i) < at[i + 1]
  /\ \A j \in 1 .. Len(meant) : i < j => Stop(meant, at, i) <= at[j]

Layout(line, at, open) ==
  /\ meant \in Seq(Words) /\ Len(meant) \in Nat /\ LineMax \in Nat
  /\ line \in Seq(Characters) /\ end = Len(line) /\ end \in Nat /\ end <= LineMax
  /\ at[Len(meant) + 1] = end
  /\ cmd \in [Bytes -> Characters \cup {NUL}]
  /\ \A i \in 1 .. Len(meant) : WordIn(line, at, open, i)
  /\ \A i \in 0 .. Len(meant) :
       /\ at[i + 1] \in Nat /\ at[i + 1] <= end
       /\ i < Len(meant) <=> at[i + 1] < end
  /\ \A i \in 0 .. Len(meant) :
       \A j \in Stop(meant, at, i) .. at[i + 1] - 1 : line[j + 1] \in Blanks

\* A line being read has that geometry.
LEMMA LayoutIs ==
  ASSUME NEW line, NEW at, NEW open, Reading(line, at, open)
  PROVE  Layout(line, at, open)
<1> DEFINE n == Len(meant)
<1>1. /\ meant \in Seq(Words) /\ n \in Nat /\ \A i \in 1 .. n : meant[i] \in Words
  BY LenProperties, ElementOfSeq, Zenon DEF Reading
<1>2. LineMax \in Nat
  BY MshAssumption, Zenon
<1>3. LaidOut(line, meant, n, at, open) /\ end = Len(line) /\ end <= LineMax
      /\ cmd \in [Bytes -> Characters \cup {NUL}]
  BY Zenon DEF Reading
<1> HIDE DEF n
<1>4. line \in Seq(Characters) /\ end \in Nat /\ at[n + 1] = end
  BY <1>3, LenProperties, Zenon DEF LaidOut
<1>5. ASSUME NEW i \in 1 .. n
      PROVE  /\ i # 0 /\ i > 0 /\ Span(line, meant, at, i)
             /\ at[i] \in Nat /\ at[i] < end /\ BodyEnd(meant, at, i) <= end
  <2>1. i # 0 /\ i > 0
    BY <1>1, SMT
  <2>2. at[i] \in Nat /\ at[i] < end /\ BodyEnd(meant, at, i) <= end
    BY <1>3, Zenon DEF LaidOut, WordLaid
  <2>3. QED
    BY <1>1, <2>1, <2>2, WordSpan, Zenon
<1>6. ASSUME NEW i \in 0 .. n
      PROVE  at[i + 1] \in Nat /\ at[i + 1] <= end /\ (i < n <=> at[i + 1] < end)
  <2>1. CASE i = n
    <3>1. at[i + 1] = end
      BY <1>4, <2>1, Zenon
    <3>2. QED
      BY <1>1, <1>4, <2>1, <3>1, SMT
  <2>2. CASE i # n
    <3>1. i + 1 \in 1 .. n /\ i < n
      BY <1>1, <2>2, SMT
    <3>2. at[i + 1] \in Nat /\ at[i + 1] < end
      BY <1>5, <3>1, Zenon
    <3>3. at[i + 1] <= end
      BY <1>4, <3>2, SMT
    <3>4. QED
      BY <3>1, <3>2, <3>3, Zenon
  <2>3. QED
    BY <2>1, <2>2
<1>7. ASSUME NEW i \in 1 .. n PROVE BodyEnd(meant, at, i) <= at[i + 1]
  <2>1. CASE i = n
    <3>1. at[i + 1] = end
      BY <1>4, <2>1, Zenon
    <3>2. QED
      BY <1>5, <3>1, Zenon
  <2>2. CASE i # n
    <3>1. i + 1 \in 1 .. n /\ i < i + 1
      BY <1>1, <2>2, SMT
    <3>2. Stop(meant, at, i) <= at[i + 1] /\ at[i + 1] \in Nat
      BY <1>3, <1>5, <3>1, Zenon DEF LaidOut
    <3>3. /\ BodyEnd(meant, at, i) \in Nat /\ Stop(meant, at, i) \in Nat
          /\ Stop(meant, at, i) = BodyEnd(meant, at, i) + (IF meant[i].quoted THEN 1 ELSE 0)
      BY <1>5, Zenon DEF Span
    <3>4. BodyEnd(meant, at, i) <= Stop(meant, at, i)
      BY <3>3, SMT
    <3>5. QED
      BY <3>2, <3>3, <3>4, SMT
  <2>3. QED
    BY <2>1, <2>2
<1>8. ASSUME NEW i \in 1 .. n, ~meant[i].quoted
       PROVE  BodyEnd(meant, at, i) = end \/ BodyEnd(meant, at, i) < at[i + 1]
  <2>1. BodyEnd(meant, at, i) \in Nat /\ Stop(meant, at, i) = BodyEnd(meant, at, i) + 0
    BY <1>5, <1>8, Zenon DEF Span
  <2>2. CASE i < n
    <3>1. Stop(meant, at, i) < at[i + 1]
      BY <1>3, <1>8, <2>2, Zenon DEF LaidOut
    <3>2. QED
      BY <2>1, <3>1, SMT
  <2>3. CASE ~(i < n)
    <3>1. i = n
      BY <1>1, <2>3, SMT
    <3>2. at[i + 1] = end /\ BodyEnd(meant, at, i) <= end
      BY <1>4, <1>5, <3>1, Zenon
    <3>3. QED
      BY <1>4, <2>1, <3>2, SMT
  <2>4. QED
    BY <2>2, <2>3
<1>9. \A i \in 1 .. n : WordIn(line, at, open, i)
  BY <1>1, <1>3, <1>5, <1>7, <1>8, Zenon DEF WordIn, LaidOut, n
<1>10. \A i \in 0 .. n : \A j \in Stop(meant, at, i) .. at[i + 1] - 1 : line[j + 1] \in Blanks
  BY <1>3, Zenon DEF LaidOut
<1>11. QED
  BY <1>1, <1>2, <1>3, <1>4, <1>6, <1>9, <1>10, Zenon DEF Layout, n

\* The first byte of a word tells whether it is quoted; it is never blank.
LEMMA WordStarts ==
  ASSUME NEW line, NEW at, NEW open, Layout(line, at, open), NEW i \in 1 .. Len(meant)
  PROVE  line[at[i] + 1] \notin Blanks /\ (line[at[i] + 1] = Quote <=> meant[i].quoted)
<1>1. WordIn(line, at, open, i)
  BY Zenon DEF Layout
<1>2. meant[i] \in Words /\ WordLaid(line, meant, Len(meant), at, open, i) /\ Span(line, meant, at, i)
  BY <1>1, Zenon DEF WordIn
<1>3. CASE meant[i].quoted
  BY <1>2, <1>3, Bytewise, Zenon DEF WordLaid
<1>4. CASE ~meant[i].quoted
  <2> DEFINE t == meant[i].text
  <2>1. t # <<>> /\ t[1] # Quote /\ Range(t) \cap Blanks = {} /\ t \in Seq(Characters)
    BY <1>2, <1>4, MshAssumption, Zenon
  <2>2. /\ at[i] \in Nat /\ Len(t) \in Nat /\ Len(t) > 0
        /\ Body(meant, at, i) = at[i] + 0
    BY <1>2, <1>4, Zenon DEF Span
  <2> HIDE DEF t
  <2>3. 1 \in 1 .. Len(t) /\ Body(meant, at, i) + 1 = at[i] + 1
    BY <2>2, SMT
  <2>4. line[Body(meant, at, i) + 1] = t[1]
    BY <1>2, <2>3, Zenon DEF WordLaid, t
  <2>5. t[1] \in Range(t)
    <3>1. DOMAIN t = 1 .. Len(t)
      BY <2>1, LenProperties, Zenon
    <3>2. QED
      BY <2>3, <3>1, Zenon DEF Range
  <2>6. QED
    BY <1>4, <2>1, <2>3, <2>4, <2>5, Zenon
<1>5. QED
  BY <1>3, <1>4

\* Where a loop over blanks ends, and one over others.
LEMMA AfterBlanksIs ==
  ASSUME NEW i \in Nat, end \in Nat, NEW e \in i .. end, \A j \in i .. e - 1 : cmd[j] \in Blanks,
         e = end \/ cmd[e] \notin Blanks
  PROVE  AfterBlanks(i) = e
<1> DEFINE T == {j \in i .. end : j = end \/ cmd[j] \notin Blanks}
           m == Min(T)
<1>1. e \in T /\ T \subseteq Nat
  <2>1. \A j \in i .. end : j \in Nat
    BY SMT
  <2>2. QED
    BY <2>1, Zenon
<1>2. m \in T /\ m <= e
  <2> HIDE DEF T
  <2>1. T # {}
    BY <1>1, Zenon
  <2>2. m \in T /\ \A y \in T : m <= y
    BY <1>1, <2>1, Least, Zenon
  <2>3. QED
    BY <1>1, <2>2, Zenon
<1> HIDE DEF m
<1>3. m \in i .. end /\ (m = end \/ cmd[m] \notin Blanks)
  BY <1>2, Zenon
<1>4. ~(m \in i .. e - 1)
  <2>1. m \in i .. e - 1 => m # end
    BY SMT
  <2>2. QED
    BY <1>3, <2>1, Zenon
<1>5. m = e
  BY <1>2, <1>3, <1>4, SMT
<1>6. QED
  BY <1>5, Zenon DEF AfterBlanks, m

LEMMA BlankFromIs ==
  ASSUME NEW i \in Nat, end \in Nat, NEW e \in i .. end, \A j \in i .. e - 1 : cmd[j] \notin Blanks,
         e = end \/ cmd[e] \in Blanks
  PROVE  BlankFrom(i) = e
<1> DEFINE T == {j \in i .. end : j = end \/ cmd[j] \in Blanks}
           m == Min(T)
<1>1. e \in T /\ T \subseteq Nat
  <2>1. \A j \in i .. end : j \in Nat
    BY SMT
  <2>2. QED
    BY <2>1, Zenon
<1>2. m \in T /\ m <= e
  <2> HIDE DEF T
  <2>1. T # {}
    BY <1>1, Zenon
  <2>2. m \in T /\ \A y \in T : m <= y
    BY <1>1, <2>1, Least, Zenon
  <2>3. QED
    BY <1>1, <2>2, Zenon
<1> HIDE DEF m
<1>3. m \in i .. end /\ (m = end \/ cmd[m] \in Blanks)
  BY <1>2, Zenon
<1>4. ~(m \in i .. e - 1)
  <2>1. m \in i .. e - 1 => m # end
    BY SMT
  <2>2. QED
    BY <1>3, <2>1, Zenon
<1>5. m = e
  BY <1>2, <1>3, <1>4, SMT
<1>6. QED
  BY <1>5, Zenon DEF BlankFrom, m

\* The line from byte p on is as it was entered.
AsEntered(line, p) == \A j \in Bytes : j >= p => cmd[j] = Entered(line, j)

\* The command buffer against the line.
LEMMA EnteredByte ==
  ASSUME NEW line, NEW at, NEW open, Layout(line, at, open), NEW p, AsEntered(line, p),
         NEW j \in Nat, j >= p, j < end
  PROVE  cmd[j] = line[j + 1] /\ j \in Bytes
<1>1. end = Len(line) /\ end <= LineMax /\ LineMax \in Nat /\ end \in Nat
  BY Zenon DEF Layout
<1>2. j \in Bytes
  BY <1>1, SMT DEF Bytes
<1>3. QED
  BY <1>1, <1>2, Zenon DEF AsEntered, Entered

\* From behind a word the blanks end at the next one.
LEMMA NextWord ==
  ASSUME NEW line, NEW at, NEW open, Layout(line, at, open), NEW k \in 0 .. Len(meant),
         NEW p \in Nat, AsEntered(line, p),
         Stop(meant, at, k) \in Nat, Stop(meant, at, k) <= p, p <= at[k + 1]
  PROVE  AfterBlanks(p) = at[k + 1]
<1> DEFINE e == at[k + 1]
<1>1. /\ end \in Nat /\ e \in Nat /\ e <= end /\ (k < Len(meant) <=> e < end) /\ Len(meant) \in Nat
  BY Zenon DEF Layout
<1>2. e \in p .. end
  BY <1>1, SMT
<1>3. ASSUME NEW j \in p .. e - 1 PROVE cmd[j] \in Blanks
  <2>1. j \in Nat /\ j >= p /\ j < end /\ j \in Stop(meant, at, k) .. e - 1
    BY <1>1, SMT
  <2>2. line[j + 1] \in Blanks
    BY <2>1, Zenon DEF Layout
  <2>3. cmd[j] = line[j + 1]
    BY <2>1, EnteredByte, Zenon
  <2>4. QED
    BY <2>2, <2>3, Zenon
<1>4. e = end \/ cmd[e] \notin Blanks
  <2>1. CASE k < Len(meant)
    <3>1. k + 1 \in 1 .. Len(meant) /\ e >= p
      BY <1>1, <2>1, SMT
    <3>2. line[e + 1] \notin Blanks
      BY <3>1, WordStarts, Zenon
    <3>3. cmd[e] = line[e + 1]
      BY <1>1, <2>1, <3>1, EnteredByte, Zenon
    <3>4. QED
      BY <3>2, <3>3, Zenon
  <2>2. CASE ~(k < Len(meant))
    BY <1>1, <2>2, SMT
  <2>3. QED
    BY <2>1, <2>2
<1> HIDE DEF e
<1>5. AfterBlanks(p) = e
  BY <1>1, <1>2, <1>3, <1>4, AfterBlanksIs, Zenon
<1>6. QED
  BY <1>5, Zenon DEF e

\* A word without quotes ends at the first blank.
PlainWord(at, i) ==
  /\ BlankFrom(at[i]) = BodyEnd(meant, at, i)
  /\ Body(meant, at, i) = at[i] /\ Stop(meant, at, i) = BodyEnd(meant, at, i)
  /\ BodyEnd(meant, at, i) = at[i] + Len(meant[i].text)
  /\ \A c \in 1 .. Len(meant[i].text) : cmd[at[i] + c - 1] = meant[i].text[c]

LEMMA WordLength ==
  ASSUME NEW line, NEW at, NEW open, Layout(line, at, open), NEW i \in 1 .. Len(meant),
         ~meant[i].quoted, AsEntered(line, at[i])
  PROVE  PlainWord(at, i)
<1> DEFINE t == meant[i].text
           e == BodyEnd(meant, at, i)
           b == at[i]
<1>1. /\ WordIn(line, at, open, i) /\ end \in Nat /\ at[i + 1] \in Nat /\ at[i + 1] <= end
      /\ \A j \in Stop(meant, at, i) .. at[i + 1] - 1 : line[j + 1] \in Blanks
  <2>1. i \in 0 .. Len(meant)
    BY SMT
  <2>2. QED
    BY <2>1, Zenon DEF Layout
<1>2. /\ meant[i] \in Words /\ e <= end /\ e <= at[i + 1] /\ (e = end \/ e < at[i + 1])
      /\ Span(line, meant, at, i)
      /\ \A k \in 1 .. Len(t) : line[Body(meant, at, i) + k] = t[k]
  BY <1>1, Zenon DEF WordIn, WordLaid
<1>3. /\ b \in Nat /\ e \in Nat /\ Len(t) \in Nat
      /\ Body(meant, at, i) = b + 0 /\ e = Body(meant, at, i) + Len(t)
      /\ Stop(meant, at, i) = e + 0
  BY <1>2, Zenon DEF Span
<1>4. Range(t) \cap Blanks = {} /\ t \in Seq(Characters)
  BY <1>2, MshAssumption, Zenon
<1> HIDE DEF t, e, b
<1>5. Body(meant, at, i) = b /\ e = b + Len(t) /\ Stop(meant, at, i) = e /\ e \in b .. end
  BY <1>1, <1>2, <1>3, SMT
<1>6. AsEntered(line, b)
  BY Zenon DEF b
<1>7. ASSUME NEW c \in 1 .. Len(t) PROVE cmd[b + c - 1] = t[c] /\ t[c] \notin Blanks
  <2>1. b + c - 1 \in Nat /\ b + c - 1 >= b /\ b + c - 1 < end /\ b + c - 1 + 1 = b + c
    BY <1>1, <1>2, <1>3, <1>5, SMT
  <2>2. cmd[b + c - 1] = line[b + c]
    BY <1>6, <2>1, EnteredByte, Zenon
  <2>3. line[b + c] = t[c]
    BY <1>2, <1>5, Zenon
  <2>4. t[c] \in Range(t)
    <3>1. DOMAIN t = 1 .. Len(t)
      BY <1>4, LenProperties, Zenon
    <3>2. QED
      BY <3>1, Zenon DEF Range
  <2>5. QED
    BY <1>4, <2>2, <2>3, <2>4, Zenon
<1>8. ASSUME NEW j \in b .. e - 1 PROVE cmd[j] \notin Blanks
  <2>1. PICK c \in 1 .. Len(t) : b + c - 1 = j
    <3>1. j - b + 1 \in 1 .. Len(t) /\ b + (j - b + 1) - 1 = j
      BY <1>3, <1>5, SMT
    <3>2. QED
      BY <3>1, Zenon
  <2>2. QED
    BY <1>7, <2>1, Zenon
<1>9. e = end \/ cmd[e] \in Blanks
  <2>1. SUFFICES ASSUME e < at[i + 1] PROVE cmd[e] \in Blanks
    BY <1>2, Zenon
  <2>2. e \in Nat /\ e >= b /\ e < end /\ e \in e .. at[i + 1] - 1
    BY <1>1, <1>3, <1>5, <2>1, SMT
  <2>3. line[e + 1] \in Blanks
    BY <1>1, <1>5, <2>2, Zenon
  <2>4. cmd[e] = line[e + 1]
    BY <1>6, <2>2, EnteredByte, Zenon
  <2>5. QED
    BY <2>3, <2>4, Zenon
<1>10. BlankFrom(b) = e
  BY <1>1, <1>3, <1>5, <1>8, <1>9, BlankFromIs, Zenon
<1>11. QED
  BY <1>5, <1>7, <1>10, Zenon DEF PlainWord, t, e, b

\* msh_get_cmd finds the first word, and nothing in quotes.
LEMMA CommandTextIs ==
  ASSUME NEW line, NEW at, NEW open, Layout(line, at, open), meant # <<>>,
         start = at[1], AsEntered(line, 0)
  PROVE  /\ ~meant[1].quoted => CommandText = meant[1].text
         /\ meant[1].quoted => \A n \in Syscalls : Name[n] # CommandText
<1>1. /\ Len(meant) \in Nat /\ meant \in Seq(Words) /\ end \in Nat
      /\ \A i \in 1 .. Len(meant) : WordIn(line, at, open, i)
  BY Zenon DEF Layout
<1>2. 1 \in 1 .. Len(meant)
  <2>1. Len(meant) # 0
    BY <1>1, EmptySeq, Zenon
  <2>2. QED
    BY <1>1, <2>1, SMT
<1>3. /\ meant[1] \in Words /\ at[1] \in Nat /\ at[1] < end
  BY <1>1, <1>2, Zenon DEF WordIn, Span
<1>4. AsEntered(line, at[1])
  <2>1. \A j \in Bytes : j >= 0
    BY SMT DEF Bytes
  <2>2. QED
    BY <2>1, Zenon DEF AsEntered
<1>5. ASSUME ~meant[1].quoted PROVE CommandText = meant[1].text
  <2> DEFINE t == meant[1].text
             e == BodyEnd(meant, at, 1)
  <2>1. BlankFrom(at[1]) = e /\ e = at[1] + Len(t)
        /\ \A c \in 1 .. Len(t) : cmd[at[1] + c - 1] = t[c]
    <3>1. PlainWord(at, 1)
      BY <1>2, <1>4, <1>5, WordLength, Zenon
    <3>2. QED
      BY <3>1, Zenon DEF PlainWord
  <2>2. t \in Seq(Characters) /\ Len(t) \in Nat
    BY <1>3, TypedIs, Zenon
  <2> HIDE DEF t, e
  <2>3. BlankFrom(start) - start = Len(t)
    <3>1. e - at[1] = Len(t)
      BY <1>3, <2>1, <2>2, SMT
    <3>2. QED
      BY <2>1, <3>1, Zenon
  <2>4. t = [c \in 1 .. Len(t) |-> t[c]]
    <3>1. DOMAIN t = 1 .. Len(t)
      BY <2>2, LenProperties, Zenon
    <3>2. t = [c \in DOMAIN t |-> t[c]]
      BY <2>2, SMT
    <3>3. QED
      BY <3>1, <3>2, Zenon
  <2>5. CommandText = [c \in 1 .. Len(t) |-> cmd[at[1] + c - 1]]
    BY <2>3, Zenon DEF CommandText
  <2>6. QED
    BY <2>1, <2>4, <2>5, Zenon DEF t
<1>6. ASSUME meant[1].quoted, NEW n \in Syscalls PROVE Name[n] # CommandText
  <2> DEFINE m == BlankFrom(start)
             T == {j \in at[1] .. end : j = end \/ cmd[j] \in Blanks}
  <2>1. cmd[at[1]] = line[at[1] + 1]
    <3>1. at[1] >= at[1]
      BY <1>3, SMT
    <3>2. QED
      BY <1>3, <1>4, <3>1, EnteredByte, Zenon
  <2>2. cmd[at[1]] = Quote /\ cmd[at[1]] \notin Blanks
    <3>1. ASSUME NEW i \in 1 .. Len(meant), i = 1
          PROVE  line[at[i] + 1] = Quote /\ line[at[i] + 1] \notin Blanks
      BY <1>6, <3>1, WordStarts, Zenon
    <3>2. QED
      BY <1>2, <2>1, <3>1, Zenon
  <2>3. m \in T
    <3>1. T \subseteq Nat
      <4>1. \A j \in at[1] .. end : j \in Nat
        BY <1>3, SMT
      <4>2. QED
        BY <4>1, Zenon
    <3>2. end \in T
      <4>1. end \in at[1] .. end
        BY <1>1, <1>3, SMT
      <4>2. QED
        BY <4>1, Zenon
    <3>3. m = Min(T)
      BY Zenon DEF BlankFrom
    <3> HIDE DEF T, m
    <3>4. T # {}
      BY <3>2, Zenon
    <3>5. QED
      BY <3>1, <3>3, <3>4, Least, Zenon
  <2> HIDE DEF m
  <2>4. m \in at[1] .. end /\ m # at[1]
    <3>1. m \in at[1] .. end /\ (m = end \/ cmd[m] \in Blanks)
      BY <2>3, Zenon
    <3>2. at[1] # end
      BY <1>1, <1>3, SMT
    <3>3. QED
      BY <2>2, <3>1, <3>2, Zenon
  <2>5. 1 \in 1 .. m - start /\ start + 1 - 1 = at[1]
    BY <1>1, <1>3, <2>4, SMT
  <2>6. CommandText = [c \in 1 .. m - start |-> cmd[start + c - 1]]
    BY Zenon DEF CommandText, m
  <2>7. DOMAIN CommandText = 1 .. m - start /\ CommandText[1] = cmd[start + 1 - 1]
    BY <2>5, <2>6, Zenon
  <2>8. Quote \in Range(CommandText)
    BY <2>2, <2>5, <2>7, Zenon DEF Range
  <2>9. Quote \notin Range(Name[n])
    BY MshAssumption, Zenon
  <2>10. QED
    BY <2>8, <2>9, Zenon
<1>7. QED
  BY <1>5, <1>6, Zenon

\* What is behind the byte p is behind the words before it.
LEMMA Behind ==
  ASSUME NEW line, NEW at, NEW open, Layout(line, at, open), NEW k \in 0 .. Len(meant),
         NEW p \in Nat, k > 0 => BodyEnd(meant, at, k) <= p
  PROVE  \A i \in 1 .. k : BodyEnd(meant, at, i) <= p
<1> TAKE i \in 1 .. k
<1>1. Len(meant) \in Nat /\ \A j \in 1 .. Len(meant) : WordIn(line, at, open, j)
  BY Zenon DEF Layout
<1>2. i \in 1 .. Len(meant) /\ k \in 1 .. Len(meant) /\ k > 0
  BY <1>1, SMT
<1>3. BodyEnd(meant, at, k) <= p
  BY <1>2
<1>4. CASE i = k
  BY <1>3, <1>4
<1>5. CASE i # k
  <2>1. i < k
    BY <1>5, SMT
  <2>2. /\ Span(line, meant, at, i) /\ Span(line, meant, at, k)
        /\ Stop(meant, at, i) <= at[k]
    BY <1>1, <1>2, <2>1, Zenon DEF WordIn
  <2>3. /\ BodyEnd(meant, at, i) \in Nat
        /\ Stop(meant, at, i) = BodyEnd(meant, at, i) + (IF meant[i].quoted THEN 1 ELSE 0)
        /\ at[k] \in Nat /\ BodyEnd(meant, at, k) = Body(meant, at, k) + Len(meant[k].text)
        /\ Body(meant, at, k) = at[k] + (IF meant[k].quoted THEN 1 ELSE 0)
        /\ Len(meant[k].text) \in Nat
    BY <2>2, Zenon DEF Span
  <2>4. BodyEnd(meant, at, i) <= Stop(meant, at, i) /\ Stop(meant, at, i) \in Nat
    BY <2>3, SMT
  <2>5. at[k] <= BodyEnd(meant, at, k) /\ BodyEnd(meant, at, k) \in Nat
    BY <2>3, SMT
  <2>6. QED
    BY <1>3, <2>2, <2>3, <2>4, <2>5, SMT
<1>6. QED
  BY <1>4, <1>5

\* From p to ptr' bytes may have become zeroes, no others.
Zeroed(p) ==
  /\ ptr' \in Nat /\ ptr <= ptr'
  /\ \A j \in Bytes : cmd'[j] = cmd[j] \/ (cmd'[j] = NUL /\ p <= j /\ j < ptr')

\* The arguments found stay what they are when bytes behind them are zeroed.
LEMMA PassedKept ==
  ASSUME NEW line, NEW at, NEW open, Layout(line, at, open), Passed(line, at),
         NEW p \in Nat, \A i \in 1 .. Len(argv) : BodyEnd(meant, at, i) <= p,
         Zeroed(p), argv' = argv, meant' = meant
  PROVE  Passed(line, at)'
<1> DEFINE k == Len(argv)
<1>1. /\ argv \in Seq(Nat) /\ k <= FINSH_ARG_MAX /\ k <= Len(meant) /\ ptr \in Nat
      /\ \A j \in Bytes : j >= ptr => cmd[j] = Entered(line, j)
      /\ \A i \in 1 .. k :
           /\ argv[i] = Body(meant, at, i)
           /\ \A c \in 1 .. Len(meant[i].text) : cmd[argv[i] + c - 1] = meant[i].text[c]
           /\ i < k => Closed(at, i)
  BY Zenon DEF Passed
<1>2. k \in Nat /\ Len(meant) \in Nat /\ end \in Nat /\ end <= LineMax /\ LineMax \in Nat
  BY <1>1, LenProperties, Zenon DEF Layout
<1> HIDE DEF k
<1>3. ASSUME NEW j \in Bytes, j >= ptr' PROVE cmd'[j] = Entered(line, j)
  <2>1. j >= ptr /\ ~(j < ptr')
    BY <1>1, <1>2, <1>3, SMT DEF Zeroed, Bytes
  <2>2. QED
    BY <1>1, <2>1, Zenon DEF Zeroed
<1>4. ASSUME NEW i \in 1 .. k
      PROVE  /\ \A c \in 1 .. Len(meant[i].text) : cmd'[argv[i] + c - 1] = meant[i].text[c]
             /\ cmd[BodyEnd(meant, at, i)] = NUL => cmd'[BodyEnd(meant, at, i)] = NUL
  <2> DEFINE b == Body(meant, at, i)
             e == BodyEnd(meant, at, i)
  <2>1. i \in 1 .. Len(meant)
    BY <1>1, <1>2, SMT
  <2>2. Span(line, meant, at, i) /\ e <= end
    BY <2>1, Zenon DEF Layout, WordIn
  <2>3. b \in Nat /\ e \in Nat /\ e = b + Len(meant[i].text) /\ Len(meant[i].text) \in Nat
    BY <2>2, Zenon DEF Span
  <2>4. e <= p /\ argv[i] = b
    BY <1>1, Zenon DEF k
  <2> HIDE DEF b, e
  <2>5. ASSUME NEW c \in 1 .. Len(meant[i].text) PROVE cmd'[argv[i] + c - 1] = meant[i].text[c]
    <3>1. b + c - 1 \in Bytes /\ ~(p <= b + c - 1)
      BY <1>2, <2>2, <2>3, <2>4, SMT DEF Bytes
    <3>2. cmd'[b + c - 1] = cmd[b + c - 1]
      BY <3>1, Zenon DEF Zeroed
    <3>3. cmd[argv[i] + c - 1] = meant[i].text[c]
      BY <1>1, Zenon
    <3>4. QED
      BY <2>4, <3>2, <3>3, Zenon
  <2>6. e \in Bytes
    BY <1>2, <2>2, <2>3, SMT DEF Bytes
  <2>7. cmd[e] = NUL => cmd'[e] = NUL
    BY <2>6, Zenon DEF Zeroed
  <2>8. QED
    BY <2>5, <2>7, Zenon DEF e
<1>5. argv' = argv /\ meant' = meant /\ ptr' \in Nat
  BY Zenon DEF Zeroed
<1>6. \A i \in 1 .. k : i < k => Closed(at, i)'
  BY <1>1, <1>4, <1>5, Zenon DEF Closed
<1>7. argv' \in Seq(Nat) /\ Len(argv') <= FINSH_ARG_MAX /\ Len(argv') <= Len(meant')
  BY <1>1, <1>5, Zenon DEF k
<1>8. ptr' \in Nat /\ \A j \in Bytes : j >= ptr' => cmd'[j] = Entered(line, j)
  BY <1>3, <1>5, Zenon
<1>9. \A i \in 1 .. Len(argv') :
        /\ argv'[i] = Body(meant', at, i)
        /\ \A c \in 1 .. Len(meant'[i].text) : cmd'[argv'[i] + c - 1] = meant'[i].text[c]
        /\ i < Len(argv') => Closed(at, i)'
  <2>1. Len(argv') = k
    BY <1>5, Zenon DEF k
  <2>2. \A i \in 1 .. k : argv'[i] = Body(meant', at, i)
    BY <1>1, <1>5, Zenon
  <2>3. \A i \in 1 .. k : \A c \in 1 .. Len(meant'[i].text) :
          cmd'[argv'[i] + c - 1] = meant'[i].text[c]
    BY <1>4, <1>5, Zenon
  <2>4. QED
    BY <1>6, <2>1, <2>2, <2>3, Zenon
<1>10. QED
  BY <1>7, <1>8, <1>9, Zenon DEF Passed

\* One argument more: its first byte is the first one of its word.
LEMMA PassedMore ==
  ASSUME NEW line, NEW at, NEW open, Layout(line, at, open), Passed(line, at),
         Len(argv) < Len(meant), Len(argv) < FINSH_ARG_MAX,
         Len(argv) > 0 => Closed(at, Len(argv)),
         NEW b \in Nat, b = Body(meant, at, Len(argv) + 1), b >= ptr,
         argv' = Append(argv, b), ptr' \in Nat, ptr' >= ptr, cmd' = cmd, meant' = meant
  PROVE  Passed(line, at)' /\ Len(argv') = Len(argv) + 1 /\ argv'[Len(argv) + 1] = b
<1> DEFINE k == Len(argv)
           n == k + 1
           t == meant[n].text
           more == Append(argv, b)
<1>1. /\ argv \in Seq(Nat) /\ ptr \in Nat
      /\ \A j \in Bytes : j >= ptr => cmd[j] = Entered(line, j)
      /\ \A i \in 1 .. k :
           /\ argv[i] = Body(meant, at, i)
           /\ \A c \in 1 .. Len(meant[i].text) : cmd[argv[i] + c - 1] = meant[i].text[c]
           /\ i < k => Closed(at, i)
  BY Zenon DEF Passed
<1>2. k \in Nat /\ Len(meant) \in Nat /\ FINSH_ARG_MAX \in Nat /\ end \in Nat
  BY <1>1, LenProperties, MshAssumption, SMT DEF Layout
<1>3. /\ more \in Seq(Nat) /\ Len(more) = k + 1 /\ more[k + 1] = b
      /\ \A i \in 1 .. k : more[i] = argv[i]
  BY <1>1, AppendProperties
<1> HIDE DEF more
<1>4. n \in 1 .. Len(meant) /\ k + 1 <= FINSH_ARG_MAX /\ k + 1 <= Len(meant)
      /\ \A i \in 1 .. n : (i \in 1 .. k \/ i = n) /\ (i < n => i < k \/ (i = k /\ k > 0))
  BY <1>2, SMT
<1>5. /\ WordLaid(line, meant, Len(meant), at, open, n) /\ BodyEnd(meant, at, n) <= end
      /\ Span(line, meant, at, n)
  BY <1>4, Zenon DEF Layout, WordIn
<1>6. /\ Len(t) \in Nat /\ BodyEnd(meant, at, n) = b + Len(t) /\ b = Body(meant, at, n)
      /\ \A c \in 1 .. Len(t) : line[b + c] = t[c]
  BY <1>5, Zenon DEF WordLaid, Span
<1>7. AsEntered(line, ptr)
  BY <1>1, Zenon DEF AsEntered
<1> HIDE DEF k, t
<1>8. ASSUME NEW c \in 1 .. Len(t) PROVE cmd[b + c - 1] = t[c]
  <2>1. b + c - 1 \in Nat /\ b + c - 1 >= ptr /\ b + c - 1 < end /\ b + c - 1 + 1 = b + c
    BY <1>1, <1>2, <1>5, <1>6, SMT
  <2>2. cmd[b + c - 1] = line[b + c]
    BY <1>7, <2>1, EnteredByte, Zenon
  <2>3. QED
    BY <1>6, <2>2, Zenon
<1>9. argv' = more /\ cmd' = cmd /\ meant' = meant
  BY Zenon DEF more
<1>10. ASSUME NEW i \in 1 .. n
       PROVE  /\ more[i] = Body(meant, at, i)
              /\ \A c \in 1 .. Len(meant[i].text) : cmd[more[i] + c - 1] = meant[i].text[c]
              /\ i < n => Closed(at, i)
  <2>1. CASE i \in 1 .. k
    <3>1. i < n => i < k \/ (i = k /\ k > 0)
      BY <1>4, Zenon
    <3>2. i < n => Closed(at, i)
      BY <1>1, <2>1, <3>1, Zenon DEF k
    <3>3. QED
      BY <1>1, <1>3, <2>1, <3>2, Zenon
  <2>2. CASE i = n
    <3>1. ~(i < n)
      BY <1>2, <2>2, SMT
    <3>2. QED
      BY <1>3, <1>6, <1>8, <2>2, <3>1, Zenon DEF t
  <2>3. QED
    BY <1>4, <2>1, <2>2, Zenon
<1>11. \A i \in 1 .. n : Closed(at, i)' <=> Closed(at, i)
  BY <1>9, Zenon DEF Closed
<1>12. ASSUME NEW j \in Bytes, j >= ptr' PROVE cmd[j] = Entered(line, j)
  <2>1. j >= ptr
    BY <1>1, <1>2, <1>12, SMT DEF Bytes, Layout
  <2>2. QED
    BY <1>1, <2>1, Zenon
<1>13. Len(argv') = n
  BY <1>3, <1>9, Zenon
<1>14. Passed(line, at)'
  <2>1. argv' \in Seq(Nat) /\ Len(argv') <= FINSH_ARG_MAX /\ Len(argv') <= Len(meant')
    BY <1>3, <1>4, <1>9, Zenon
  <2>2. ptr' \in Nat /\ \A j \in Bytes : j >= ptr' => cmd'[j] = Entered(line, j)
    BY <1>9, <1>12, Zenon
  <2>3. \A i \in 1 .. Len(argv') :
          /\ argv'[i] = Body(meant', at, i)
          /\ \A c \in 1 .. Len(meant'[i].text) : cmd'[argv'[i] + c - 1] = meant'[i].text[c]
          /\ i < Len(argv') => Closed(at, i)'
    BY <1>9, <1>10, <1>11, <1>13, Zenon
  <2>4. QED
    BY <2>1, <2>2, <2>3, Zenon DEF Passed
<1>15. QED
  BY <1>3, <1>9, <1>14, Zenon DEF k

-----------------------------------------------------------------------------
\* What every step of msh_split leaves.
LEMMA ReadingKept ==
  ASSUME NEW line, NEW at, NEW open, Reading(line, at, open), pc # "trim",
         meant' = meant, end' = end, start' = start,
         cmd' \in [Bytes -> Characters \cup {NUL}],
         pc' \in {"split", "token", "string", "call"}, Passed(line, at)', AtSplit(at)'
  PROVE  Reading(line, at, open)'
<1>1. pc' \notin {"trim", "search"}
  BY SMT
<1>2. meant' # <<>> /\ start' = at[1]
  BY Zenon DEF Reading
<1>3. /\ meant' \in Seq(Words) /\ end' = Len(line) /\ end' <= LineMax
      /\ LaidOut(line, meant', Len(meant'), at, open)
  BY Zenon DEF Reading
<1>4. QED
  BY <1>1, <1>2, <1>3, Zenon DEF Reading

\* The words passed in msh_split, with the geometry of the line.
Splitting(line, at, open) ==
  /\ Reading(line, at, open) /\ Layout(line, at, open) /\ Passed(line, at) /\ AtSplit(at)
  /\ Len(argv) \in Nat /\ Len(argv) \in 0 .. Len(meant) /\ ptr \in Nat
  /\ AsEntered(line, ptr)
  /\ Stop(meant, at, Len(argv)) \in Nat
  /\ at[Len(argv) + 1] \in Nat /\ at[Len(argv) + 1] <= end
  /\ Len(argv) < Len(meant) <=> at[Len(argv) + 1] < end

\* msh_split is between its words.
LEMMA SplittingIs ==
  ASSUME NEW line, NEW at, NEW open, Reading(line, at, open),
         pc \in {"split", "token", "string", "call"}
  PROVE  Splitting(line, at, open)
<1> DEFINE k == Len(argv)
<1>1. Passed(line, at) /\ AtSplit(at)
  BY Zenon DEF Reading
<1>2. Layout(line, at, open)
  BY LayoutIs, Zenon
<1>3. /\ argv \in Seq(Nat) /\ k <= Len(meant) /\ ptr \in Nat
      /\ \A j \in Bytes : j >= ptr => cmd[j] = Entered(line, j)
  BY <1>1, Zenon DEF Passed
<1>4. k \in Nat /\ Len(meant) \in Nat
  BY <1>2, <1>3, LenProperties, Zenon DEF Layout
<1> HIDE DEF k
<1>5. k \in 0 .. Len(meant) /\ (k = 0 \/ k \in 1 .. Len(meant))
  BY <1>3, <1>4, SMT DEF k
<1>6. Stop(meant, at, k) \in Nat
  <2>1. CASE k = 0
    <3>1. Stop(meant, at, k) = 0
      BY <2>1, Zenon DEF Stop
    <3>2. QED
      BY <3>1, SMT
  <2>2. CASE k \in 1 .. Len(meant)
    BY <1>2, <2>2, Zenon DEF Layout, WordIn, Span
  <2>3. QED
    BY <1>5, <2>1, <2>2
<1>7. at[k + 1] \in Nat /\ at[k + 1] <= end /\ (k < Len(meant) <=> at[k + 1] < end)
  BY <1>2, <1>5, Zenon DEF Layout
<1>8. QED
  BY <1>1, <1>2, <1>3, <1>4, <1>5, <1>6, <1>7, Zenon DEF Splitting, AsEntered, k

\* Blanks are zeroed up to the next word.
LEMMA StripReads ==
  ASSUME NEW line, NEW at, NEW open, Reading(line, at, open), Strip
  PROVE  Reading(line, at, open)'
<1>0. PICK k : k = Len(argv)
  OBVIOUS
<1> DEFINE e == at[k + 1]
           s == Stop(meant, at, k)
           f == BodyEnd(meant, at, k)
<1>1. /\ pc = "split" /\ ptr < end /\ ptr' = AfterBlanks(ptr)
      /\ cmd' = [i \in Bytes |-> IF i \in ptr .. ptr' - 1 THEN NUL ELSE cmd[i]]
      /\ pc' = IF k >= FINSH_ARG_MAX \/ ptr' >= end THEN "call" ELSE "token"
      /\ meant' = meant /\ end' = end /\ start' = start /\ argv' = argv
  BY <1>0, Zenon DEF Strip, typed
<1>2. Splitting(line, at, open)
  BY <1>1, SplittingIs, Zenon
<1>3. /\ Layout(line, at, open) /\ Passed(line, at) /\ AtSplit(at)
      /\ k \in Nat /\ k \in 0 .. Len(meant) /\ ptr \in Nat /\ AsEntered(line, ptr)
      /\ s \in Nat /\ e \in Nat /\ e <= end /\ (k < Len(meant) <=> e < end)
      /\ k <= FINSH_ARG_MAX
  BY <1>0, <1>2, Zenon DEF Splitting, Passed
<1>4. s <= ptr /\ ptr <= e /\ (k > 0 => Closed(at, k) \/ ptr = f)
  BY <1>0, <1>1, <1>3, Zenon DEF AtSplit
<1>5. /\ Len(meant) \in Nat /\ end \in Nat /\ end <= LineMax /\ LineMax \in Nat
      /\ cmd \in [Bytes -> Characters \cup {NUL}] /\ FINSH_ARG_MAX \in Nat
  BY <1>3, MshAssumption, SMT DEF Layout
<1>6. ptr' = e
  BY <1>1, <1>3, <1>4, NextWord, Zenon
<1>7. k > 0 => /\ k \in 1 .. Len(meant) /\ f \in Nat /\ f <= s /\ f <= end
               /\ s = f + (IF meant[k].quoted THEN 1 ELSE 0)
               /\ ~meant[k].quoted => f = end \/ f < e
  <2> SUFFICES ASSUME k > 0
               PROVE  /\ k \in 1 .. Len(meant) /\ f \in Nat /\ f <= s /\ f <= end
                      /\ s = f + (IF meant[k].quoted THEN 1 ELSE 0)
                      /\ ~meant[k].quoted => f = end \/ f < e
    OBVIOUS
  <2>1. k \in 1 .. Len(meant)
    BY <1>3, <1>5, SMT
  <2>2. WordIn(line, at, open, k)
    BY <1>3, <2>1, Zenon DEF Layout
  <2>3. /\ f \in Nat /\ f <= end /\ s = f + (IF meant[k].quoted THEN 1 ELSE 0)
        /\ ~meant[k].quoted => f = end \/ f < e
    BY <2>2, Zenon DEF WordIn, Span
  <2> HIDE DEF f, s, e
  <2>4. f <= s
    BY <2>3, SMT
  <2>5. QED
    BY <2>1, <2>3, <2>4
<1> HIDE DEF e, s, f
<1>8. k > 0 => f <= ptr
  BY <1>3, <1>4, <1>7, SMT
<1>9. \A i \in 1 .. k : BodyEnd(meant, at, i) <= ptr
  BY <1>3, <1>8, Behind, Zenon DEF f
<1>10. Zeroed(ptr)
  <2>1. ptr' \in Nat /\ ptr <= ptr'
    BY <1>3, <1>4, <1>6, Zenon
  <2>2. \A j \in ptr .. ptr' - 1 : ptr <= j /\ j < ptr'
    <3>1. \A x, y \in Nat : \A j \in x .. y - 1 : x <= j /\ j < y
      BY SMT
    <3>2. QED
      BY <1>3, <2>1, <3>1, Zenon
  <2>3. \A j \in Bytes : cmd'[j] = cmd[j] \/ (cmd'[j] = NUL /\ ptr <= j /\ j < ptr')
    BY <1>1, <2>2, Zenon
  <2>4. QED
    BY <2>1, <2>3, Zenon DEF Zeroed
<1>11. Passed(line, at)'
  BY <1>0, <1>1, <1>3, <1>9, <1>10, PassedKept, Zenon
<1>12. cmd' \in [Bytes -> Characters \cup {NUL}]
  <2>1. \A i \in Bytes : cmd[i] \in Characters \cup {NUL}
    BY <1>5, Zenon
  <2>2. QED
    BY <1>1, <2>1, Zenon
<1>13. k > 0 => Closed(at, k)'
  <2> SUFFICES ASSUME k > 0 PROVE cmd'[f] = NUL
    BY <1>1, Zenon DEF Closed, f
  <2>1. f \in Bytes
    BY <1>5, <1>7, SMT DEF Bytes
  <2>2. CASE Closed(at, k)
    BY <1>1, <2>1, <2>2, Zenon DEF Closed, f
  <2>3. CASE ~Closed(at, k)
    <3>1. ptr = f
      BY <1>4, <2>3, Zenon
    <3>2. ~meant[k].quoted
      <4>1. meant[k].quoted => s = f + 1
        BY <1>7, Zenon
      <4>2. QED
        BY <1>3, <1>4, <1>7, <3>1, <4>1, SMT
    <3>3. f < e
      BY <1>1, <1>5, <1>7, <3>1, <3>2, SMT
    <3>4. f \in ptr .. ptr' - 1
      BY <1>3, <1>6, <1>7, <3>1, <3>3, SMT
    <3>5. QED
      BY <1>1, <2>1, <3>4, Zenon
  <2>4. QED
    BY <2>2, <2>3
<1>14. Len(argv') = k
  BY <1>0, <1>1, Zenon
<1>15. CASE k >= FINSH_ARG_MAX \/ e >= end
  <2>1. pc' = "call"
    BY <1>1, <1>6, <1>15, Zenon
  <2>2. k = FINSH_ARG_MAX \/ k = Len(meant)
    BY <1>3, <1>5, <1>15, SMT
  <2>3. AtSplit(at)'
    BY <1>1, <1>13, <1>14, <2>1, <2>2, Zenon DEF AtSplit
  <2>4. QED
    BY <1>1, <1>11, <1>12, <2>1, <2>3, ReadingKept, Zenon
<1>16. CASE ~(k >= FINSH_ARG_MAX \/ e >= end)
  <2>1. pc' = "token"
    BY <1>1, <1>6, <1>16, Zenon
  <2>2. k < FINSH_ARG_MAX /\ k < Len(meant)
    BY <1>3, <1>5, <1>16, SMT
  <2>3. AtSplit(at)'
    BY <1>1, <1>6, <1>13, <1>14, <2>1, <2>2, Zenon DEF AtSplit, e
  <2>4. QED
    BY <1>1, <1>11, <1>12, <2>1, <2>3, ReadingKept, Zenon
<1>17. QED
  BY <1>15, <1>16

\* Behind the last word the arguments are complete.
LEMMA SplitEndReads ==
  ASSUME NEW line, NEW at, NEW open, Reading(line, at, open), SplitEnd
  PROVE  Reading(line, at, open)'
<1>0. PICK k : k = Len(argv)
  OBVIOUS
<1>1. /\ pc = "split" /\ ptr >= end /\ pc' = "call"
      /\ meant' = meant /\ end' = end /\ start' = start
      /\ cmd' = cmd /\ ptr' = ptr /\ argv' = argv
  BY Zenon DEF SplitEnd, typed, split
<1>2. Splitting(line, at, open)
  BY <1>1, SplittingIs, Zenon
<1>3. /\ Layout(line, at, open) /\ Passed(line, at) /\ AtSplit(at)
      /\ k \in Nat /\ k \in 0 .. Len(meant) /\ ptr \in Nat /\ AsEntered(line, ptr)
      /\ at[k + 1] \in Nat /\ at[k + 1] <= end /\ (k < Len(meant) <=> at[k + 1] < end)
  BY <1>0, <1>2, Zenon DEF Splitting
<1>4. ptr <= at[k + 1] /\ (k > 0 => Closed(at, k) \/ ptr = BodyEnd(meant, at, k))
  BY <1>0, <1>1, <1>3, Zenon DEF AtSplit
<1>5. /\ Len(meant) \in Nat /\ end \in Nat /\ end <= LineMax /\ LineMax \in Nat /\ end = Len(line)
      /\ cmd \in [Bytes -> Characters \cup {NUL}]
  BY <1>3, Zenon DEF Layout
<1>6. ptr = end /\ k = Len(meant) /\ end \in Bytes /\ ~(end < end) /\ end >= ptr
  BY <1>1, <1>3, <1>4, <1>5, SMT DEF Bytes
<1>7. cmd[end] = NUL
  BY <1>3, <1>5, <1>6, Zenon DEF AsEntered, Entered
<1>8. k > 0 => Closed(at, k)
  BY <1>4, <1>6, <1>7, Zenon DEF Closed
<1>9. Passed(line, at)'
  BY <1>1, <1>3, Zenon DEF Passed, Closed
<1>10. AtSplit(at)'
  <2>1. k > 0 => Closed(at, k)'
    BY <1>1, <1>8, Zenon DEF Closed
  <2>2. Len(argv') = k
    BY <1>0, <1>1, Zenon
  <2>3. QED
    BY <1>1, <1>6, <2>1, <2>2, Zenon DEF AtSplit
<1>11. QED
  BY <1>1, <1>5, <1>9, <1>10, ReadingKept, Zenon

\* In front of a word.
AtWord(line, at, open, k) ==
  /\ Layout(line, at, open) /\ Passed(line, at)
  /\ k = Len(argv) /\ k \in Nat /\ Len(meant) \in Nat /\ k + 1 \in 1 .. Len(meant)
  /\ k < Len(meant) /\ k < FINSH_ARG_MAX /\ ptr = at[k + 1] /\ ptr \in Nat
  /\ (k > 0 => Closed(at, k))
  /\ AsEntered(line, at[k + 1])
  /\ WordIn(line, at, open, k + 1) /\ Span(line, meant, at, k + 1)
  /\ (cmd[ptr] = Quote <=> meant[k + 1].quoted)
  /\ cmd \in [Bytes -> Characters \cup {NUL}]

\* In front of a word the byte tells whether it is quoted.
LEMMA AtWordIs ==
  ASSUME NEW line, NEW at, NEW open, Reading(line, at, open), pc = "token"
  PROVE  AtWord(line, at, open, Len(argv))
<1>0. PICK k : k = Len(argv)
  OBVIOUS
<1>1. Splitting(line, at, open)
  BY SplittingIs, Zenon
<1>2. /\ Layout(line, at, open) /\ Passed(line, at) /\ AtSplit(at)
      /\ k \in Nat /\ ptr \in Nat /\ AsEntered(line, ptr) /\ at[k + 1] < end
      /\ k < Len(meant) /\ k < FINSH_ARG_MAX /\ ptr = at[k + 1] /\ (k > 0 => Closed(at, k))
  BY <1>0, <1>1, Zenon DEF Splitting, AtSplit
<1>3. Len(meant) \in Nat /\ cmd \in [Bytes -> Characters \cup {NUL}]
  BY <1>2, Zenon DEF Layout
<1>4. k + 1 \in 1 .. Len(meant)
  BY <1>2, <1>3, SMT
<1>5. WordIn(line, at, open, k + 1) /\ Span(line, meant, at, k + 1)
  BY <1>2, <1>4, Zenon DEF Layout, WordIn
<1>6. cmd[ptr] = line[at[k + 1] + 1]
  <2>1. ptr >= ptr /\ ptr < end
    BY <1>2, SMT
  <2>2. cmd[ptr] = line[ptr + 1]
    BY <1>2, <2>1, EnteredByte, Zenon
  <2>3. QED
    BY <1>2, <2>2, Zenon
<1>7. cmd[ptr] = Quote <=> meant[k + 1].quoted
  <2>1. ASSUME NEW i \in 1 .. Len(meant), i = k + 1
        PROVE  line[at[i] + 1] = Quote <=> meant[i].quoted
    BY <1>2, WordStarts, Zenon
  <2>2. QED
    BY <1>4, <1>6, <2>1, Zenon
<1>8. AtWord(line, at, open, k)
  BY <1>0, <1>2, <1>3, <1>4, <1>5, <1>7, Zenon DEF AtWord
<1>9. QED
  BY <1>0, <1>8, Zenon

\* A word without quotes becomes an argument and is passed at once.
LEMMA PlainTokenReads ==
  ASSUME NEW line, NEW at, NEW open, Reading(line, at, open), PlainToken
  PROVE  Reading(line, at, open)'
<1>0. PICK k : k = Len(argv)
  OBVIOUS
<1> DEFINE n == k + 1
           e == BodyEnd(meant, at, n)
<1>1. /\ pc = "token" /\ cmd[ptr] # Quote /\ argv' = Append(argv, ptr)
      /\ ptr' = BlankFrom(ptr) /\ pc' = "split"
      /\ meant' = meant /\ end' = end /\ start' = start /\ cmd' = cmd
  BY Zenon DEF PlainToken, typed
<1>2. AtWord(line, at, open, k)
  BY <1>0, <1>1, AtWordIs, Zenon
<1>3. /\ Layout(line, at, open) /\ Passed(line, at)
      /\ k \in Nat /\ Len(meant) \in Nat /\ n \in 1 .. Len(meant)
      /\ k < Len(meant) /\ k < FINSH_ARG_MAX /\ ptr = at[n] /\ ptr \in Nat
      /\ (k > 0 => Closed(at, k))
      /\ AsEntered(line, at[n])
      /\ WordIn(line, at, open, n) /\ Span(line, meant, at, n)
      /\ ~meant[n].quoted
      /\ cmd \in [Bytes -> Characters \cup {NUL}]
  BY <1>1, <1>2, Zenon DEF AtWord
<1> HIDE DEF n
<1>4. PlainWord(at, n)
  BY <1>3, WordLength, Zenon
<1>5. /\ ptr' = e /\ Body(meant, at, n) = ptr /\ Stop(meant, at, n) = e
      /\ e \in Nat /\ e <= at[n + 1] /\ e = ptr + Len(meant[n].text)
      /\ Len(meant[n].text) \in Nat
  BY <1>1, <1>3, <1>4, Zenon DEF PlainWord, WordIn, Span
<1> HIDE DEF e
<1>6. ptr' \in Nat /\ ptr' >= ptr /\ ptr >= ptr /\ e <= e
  BY <1>3, <1>5, SMT
<1>7. Passed(line, at)' /\ Len(argv') = Len(argv) + 1
  <2>1. Len(argv) < Len(meant) /\ Len(argv) < FINSH_ARG_MAX
        /\ (Len(argv) > 0 => Closed(at, Len(argv)))
        /\ ptr = Body(meant, at, Len(argv) + 1)
    BY <1>0, <1>3, <1>5, Zenon DEF n
  <2>2. QED
    BY <1>1, <1>3, <1>6, <2>1, PassedMore, Zenon
<1>8. Len(argv') = n
  BY <1>0, <1>7, Zenon DEF n
<1>9. AtSplit(at)'
  <2>1. Stop(meant', at, n) <= ptr' /\ ptr' <= at[n + 1] /\ ptr' = BodyEnd(meant', at, n)
    BY <1>1, <1>5, <1>6, Zenon DEF e
  <2>2. QED
    BY <1>1, <1>8, <2>1, Zenon DEF AtSplit
<1>10. QED
  BY <1>1, <1>3, <1>7, <1>9, ReadingKept, Zenon

\* The argument of a quoted word begins behind the quote.
LEMMA QuotedTokenReads ==
  ASSUME NEW line, NEW at, NEW open, Reading(line, at, open), QuotedToken
  PROVE  Reading(line, at, open)'
<1>0. PICK k : k = Len(argv)
  OBVIOUS
<1> DEFINE n == k + 1
           e == BodyEnd(meant, at, n)
           t == meant[n].text
<1>1. /\ pc = "token" /\ cmd[ptr] = Quote /\ argv' = Append(argv, ptr + 1)
      /\ ptr' = ptr + 1 /\ pc' = "string"
      /\ meant' = meant /\ end' = end /\ start' = start /\ cmd' = cmd
  BY Zenon DEF QuotedToken, typed
<1>2. AtWord(line, at, open, k)
  BY <1>0, <1>1, AtWordIs, Zenon
<1>3. /\ Layout(line, at, open) /\ Passed(line, at)
      /\ k \in Nat /\ Len(meant) \in Nat /\ n \in 1 .. Len(meant)
      /\ k < Len(meant) /\ k < FINSH_ARG_MAX /\ ptr = at[n] /\ ptr \in Nat
      /\ (k > 0 => Closed(at, k))
      /\ WordIn(line, at, open, n) /\ Span(line, meant, at, n)
      /\ meant[n].quoted
      /\ cmd \in [Bytes -> Characters \cup {NUL}]
  BY <1>1, <1>2, Zenon DEF AtWord
<1>4. n > 0
  BY <1>3, SMT
<1> HIDE DEF n
<1>5. /\ Body(meant, at, n) = ptr + 1 /\ e = Body(meant, at, n) + Len(t) /\ Len(t) \in Nat
      /\ meant[n] \in Words
  BY <1>3, Zenon DEF WordIn, Span
<1>6. t \in Seq(Characters) /\ \A i \in DOMAIN t : t[i] = Quote => i > 1 /\ t[i - 1] = Backslash
  BY <1>3, <1>5, MshAssumption, Zenon
<1>7. DOMAIN t = 1 .. Len(t)
  BY <1>6, LenProperties, Zenon
<1> HIDE DEF e, t
<1>8. /\ ptr + 1 \in Nat /\ ptr + 1 >= ptr /\ ptr + 1 <= ptr + 1 /\ ptr + 1 <= e
      /\ (ptr + 1) - (ptr + 1) + 1 = 1
      /\ (ptr + 1 < e => 1 \in 1 .. Len(t)) /\ ~(1 > 1)
  BY <1>3, <1>5, SMT
<1>9. ptr + 1 < e => t[1] # Quote
  BY <1>6, <1>7, <1>8, Zenon
<1>10. Passed(line, at)' /\ Len(argv') = Len(argv) + 1 /\ argv'[Len(argv) + 1] = ptr + 1
  <2>1. Len(argv) < Len(meant) /\ Len(argv) < FINSH_ARG_MAX
        /\ (Len(argv) > 0 => Closed(at, Len(argv)))
        /\ ptr + 1 = Body(meant, at, Len(argv) + 1)
    BY <1>0, <1>3, <1>5, Zenon DEF n
  <2>2. ptr' \in Nat /\ ptr' >= ptr
    BY <1>1, <1>8, Zenon
  <2>3. QED
    BY <1>1, <1>3, <1>8, <2>1, <2>2, PassedMore, Zenon
<1>11. Len(argv') = n /\ argv'[n] = ptr + 1
  BY <1>0, <1>10, Zenon DEF n
<1>12. AtSplit(at)'
  <2>1. argv'[n] <= ptr' /\ ptr' <= BodyEnd(meant', at, n) /\ n > 0 /\ meant'[n].quoted
    BY <1>1, <1>3, <1>4, <1>8, <1>11, Zenon DEF e
  <2>2. ptr' - argv'[n] + 1 = 1
    BY <1>1, <1>8, <1>11, Zenon
  <2>3. ptr' < BodyEnd(meant', at, n) => meant'[n].text[ptr' - argv'[n] + 1] # Quote
    BY <1>1, <1>9, <2>2, Zenon DEF e, t
  <2>4. QED
    BY <1>1, <1>11, <2>1, <2>3, Zenon DEF AtSplit
<1>13. QED
  BY <1>1, <1>3, <1>10, <1>12, ReadingKept, Zenon

\* In a quoted word; its text goes on from the byte it is at.
AtString(line, at, open, k) ==
  LET a == Body(meant, at, k)
      e == BodyEnd(meant, at, k)
      t == meant[k].text
  IN /\ Layout(line, at, open) /\ Passed(line, at)
     /\ k = Len(argv) /\ k \in 1 .. Len(meant) /\ k \in Nat /\ k > 0
     /\ meant[k] \in Words /\ meant[k].quoted /\ argv[k] = a
     /\ a \in Nat /\ e \in Nat /\ Len(t) \in Nat /\ e = a + Len(t) /\ e <= end
     /\ Stop(meant, at, k) = e + 1
     /\ ptr \in Nat /\ a <= ptr /\ ptr <= e
     /\ (ptr < e => t[ptr - a + 1] # Quote)
     /\ (e = end => k = Len(meant)) /\ (e < end => cmd[e] = Quote)
     /\ \A c \in 1 .. Len(t) : cmd[a + c - 1] = t[c]
     /\ cmd \in [Bytes -> Characters \cup {NUL}]
     /\ end \in Nat /\ end <= LineMax /\ LineMax \in Nat /\ Len(meant) \in Nat
     /\ AsEntered(line, ptr) /\ end = Len(line)

LEMMA AtStringIs ==
  ASSUME NEW line, NEW at, NEW open, Reading(line, at, open), pc = "string"
  PROVE  AtString(line, at, open, Len(argv))
<1>0. PICK k : k = Len(argv)
  OBVIOUS
<1> DEFINE a == Body(meant, at, k)
           e == BodyEnd(meant, at, k)
           t == meant[k].text
<1>1. Splitting(line, at, open)
  BY SplittingIs, Zenon
<1>2. /\ Layout(line, at, open) /\ Passed(line, at) /\ k \in Nat
      /\ ptr \in Nat /\ AsEntered(line, ptr) /\ k > 0 /\ meant[k].quoted
      /\ argv[k] <= ptr /\ ptr <= e /\ (ptr < e => t[ptr - argv[k] + 1] # Quote)
      /\ k \in 0 .. Len(meant)
  BY <1>0, <1>1, Zenon DEF Splitting, AtSplit
<1>3. /\ end \in Nat /\ end <= LineMax /\ LineMax \in Nat /\ Len(meant) \in Nat /\ end = Len(line)
      /\ cmd \in [Bytes -> Characters \cup {NUL}]
  BY <1>2, Zenon DEF Layout
<1>4. k \in 1 .. Len(meant) /\ k \in 1 .. k
  BY <1>2, <1>3, SMT
<1>5. WordIn(line, at, open, k)
  BY <1>2, <1>4, Zenon DEF Layout
<1>6. /\ meant[k] \in Words /\ a \in Nat /\ e \in Nat /\ Len(t) \in Nat /\ e = a + Len(t)
      /\ e <= end /\ Stop(meant, at, k) = e + 1
  BY <1>2, <1>5, Zenon DEF WordIn, Span
<1>7. argv[k] = a /\ \A c \in 1 .. Len(t) : cmd[a + c - 1] = t[c]
  <2>1. k \in 1 .. Len(argv)
    BY <1>0, <1>4, Zenon
  <2>2. /\ argv[k] = a
        /\ \A c \in 1 .. Len(t) : cmd[argv[k] + c - 1] = t[c]
    BY <1>2, <2>1, Zenon DEF Passed
  <2>3. QED
    BY <2>2, Zenon
<1>8. IF open /\ k = Len(meant) THEN e = Len(line) ELSE e < Len(line) /\ line[e + 1] = Quote
  BY <1>2, <1>5, Zenon DEF WordIn, WordLaid
<1>9. ~(end < end)
  BY <1>3, SMT
<1>10. e = end => k = Len(meant)
  BY <1>3, <1>8, <1>9, Zenon
<1>11. e < end => cmd[e] = Quote
  <2> SUFFICES ASSUME e < end PROVE cmd[e] = Quote
    OBVIOUS
  <2>1. e # end
    BY <1>9, Zenon
  <2>2. line[e + 1] = Quote
    BY <1>3, <1>8, <2>1, Zenon
  <2> HIDE DEF e
  <2>3. e >= ptr
    BY <1>2, <1>6, SMT
  <2>4. cmd[e] = line[e + 1]
    BY <1>2, <1>6, <2>3, EnteredByte, Zenon
  <2>5. QED
    BY <2>2, <2>4, Zenon
<1>12. a <= ptr /\ (ptr < e => t[ptr - a + 1] # Quote)
  BY <1>2, <1>7, Zenon
<1>13. AtString(line, at, open, k)
  BY <1>0, <1>2, <1>3, <1>4, <1>6, <1>7, <1>10, <1>11, <1>12, Zenon DEF AtString
<1>14. QED
  BY <1>0, <1>13, Zenon

\* An escaped quote is passed with its backslash, so that none is met inside.
LEMMA StringCharReads ==
  ASSUME NEW line, NEW at, NEW open, Reading(line, at, open), StringChar
  PROVE  Reading(line, at, open)'
<1>0. PICK k : k = Len(argv)
  OBVIOUS
<1> DEFINE a == Body(meant, at, k)
           e == BodyEnd(meant, at, k)
           t == meant[k].text
           c == ptr - a + 1
<1>1. /\ pc = "string" /\ cmd[ptr] # Quote /\ ptr < end
      /\ ptr' = IF cmd[ptr] = Backslash /\ cmd[ptr + 1] = Quote THEN ptr + 2 ELSE ptr + 1
      /\ meant' = meant /\ end' = end /\ start' = start /\ cmd' = cmd /\ pc' = pc /\ argv' = argv
  BY Zenon DEF StringChar, typed
<1>2. AtString(line, at, open, k)
  BY <1>0, <1>1, AtStringIs, Zenon
<1>3. /\ Layout(line, at, open) /\ Passed(line, at)
      /\ k = Len(argv) /\ k \in 1 .. Len(meant) /\ k \in Nat /\ k > 0
      /\ meant[k] \in Words /\ meant[k].quoted /\ argv[k] = a
      /\ a \in Nat /\ e \in Nat /\ Len(t) \in Nat /\ e = a + Len(t) /\ e <= end
      /\ ptr \in Nat /\ a <= ptr /\ ptr <= e
      /\ (ptr < e => t[c] # Quote)
      /\ (e < end => cmd[e] = Quote)
      /\ \A i \in 1 .. Len(t) : cmd[a + i - 1] = t[i]
      /\ cmd \in [Bytes -> Characters \cup {NUL}]
      /\ end \in Nat
  BY <1>2, Zenon DEF AtString
<1>4. /\ t \in Seq(Characters) /\ \A i \in DOMAIN t : t[i] = Quote => i > 1 /\ t[i - 1] = Backslash
      /\ t # <<>> => Last(t) # Backslash
  BY <1>3, MshAssumption, Zenon
<1>5. DOMAIN t = 1 .. Len(t)
  BY <1>4, LenProperties, Zenon
<1> HIDE DEF a, e, t
<1>6. ptr < e
  <2>1. ptr # e
    BY <1>1, <1>3, Zenon
  <2>2. QED
    BY <1>3, <2>1, SMT
<1>7. /\ c \in 1 .. Len(t) /\ a + c - 1 = ptr /\ c \in Nat
      /\ a + (c + 1) - 1 = ptr + 1 /\ (c + 1) - 1 = c /\ (c + 2) - 1 = c + 1
      /\ (ptr + 1) - a + 1 = c + 1 /\ (ptr + 2) - a + 1 = c + 2
      /\ c = Len(t) \/ c + 1 \in 1 .. Len(t)
      /\ (ptr + 1 < e => c + 1 \in 1 .. Len(t))
      /\ (ptr + 2 < e => c + 2 \in 1 .. Len(t))
      /\ (c + 1 \in 1 .. Len(t) => ptr + 2 <= e)
      /\ ptr + 1 <= e /\ ptr <= ptr + 1 /\ ptr <= ptr + 2 /\ ptr + 1 \in Nat /\ ptr + 2 \in Nat
      /\ a <= ptr + 1 /\ a <= ptr + 2
  BY <1>3, <1>6, SMT
<1> HIDE DEF c
<1>8. cmd[ptr] = t[c]
  BY <1>3, <1>7, Zenon
<1>9. c + 1 \in 1 .. Len(t) => cmd[ptr + 1] = t[c + 1]
  BY <1>3, <1>7, Zenon
\* The backslash before a quote of the text.
<1>10. ASSUME NEW i \in 1 .. Len(t), NEW j, i - 1 = j, t[i] = Quote PROVE t[j] = Backslash
  BY <1>4, <1>5, <1>10, Zenon
<1>11. c + 1 \in 1 .. Len(t) /\ t[c + 1] = Quote => t[c] = Backslash
  BY <1>7, <1>10, Zenon
<1>12. c + 2 \in 1 .. Len(t) /\ t[c + 2] = Quote => t[c + 1] = Backslash
  BY <1>7, <1>10, Zenon
<1>13. /\ ptr' \in Nat /\ ptr <= ptr' /\ a <= ptr' /\ ptr' <= e
       /\ ptr' < e => t[ptr' - a + 1] # Quote
  <2>1. CASE cmd[ptr] = Backslash /\ cmd[ptr + 1] = Quote
    <3>1. ptr' = ptr + 2
      BY <1>1, <2>1, Zenon
    <3>2. c # Len(t)
      <4>1. t # <<>>
        <5>1. Len(t) # 0
          BY <1>3, <1>7, SMT
        <5>2. QED
          BY <5>1, EmptySeq, Zenon
      <4>2. QED
        BY <1>4, <1>8, <2>1, <4>1, Zenon DEF Last
    <3>3. c + 1 \in 1 .. Len(t)
      BY <1>7, <3>2, Zenon
    <3>4. t[c + 1] = Quote /\ Quote # Backslash
      BY <1>9, <2>1, <3>3, Bytewise, Zenon
    <3>5. ptr + 2 < e => t[c + 2] # Quote
      BY <1>7, <1>12, <3>4, Zenon
    <3>6. QED
      BY <1>7, <3>1, <3>3, <3>5, Zenon
  <2>2. CASE ~(cmd[ptr] = Backslash /\ cmd[ptr + 1] = Quote)
    <3>1. ptr' = ptr + 1
      BY <1>1, <2>2, Zenon
    <3>2. ptr + 1 < e => t[c + 1] # Quote
      BY <1>7, <1>8, <1>9, <1>11, <2>2, Zenon
    <3>3. QED
      BY <1>7, <3>1, <3>2, Zenon
  <2>3. QED
    BY <2>1, <2>2
<1>14. Passed(line, at)'
  <2>1. Zeroed(ptr)
    BY <1>1, <1>13, Zenon DEF Zeroed
  <2>2. e <= e
    BY <1>3, SMT
  <2>3. \A i \in 1 .. k : BodyEnd(meant, at, i) <= e
    <3>1. k \in 0 .. Len(meant)
      BY <1>3, SMT
    <3>2. QED
      BY <1>3, <2>2, <3>1, Behind, Zenon DEF e
  <2>4. Zeroed(e)
    BY <1>1, <2>1, Zenon DEF Zeroed
  <2>5. QED
    BY <1>1, <1>3, <2>3, <2>4, PassedKept, Zenon
<1>15. AtSplit(at)'
  <2>1. Len(argv') = k /\ argv'[k] = a /\ pc' = "string"
    BY <1>1, <1>3, Zenon
  <2>2. ptr' - argv'[k] + 1 = ptr' - a + 1
    BY <2>1, Zenon
  <2>3. argv'[k] <= ptr' /\ ptr' <= BodyEnd(meant', at, k) /\ meant'[k].quoted
    BY <1>1, <1>3, <1>13, <2>1, Zenon DEF e
  <2>4. ptr' < BodyEnd(meant', at, k) => meant'[k].text[ptr' - argv'[k] + 1] # Quote
    BY <1>1, <1>13, <2>2, Zenon DEF e, t
  <2>5. QED
    BY <1>3, <2>1, <2>3, <2>4, Zenon DEF AtSplit
<1>16. QED
  <2>1. pc # "trim" /\ pc' \in {"split", "token", "string", "call"}
    BY <1>1, SMT
  <2>2. cmd' \in [Bytes -> Characters \cup {NUL}]
    BY <1>1, <1>3, Zenon
  <2>3. QED
    BY <1>1, <1>14, <1>15, <2>1, <2>2, ReadingKept, Zenon

\* The closing quote becomes the zero; at the end there is one already.
LEMMA StringEndReads ==
  ASSUME NEW line, NEW at, NEW open, Reading(line, at, open), StringEnd
  PROVE  Reading(line, at, open)'
<1>0. PICK k : k = Len(argv)
  OBVIOUS
<1> DEFINE a == Body(meant, at, k)
           e == BodyEnd(meant, at, k)
           t == meant[k].text
<1>1. /\ pc = "string" /\ (cmd[ptr] = Quote \/ ptr >= end)
      /\ IF ptr >= end
         THEN pc' = "call" /\ UNCHANGED <<cmd, ptr>>
         ELSE pc' = "split" /\ cmd' = [cmd EXCEPT ![ptr] = NUL] /\ ptr' = ptr + 1
      /\ meant' = meant /\ end' = end /\ start' = start /\ argv' = argv
  BY Zenon DEF StringEnd, typed
<1>2. AtString(line, at, open, k)
  BY <1>0, <1>1, AtStringIs, Zenon
<1>3. /\ Layout(line, at, open) /\ Passed(line, at)
      /\ k = Len(argv) /\ k \in 1 .. Len(meant) /\ k \in Nat /\ k > 0
      /\ a \in Nat /\ e \in Nat /\ Len(t) \in Nat /\ e = a + Len(t) /\ e <= end
      /\ Stop(meant, at, k) = e + 1
      /\ ptr \in Nat /\ a <= ptr /\ ptr <= e
      /\ (ptr < e => t[ptr - a + 1] # Quote)
      /\ (e = end => k = Len(meant))
      /\ \A i \in 1 .. Len(t) : cmd[a + i - 1] = t[i]
      /\ cmd \in [Bytes -> Characters \cup {NUL}]
      /\ end \in Nat /\ end <= LineMax /\ LineMax \in Nat /\ Len(meant) \in Nat
      /\ AsEntered(line, ptr) /\ end = Len(line)
  BY <1>2, Zenon DEF AtString
<1> HIDE DEF a, e, t
<1>4. CASE ptr >= end
  <2>1. pc' = "call" /\ cmd' = cmd /\ ptr' = ptr
    BY <1>1, <1>4, Zenon
  <2>2. ptr = end /\ e = end /\ end \in Bytes /\ end >= ptr /\ ~(end < end)
    BY <1>3, <1>4, SMT DEF Bytes
  <2>3. cmd[end] = NUL
    BY <1>3, <2>2, Zenon DEF AsEntered, Entered
  <2>4. Closed(at, k)'
    BY <1>1, <2>1, <2>2, <2>3, Zenon DEF Closed, e
  <2>5. Passed(line, at)'
    BY <1>1, <1>3, <2>1, Zenon DEF Passed, Closed
  <2>6. AtSplit(at)'
    <3>1. Len(argv') = k /\ k = Len(meant')
      BY <1>1, <1>3, <2>2, Zenon
    <3>2. QED
      BY <2>1, <2>4, <3>1, Zenon DEF AtSplit
  <2>7. cmd' \in [Bytes -> Characters \cup {NUL}]
    BY <1>3, <2>1, Zenon
  <2>8. QED
    BY <1>1, <2>1, <2>5, <2>6, <2>7, ReadingKept, Zenon
<1>5. CASE ~(ptr >= end)
  <2>1. pc' = "split" /\ cmd' = [cmd EXCEPT ![ptr] = NUL] /\ ptr' = ptr + 1 /\ cmd[ptr] = Quote
    BY <1>1, <1>5, Zenon
  <2>2. ptr = e
    <3>1. SUFFICES ASSUME ptr # e PROVE FALSE
      OBVIOUS
    <3>2. ptr < e /\ ptr - a + 1 \in 1 .. Len(t) /\ a + (ptr - a + 1) - 1 = ptr
      BY <1>3, <3>1, SMT
    <3>3. cmd[ptr] = t[ptr - a + 1]
      BY <1>3, <3>2, Zenon
    <3>4. QED
      BY <1>3, <2>1, <3>2, <3>3, Zenon
  <2>3. ptr \in Bytes /\ ptr < end /\ e + 1 \in Nat /\ ptr' = e + 1 /\ ptr <= ptr' /\ e <= e
        /\ e < ptr' /\ e + 1 <= ptr' /\ k \in 0 .. Len(meant)
    BY <1>3, <1>5, <2>1, <2>2, SMT DEF Bytes
  <2>4. cmd'[e] = NUL /\ \A j \in Bytes : j # e => cmd'[j] = cmd[j]
    BY <1>3, <2>1, <2>2, <2>3, Zenon
  <2>5. Zeroed(e)
    <3>1. ptr' \in Nat
      BY <2>3, Zenon
    <3>2. QED
      BY <2>3, <2>4, <3>1, Zenon DEF Zeroed
  <2>6. \A i \in 1 .. k : BodyEnd(meant, at, i) <= e
    BY <1>3, <2>3, Behind, Zenon DEF e
  <2>7. Passed(line, at)'
    BY <1>1, <1>3, <2>5, <2>6, PassedKept, Zenon
  <2>8. Closed(at, k)'
    BY <1>1, <2>4, Zenon DEF Closed, e
  <2>9. Stop(meant, at, k) <= ptr' /\ ptr' <= at[k + 1]
    <3>1. at[k + 1] \in Nat /\ (k < Len(meant) <=> at[k + 1] < end) /\ at[Len(meant) + 1] = end
      BY <1>3, <2>3, Zenon DEF Layout
    <3>2. CASE k = Len(meant)
      <4>1. at[k + 1] = end
        BY <3>1, <3>2, Zenon
      <4>2. QED
        BY <1>3, <2>2, <2>3, <4>1, SMT
    <3>3. CASE k # Len(meant)
      <4>1. k + 1 \in 1 .. Len(meant) /\ k < k + 1
        BY <1>3, <3>3, SMT
      <4>2. Stop(meant, at, k) <= at[k + 1]
        BY <1>3, <4>1, Zenon DEF Layout, WordIn
      <4>3. QED
        BY <1>3, <2>3, <4>2, Zenon
    <3>4. QED
      BY <3>2, <3>3
  <2>10. AtSplit(at)'
    <3>1. Len(argv') = k /\ Stop(meant', at, k) <= ptr'
      BY <1>1, <1>3, <2>9, Zenon
    <3>2. QED
      BY <2>1, <2>8, <2>9, <3>1, Zenon DEF AtSplit
  <2>11. cmd' \in [Bytes -> Characters \cup {NUL}]
    <3>1. NUL \in Characters \cup {NUL}
      OBVIOUS
    <3> DEFINE C == Characters \cup {NUL}
    <3> HIDE DEF C
    <3>2. cmd \in [Bytes -> C] /\ NUL \in C
      BY <1>3, <3>1, Zenon DEF C
    <3>3. cmd' \in [Bytes -> C]
      BY <2>1, <3>2, Zenon
    <3>4. QED
      BY <3>3, Zenon DEF C
  <2>12. QED
    BY <1>1, <2>1, <2>7, <2>10, <2>11, ReadingKept, Zenon
<1>6. QED
  BY <1>4, <1>5

-----------------------------------------------------------------------------
\* A line comes in with its words laid out.
Entering(n, words, open, gaps) ==
  /\ open => words # <<>> /\ Last(words).quoted
  /\ \A i \in 2 .. n : words[i - 1].quoted \/ gaps[i] # <<>>
  /\ \E line \in {Line(words, gaps, open)} :
       /\ Len(line) <= LineMax
       /\ cmd' = [i \in Bytes |-> IF i < Len(line) THEN line[i + 1] ELSE NUL]
       /\ end' = Len(line)
  /\ meant' = words

LEMMA EnterReads ==
  ASSUME EnterLine
  PROVE  \E line, at, open : Reading(line, at, open)'
<1>1. PICK n \in 0 .. WordMax : \E words \in [1 .. n -> Words], open \in BOOLEAN :
        \E gaps \in [1 .. n + 1 -> Gaps] : Entering(n, words, open, gaps)
  BY Zenon DEF EnterLine, Entering
<1>2. PICK words \in [1 .. n -> Words], open \in BOOLEAN, gaps \in [1 .. n + 1 -> Gaps] :
        Entering(n, words, open, gaps)
  BY <1>1, Zenon
<1> DEFINE line == Line(words, gaps, open)
<1>3. /\ Len(line) <= LineMax
      /\ cmd' = [i \in Bytes |-> Entered(line, i)]
      /\ end' = Len(line) /\ meant' = words /\ pc' = "trim"
  BY <1>2, Zenon DEF EnterLine, Entering, Entered
<1>4. n \in Nat
  BY MshAssumption, SMT
<1>5. words \in Seq(Words) /\ Len(words) = n
  BY <1>4, SMT
<1>6. Typable(words, gaps)
  <2>1. \A i \in 1 .. n + 1 : gaps[i] \in Gaps
    OBVIOUS
  <2>2. \A i \in 1 .. n : i > 1 => i \in 2 .. n
    BY <1>4, SMT
  <2>3. \A i \in 1 .. n : i > 1 => words[i - 1].quoted \/ gaps[i] # <<>>
    BY <1>2, <2>2, Zenon DEF Entering
  <2>4. QED
    BY <1>5, <2>1, <2>3, Zenon DEF Typable
<1>7. PICK at : LaidOut(line, words, Len(words), at, open)
  <2>1. IsLaid(line, words, open)
    BY <1>2, <1>6, LineLaidOut, Zenon DEF Entering
  <2>2. QED
    BY <2>1, Zenon DEF IsLaid
<1> HIDE DEF line
<1>8. cmd' \in [Bytes -> Characters \cup {NUL}]
  <2>1. line \in Seq(Characters)
    BY <1>7, Zenon DEF LaidOut
  <2>2. Len(line) \in Nat /\ \A i \in 1 .. Len(line) : line[i] \in Characters
    BY <2>1, LenProperties, ElementOfSeq, Zenon
  <2>3. \A i \in Bytes : i < Len(line) => i + 1 \in 1 .. Len(line)
    BY <2>2, MshAssumption, SMT DEF Bytes
  <2>4. \A i \in Bytes : Entered(line, i) \in Characters \cup {NUL}
    BY <2>2, <2>3, Zenon DEF Entered
  <2>5. QED
    BY <1>3, <2>4, Zenon
<1>9. \A j \in Bytes : cmd'[j] = Entered(line, j)
  BY <1>3, Zenon
<1>10. Reading(line, at, open)'
  BY <1>3, <1>5, <1>7, <1>8, <1>9, Zenon DEF Reading
<1>11. QED
  BY <1>10, Zenon

\* The command begins where the blanks before it end.
LEMMA TrimReads ==
  ASSUME NEW line, NEW at, NEW open, Reading(line, at, open), Trim
  PROVE  Reading(line, at, open)'
<1>1. /\ pc = "trim" /\ AfterBlanks(0) < end /\ start' = AfterBlanks(0) /\ pc' = "search"
      /\ meant' = meant /\ end' = end /\ cmd' = cmd
  BY Zenon DEF Trim, typed
<1>2. Layout(line, at, open)
  BY LayoutIs, Zenon
<1>3. \A j \in Bytes : cmd[j] = Entered(line, j)
  BY <1>1, Zenon DEF Reading
<1>4. /\ Len(meant) \in Nat /\ at[Len(meant) + 1] = end /\ end \in Nat
      /\ cmd \in [Bytes -> Characters \cup {NUL}]
  BY <1>2, Zenon DEF Layout
<1>5. AfterBlanks(0) = at[0 + 1]
  <2>1. 0 \in 0 .. Len(meant) /\ 0 \in Nat /\ 0 <= 0
    BY <1>4, SMT
  <2>2. Stop(meant, at, 0) = 0
    BY Zenon DEF Stop
  <2>3. at[0 + 1] \in Nat
    BY <1>2, <2>1, Zenon DEF Layout
  <2>4. 0 <= at[0 + 1]
    BY <2>3, SMT
  <2>5. AsEntered(line, 0)
    BY <1>3, Zenon DEF AsEntered
  <2>6. QED
    BY <1>2, <2>1, <2>2, <2>4, <2>5, NextWord, Zenon
<1>6. 0 + 1 = 1
  BY SMT
<1>7. meant # <<>>
  <2>1. SUFFICES ASSUME meant = <<>> PROVE FALSE
    OBVIOUS
  <2>2. Len(meant) = 0
    BY <2>1, EmptySeq, Zenon
  <2>3. at[0 + 1] = end
    BY <1>4, <2>2, Zenon
  <2>4. end < end
    BY <1>1, <1>5, <2>3, Zenon
  <2>5. QED
    BY <1>4, <2>4, SMT
<1>8. start' = at[1]
  BY <1>1, <1>5, <1>6, Zenon
<1>9. \A j \in Bytes : cmd'[j] = Entered(line, j)
  BY <1>1, <1>3, Zenon
<1>10. /\ meant' \in Seq(Words) /\ end' = Len(line) /\ end' <= LineMax
       /\ LaidOut(line, meant', Len(meant'), at, open)
  BY <1>1, Zenon DEF Reading
<1>11. pc' \notin {"split", "token", "string", "call"} /\ pc' # "trim"
  BY <1>1, SMT
<1>12. meant' # <<>> /\ cmd' \in [Bytes -> Characters \cup {NUL}]
  BY <1>1, <1>4, <1>7, Zenon
<1>13. QED
  BY <1>8, <1>9, <1>10, <1>11, <1>12, Zenon DEF Reading

\* The first word, as the search sees it.
LEMMA SearchSees ==
  ASSUME NEW line, NEW at, NEW open, Reading(line, at, open), pc = "search"
  PROVE  /\ Layout(line, at, open) /\ meant # <<>> /\ start = at[1]
         /\ \A j \in Bytes : cmd[j] = Entered(line, j)
         /\ ~meant[1].quoted => CommandText = meant[1].text
         /\ meant[1].quoted => \A n \in Syscalls : Name[n] # CommandText
<1>1. Layout(line, at, open)
  BY LayoutIs, Zenon
<1>2. pc # "trim"
  BY SMT
<1>3. meant # <<>> /\ start = at[1] /\ \A j \in Bytes : cmd[j] = Entered(line, j)
  BY <1>2, Zenon DEF Reading
<1>4. AsEntered(line, 0)
  BY <1>3, Zenon DEF AsEntered
<1>5. QED
  BY <1>1, <1>3, <1>4, CommandTextIs, Zenon

\* With the command found the splitting begins at the command.
LEMMA FoundReads ==
  ASSUME NEW line, NEW at, NEW open, Reading(line, at, open), Search, IsCommand(pos)
  PROVE  Reading(line, at, open)'
<1>1. /\ pc = "search" /\ ptr' = start /\ argv' = <<>> /\ pc' = "split"
      /\ meant' = meant /\ end' = end /\ cmd' = cmd /\ start' = start
  BY Zenon DEF Search, typed
<1>2. /\ Layout(line, at, open) /\ meant # <<>> /\ start = at[1]
      /\ \A j \in Bytes : cmd[j] = Entered(line, j)
  BY <1>1, SearchSees, Zenon
<1>3. /\ Len(meant) \in Nat /\ cmd \in [Bytes -> Characters \cup {NUL}]
      /\ \A i \in 1 .. Len(meant) : WordIn(line, at, open, i)
      /\ meant \in Seq(Words)
  BY <1>2, Zenon DEF Layout
<1>4. 1 \in 1 .. Len(meant)
  <2>1. Len(meant) # 0
    BY <1>2, <1>3, EmptySeq, Zenon
  <2>2. QED
    BY <1>3, <2>1, SMT
<1>5. at[1] \in Nat
  BY <1>3, <1>4, Zenon DEF WordIn, Span
<1>6. argv' \in Seq(Nat) /\ Len(argv') = 0
  BY <1>1, EmptySeq, Zenon
<1>7. FINSH_ARG_MAX \in Nat
  BY MshAssumption, SMT
<1>8. 0 <= FINSH_ARG_MAX /\ 0 <= Len(meant) /\ 1 .. 0 = {} /\ 0 <= at[1] /\ at[1] <= at[1] /\ 0 + 1 = 1
      /\ ~(0 > 0)
  BY <1>3, <1>5, <1>7, SMT
<1>9. Passed(line, at)'
  <2>1. argv' \in Seq(Nat) /\ Len(argv') <= FINSH_ARG_MAX /\ Len(argv') <= Len(meant')
    BY <1>1, <1>6, <1>8, Zenon
  <2>2. ptr' \in Nat /\ \A j \in Bytes : j >= ptr' => cmd'[j] = Entered(line, j)
    BY <1>1, <1>2, <1>5, Zenon
  <2>3. 1 .. Len(argv') = {}
    BY <1>6, <1>8, Zenon
  <2>4. QED
    BY <2>1, <2>2, <2>3, Zenon DEF Passed
<1>10. AtSplit(at)'
  <2>1. Stop(meant', at, 0) = 0
    BY Zenon DEF Stop
  <2>2. Stop(meant', at, Len(argv')) <= ptr' /\ ptr' <= at[Len(argv') + 1] /\ ~(Len(argv') > 0)
    BY <1>1, <1>2, <1>6, <1>8, <2>1, Zenon
  <2>3. QED
    BY <1>1, <2>2, Zenon DEF AtSplit
<1>11. pc # "trim"
  BY <1>1, SMT
<1>12. QED
  BY <1>1, <1>3, <1>9, <1>10, <1>11, ReadingKept, Zenon

\* Otherwise the line stays.
LEMMA PassedByReads ==
  ASSUME NEW line, NEW at, NEW open, Reading(line, at, open), Search, ~IsCommand(pos)
  PROVE  Reading(line, at, open)'
<1>1. /\ pc = "search" /\ pc' = pc
      /\ meant' = meant /\ end' = end /\ cmd' = cmd /\ start' = start
  BY Zenon DEF Search, typed
<1>2. pc' \notin {"split", "token", "string", "call"} /\ pc' # "trim" /\ pc # "trim"
  BY <1>1, SMT
<1>3. QED
  BY <1>1, <1>2, Zenon DEF Reading

\* No step but Enter and Return changes the words, none the command found.
LEMMA NamedKept ==
  ASSUME RingInv, Range(registered) = Syscalls, Named,
         NEW line, NEW at, NEW open, Reading(line, at, open), Trim \/ Search
  PROVE  Named'
<1>1. /\ registered \in Seq(Syscalls) /\ Len(registered) \in Nat
      /\ \A i \in 0 .. Len(registered) : prev[Node(registered, i)] = Node(registered, i + 1)
  BY LenProperties, Zenon DEF RingInv
<1>2. registered' = registered /\ meant' = meant
  BY Zenon DEF Trim, Search, links, typed
<1>3. CASE Trim
  <2>1. pos' = prev[head] /\ pc' = "search"
    BY <1>3, Zenon DEF Trim
  <2>2. Node(registered, 0) = head
    <3>1. 0 \notin 1 .. Len(registered)
      BY SMT
    <3>2. QED
      BY <3>1, Zenon DEF Node
  <2>3. 0 \in 0 .. Len(registered) /\ 0 + 1 = 1 /\ 1 \in 1 .. Len(registered) + 1 /\ 1 .. 1 - 1 = {}
    BY <1>1, SMT
  <2>4. pos' = Node(registered, 1)
    BY <1>1, <2>1, <2>2, <2>3, Zenon
  <2>5. \A j \in 1 .. 1 - 1 : meant[1].quoted \/ Name[registered[j]] # meant[1].text
    BY <2>3, Zenon
  <2>6. pc' \notin {"split", "token", "string", "call"}
    BY <2>1, SMT
  <2>7. QED
    BY <1>2, <2>3, <2>4, <2>5, <2>6, Zenon DEF Named
<1>4. CASE Search
  <2>1. pc = "search" /\ pos # head
    BY <1>4, Zenon DEF Search
  <2>2. PICK i \in 1 .. Len(registered) + 1 :
          /\ pos = Node(registered, i)
          /\ \A j \in 1 .. i - 1 : meant[1].quoted \/ Name[registered[j]] # meant[1].text
    BY <2>1, Zenon DEF Named
  <2>3. /\ ~meant[1].quoted => CommandText = meant[1].text
        /\ meant[1].quoted => \A n \in Syscalls : Name[n] # CommandText
    BY <2>1, SearchSees, Zenon
  <2>4. i \in 1 .. Len(registered) /\ pos = registered[i]
    BY <2>1, <2>2, Zenon DEF Node
  <2>5. pos \in Syscalls
    BY <1>1, <2>4, ElementOfSeq, Zenon
  <2>6. CASE IsCommand(pos)
    <3>1. func' = pos /\ pc' = "split"
      BY <1>4, <2>6, Zenon DEF Search
    <3>2. ~meant[1].quoted /\ Name[pos] = meant[1].text
      BY <2>3, <2>5, <2>6, Zenon DEF IsCommand
    <3>3. pc' # "search"
      BY <3>1, SMT
    <3>4. QED
      BY <1>2, <3>1, <3>2, <3>3, Zenon DEF Named
  <2>7. CASE ~IsCommand(pos)
    <3>1. pos' = prev[pos] /\ pc' = "search"
      BY <1>4, <2>1, <2>7, Zenon DEF Search
    <3>2. meant[1].quoted \/ Name[registered[i]] # meant[1].text
      BY <2>3, <2>4, <2>7, Zenon DEF IsCommand
    <3>3. /\ i \in 0 .. Len(registered) /\ i + 1 \in 1 .. Len(registered) + 1
          /\ \A j \in 1 .. (i + 1) - 1 : j \in 1 .. i - 1 \/ j = i
      BY <1>1, <2>4, SMT
    <3>4. pos' = Node(registered, i + 1)
      BY <1>1, <2>2, <3>1, <3>3, Zenon
    <3>5. \A j \in 1 .. (i + 1) - 1 : meant[1].quoted \/ Name[registered[j]] # meant[1].text
      BY <2>2, <3>2, <3>3, Zenon
    <3>6. pc' \notin {"split", "token", "string", "call"}
      BY <3>1, SMT
    <3>7. QED
      BY <1>2, <3>3, <3>4, <3>5, <3>6, Zenon DEF Named
  <2>8. QED
    BY <2>6, <2>7
<1>5. QED
  BY <1>3, <1>4

\* Where the program is outside msh_exec, and in it.
Inside == {"trim", "search", "split", "token", "string", "call"}
Splits == {"split", "token", "string", "call"}

LEMMA Places ==
  /\ Splits \subseteq Inside /\ "trim" \in Inside /\ "search" \in Inside
  /\ "load" \notin Inside /\ "prompt" \notin Inside /\ "ended" \notin Inside
  /\ "trim" \notin Splits /\ "search" \notin Splits
  /\ "split" \in Splits /\ "token" \in Splits /\ "string" \in Splits /\ "call" \in Splits
  /\ "load" # "prompt" /\ "trim" # "search" /\ "load" # "trim"
  BY SMT DEF Inside, Splits

\* A step within msh_exec.
LEMMA ExecSteps ==
  ASSUME RingInv, ExecInv, NEW line, NEW at, NEW open, Reading(line, at, open), pc \in Inside,
         Trim \/ Search \/ Strip \/ SplitEnd \/ PlainToken \/ QuotedToken \/ StringChar \/ StringEnd
  PROVE  Reading(line, at, open)' /\ Named' /\ pc' \in Inside /\ registered' = registered
<1>1. CASE Trim
  <2>1. pc' = "search" /\ registered' = registered
    BY <1>1, Zenon DEF Trim, links
  <2>2. Range(registered) = Syscalls /\ Named
    BY Places, Zenon DEF ExecInv
  <2>3. QED
    BY <1>1, <2>1, <2>2, TrimReads, NamedKept, Places, Zenon
<1>2. CASE Search
  <2>1. (pc' = "search" \/ pc' = "split") /\ registered' = registered
    BY <1>2, Zenon DEF Search, links
  <2>2. Range(registered) = Syscalls /\ Named
    BY Places, Zenon DEF ExecInv
  <2>3. Reading(line, at, open)'
    BY <1>2, FoundReads, PassedByReads, Zenon
  <2>4. QED
    BY <1>2, <2>1, <2>2, <2>3, NamedKept, Places, Zenon
<1>3. CASE Strip \/ SplitEnd \/ PlainToken \/ QuotedToken \/ StringChar \/ StringEnd
  <2>1. /\ registered' = registered /\ meant' = meant /\ func' = func
        /\ pc \in Splits /\ pc' \in Splits
    BY <1>3, Places, Zenon DEF Strip, SplitEnd, PlainToken, QuotedToken, StringChar, StringEnd,
      links, typed, found
  <2>2. Named'
    <3>1. ~meant[1].quoted /\ Name[func] = meant[1].text
      BY <2>1, Zenon DEF ExecInv, Named, Splits
    <3>2. pc' # "search"
      BY <2>1, Places, Zenon
    <3>3. QED
      BY <2>1, <3>1, <3>2, Zenon DEF Named
  <2>3. Reading(line, at, open)'
    BY <1>3, StripReads, SplitEndReads, PlainTokenReads, QuotedTokenReads, StringCharReads,
      StringEndReads, Zenon
  <2>4. QED
    BY <2>1, <2>2, <2>3, Places, Zenon
<1>4. QED
  BY <1>1, <1>2, <1>3, Zenon

\* Every step of the shell keeps the words where they are, and the command.
LEMMA ExecStep == ASSUME RingInv, ExecInv, [MshNext]_mshVars PROVE ExecInv'
<1>1. CASE \E n \in Syscalls : cmd_list_add(n)
  <2>1. pc = "load" /\ pc' = "load"
    BY <1>1, Zenon DEF cmd_list_add
  <2>2. QED
    BY <2>1, SMT DEF ExecInv, Named
<1>2. CASE Main
  <2>1. pc' = "prompt" /\ Range(registered) = Syscalls /\ registered' = registered
    BY <1>2, Zenon DEF Main, links
  <2>2. QED
    BY <2>1, SMT DEF ExecInv, Named
<1>3. CASE EnterLine
  <2>1. pc = "prompt" /\ pc' = "trim" /\ registered' = registered
    BY <1>3, Zenon DEF EnterLine, links
  <2>2. \E line, at, open : Reading(line, at, open)'
    BY <1>3, EnterReads, Zenon
  <2>3. Range(registered') = Syscalls
    BY <2>1, Places, Zenon DEF ExecInv
  <2>4. Named'
    BY <2>1, SMT DEF Named
  <2>5. QED
    BY <2>1, <2>2, <2>3, <2>4, Zenon DEF ExecInv
<1>4. CASE BlankLine \/ NotFound \/ CommandReturns \/ CommandCrashes
  <2>1. pc # "load" /\ pc' \in {"prompt", "ended"} /\ registered' = registered
    BY <1>4, SMT DEF BlankLine, NotFound, CommandReturns, CommandCrashes, Return, ReturnTo, links
  <2>2. Range(registered') = Syscalls
    BY <2>1, Zenon DEF ExecInv
  <2>3. Named'
    BY <2>1, SMT DEF Named
  <2>4. QED
    BY <2>1, <2>2, <2>3, SMT DEF ExecInv
<1>5. CASE Trim \/ Search \/ Strip \/ SplitEnd \/ PlainToken \/ QuotedToken \/ StringChar \/ StringEnd
  <2>1. pc \in Inside
    BY <1>5, Places, Zenon DEF Trim, Search, Strip, SplitEnd, PlainToken, QuotedToken, StringChar,
      StringEnd
  <2>2. Range(registered) = Syscalls /\ \E line, at, open : Reading(line, at, open)
    BY <2>1, Places, Zenon DEF ExecInv
  <2>3. PICK line, at, open : Reading(line, at, open)
    BY <2>2, Zenon
  <2>4. Reading(line, at, open)' /\ Named' /\ pc' \in Inside /\ registered' = registered
    BY <1>5, <2>1, <2>3, ExecSteps, Zenon
  <2>5. pc' \in {"load", "prompt", "trim", "search", "split", "token", "string", "call", "ended"}
    BY <2>4, SMT DEF Inside
  <2>6. QED
    BY <2>2, <2>4, <2>5, Zenon DEF ExecInv
<1>6. CASE UNCHANGED mshVars
  <2>1. /\ registered' = registered /\ meant' = meant /\ end' = end /\ cmd' = cmd /\ start' = start
        /\ pc' = pc /\ pos' = pos /\ func' = func /\ ptr' = ptr /\ argv' = argv
    BY <1>6, Zenon DEF mshVars, links, typed, found, split
  <2>2. \A at : \A i : Closed(at, i)' <=> Closed(at, i)
    BY <2>1, Zenon DEF Closed
  <2>3. ASSUME NEW line, NEW at, NEW open, Reading(line, at, open) PROVE Reading(line, at, open)'
    <3>1. Passed(line, at) => Passed(line, at)'
      BY <2>1, <2>2, Zenon DEF Passed
    <3>2. AtSplit(at) => AtSplit(at)'
      BY <2>1, <2>2, Zenon DEF AtSplit
    <3>3. QED
      BY <2>1, <2>3, <3>1, <3>2, Zenon DEF Reading
  <2>4. Named'
    BY <2>1, Zenon DEF Named, ExecInv
  <2>5. QED
    BY <2>1, <2>3, <2>4, Zenon DEF ExecInv
<1>7. QED
  BY <1>1, <1>2, <1>3, <1>4, <1>5, <1>6, Zenon DEF MshNext, MshStep

\* Before main there is no line.
LEMMA ExecStart == MshInit => ExecInv
  BY SMT DEF MshInit, ExecInv, Named

\* What ExecInv says of the search and of what it has found.
LEMMA ExecRight == ASSUME RingInv, ExecInv PROVE RightCommand
<1>1. ASSUME pc \in {"split", "token", "string", "call"}
      PROVE  ~meant[1].quoted /\ Name[func] = meant[1].text
  BY <1>1, Zenon DEF ExecInv, Named
<1>2. ASSUME pc = "search", pos = head, NEW n \in Syscalls
      PROVE  meant[1].quoted \/ Name[n] # meant[1].text
  <2>1. PICK i \in 1 .. Len(registered) + 1 :
          /\ pos = Node(registered, i)
          /\ \A j \in 1 .. i - 1 : meant[1].quoted \/ Name[registered[j]] # meant[1].text
    BY <1>2, Zenon DEF ExecInv, Named
  <2>2. registered \in Seq(Syscalls) /\ Len(registered) \in Nat
    BY LenProperties, Zenon DEF RingInv
  <2>3. i \notin 1 .. Len(registered)
    <3>1. SUFFICES ASSUME i \in 1 .. Len(registered) PROVE FALSE
      OBVIOUS
    <3>2. registered[i] \in Syscalls /\ pos = registered[i]
      BY <2>1, <2>2, <3>1, ElementOfSeq, Zenon DEF Node
    <3>3. QED
      BY <1>2, <3>2, MshAssumption, Zenon
  <2>4. \A j \in 1 .. Len(registered) : j \in 1 .. i - 1
    BY <2>2, <2>3, SMT
  <2>5. n \in Range(registered)
    <3>1. Range(registered) = Syscalls
      BY <1>2, SMT DEF ExecInv
    <3>2. QED
      BY <3>1, Zenon
  <2>6. PICK j \in 1 .. Len(registered) : registered[j] = n
    <3>1. DOMAIN registered = 1 .. Len(registered)
      BY <2>2, LenProperties, Zenon
    <3>2. QED
      BY <2>5, <3>1, Zenon DEF Range
  <2>7. QED
    BY <2>1, <2>4, <2>6, Zenon
<1>3. QED
  BY <1>1, <1>2, Zenon DEF RightCommand

\* The string at an argument is its word.
LEMMA ArgumentIs ==
  ASSUME NEW line, NEW at, NEW open, Layout(line, at, open), NEW i \in 1 .. Len(meant), Closed(at, i),
         NEW b, b = Body(meant, at, i),
         \A c \in 1 .. Len(meant[i].text) : cmd[b + c - 1] = meant[i].text[c]
  PROVE  StringAt(b) = meant[i].text
<1> DEFINE t == meant[i].text
           e == BodyEnd(meant, at, i)
           T == {j \in b .. LineMax : cmd[j] = NUL}
           m == Min(T)
<1>1. WordIn(line, at, open, i) /\ end \in Nat /\ end <= LineMax /\ LineMax \in Nat
  BY Zenon DEF Layout
<1>2. /\ meant[i] \in Words /\ b \in Nat /\ e \in Nat /\ Len(t) \in Nat /\ e = b + Len(t) /\ e <= end
  BY <1>1, Zenon DEF WordIn, Span
<1>3. t \in Seq(Characters) /\ NUL \notin Characters
  BY <1>2, MshAssumption, Zenon
<1>4. cmd[e] = NUL
  BY Zenon DEF Closed
<1> HIDE DEF t, e
<1>5. e \in T /\ T \subseteq Nat
  <2>1. e \in b .. LineMax /\ \A j \in b .. LineMax : j \in Nat
    BY <1>1, <1>2, SMT
  <2>2. QED
    BY <1>4, <2>1, Zenon
<1>6. m \in T /\ m <= e
  <2> HIDE DEF T
  <2>1. T # {}
    BY <1>5, Zenon
  <2>2. m \in T /\ \A y \in T : m <= y
    BY <1>5, <2>1, Least, Zenon
  <2>3. QED
    BY <1>5, <2>2, Zenon
<1> HIDE DEF m
<1>7. m \in b .. LineMax /\ cmd[m] = NUL
  BY <1>6, Zenon
<1>8. m = e
  <2>1. SUFFICES ASSUME m # e PROVE FALSE
    OBVIOUS
  <2>2. PICK c \in 1 .. Len(t) : b + c - 1 = m
    <3>1. m - b + 1 \in 1 .. Len(t) /\ b + (m - b + 1) - 1 = m
      BY <1>1, <1>2, <1>6, <1>7, <2>1, SMT
    <3>2. QED
      BY <3>1, Zenon
  <2>3. cmd[m] = t[c]
    BY <2>2, Zenon DEF t
  <2>4. t[c] \in Characters
    BY <1>3, ElementOfSeq, Zenon
  <2>5. QED
    BY <1>3, <1>7, <2>3, <2>4, Zenon
<1>9. m - b = Len(t)
  BY <1>2, <1>8, SMT
<1>10. t = [c \in 1 .. Len(t) |-> t[c]]
  <2>1. DOMAIN t = 1 .. Len(t)
    BY <1>3, LenProperties, Zenon
  <2>2. t = [c \in DOMAIN t |-> t[c]]
    BY <1>3, SMT
  <2>3. QED
    BY <2>1, <2>2, Zenon
<1>11. StringAt(b) = [c \in 1 .. m - b |-> cmd[b + c - 1]]
  BY Zenon DEF StringAt, m
<1>12. \A c \in 1 .. Len(t) : cmd[b + c - 1] = t[c]
  BY Zenon DEF t
<1>13. StringAt(b) = t
  BY <1>9, <1>10, <1>11, <1>12, Zenon
<1>14. QED
  BY <1>13, Zenon DEF t

\* When the command is called, all its arguments are its words.
LEMMA ExecTyped == ASSUME ExecInv PROVE ArgumentsAsTyped
<1> SUFFICES ASSUME pc = "call"
             PROVE  /\ Len(argv) = Min({FINSH_ARG_MAX, Len(meant)})
                    /\ \A i \in DOMAIN argv : StringAt(argv[i]) = meant[i].text
  BY Zenon DEF ArgumentsAsTyped
<1>1. PICK line, at, open : Reading(line, at, open)
  BY SMT DEF ExecInv
<1>2. Splitting(line, at, open)
  BY <1>1, SplittingIs, SMT
<1> DEFINE k == Len(argv)
<1>3. /\ Layout(line, at, open) /\ Passed(line, at)
      /\ k = FINSH_ARG_MAX \/ k = Len(meant)
      /\ k > 0 => Closed(at, k)
      /\ k <= FINSH_ARG_MAX /\ k <= Len(meant) /\ k \in Nat /\ argv \in Seq(Nat)
  BY <1>2, Zenon DEF Splitting, AtSplit, Passed
<1>4. FINSH_ARG_MAX \in Nat /\ Len(meant) \in Nat
  BY <1>3, MshAssumption, SMT DEF Layout
<1>5. DOMAIN argv = 1 .. k
  BY <1>3, LenProperties, Zenon
<1>6. \A i \in 1 .. k : i \in 1 .. Len(meant) /\ (i < k \/ (i = k /\ k > 0))
  BY <1>3, <1>4, SMT
<1> HIDE DEF k
<1>7. k = Min({FINSH_ARG_MAX, Len(meant)})
  <2> DEFINE T == {FINSH_ARG_MAX, Len(meant)}
             m == Min(T)
  <2>1. T \subseteq Nat /\ T # {}
    BY <1>4, Zenon
  <2>2. FINSH_ARG_MAX \in T /\ Len(meant) \in T
    OBVIOUS
  <2>3. \A x \in T : x = FINSH_ARG_MAX \/ x = Len(meant)
    OBVIOUS
  <2> HIDE DEF T
  <2>4. m \in T /\ \A y \in T : m <= y
    BY <2>1, Least, Zenon
  <2> HIDE DEF m
  <2>5. /\ m = FINSH_ARG_MAX \/ m = Len(meant)
        /\ m <= FINSH_ARG_MAX /\ m <= Len(meant)
    BY <2>2, <2>3, <2>4, Zenon
  <2>6. k = m
    BY <1>3, <1>4, <2>5, SMT
  <2>7. QED
    BY <2>6, Zenon DEF m, T
<1>8. ASSUME NEW i \in 1 .. k PROVE StringAt(argv[i]) = meant[i].text
  <2>1. Closed(at, i)
    BY <1>3, <1>6, Zenon DEF Passed, k
  <2>2. argv[i] = Body(meant, at, i)
        /\ \A c \in 1 .. Len(meant[i].text) : cmd[argv[i] + c - 1] = meant[i].text[c]
    BY <1>3, Zenon DEF Passed, k
  <2>3. QED
    <3>1. PICK b : b = argv[i]
      OBVIOUS
    <3>2. b = Body(meant, at, i)
          /\ \A c \in 1 .. Len(meant[i].text) : cmd[b + c - 1] = meant[i].text[c]
      BY <2>2, <3>1, Zenon
    <3>3. StringAt(b) = meant[i].text
      BY <1>3, <1>6, <2>1, <3>2, ArgumentIs, Zenon
    <3>4. QED
      BY <3>1, <3>3, Zenon
<1>9. QED
  BY <1>5, <1>7, <1>8, Zenon DEF k

\* Whatever is typed, msh_exec knows the words of the line it is running: those
\* split off are arguments, the others are as they were entered.
THEOREM ExecAlways == MshSpec => [](RingInv /\ ExecInv)
<1>1. MshInit => RingInv /\ ExecInv
  BY EmptyRing, ExecStart, Zenon
<1>2. RingInv /\ ExecInv /\ [MshNext]_mshVars => RingInv' /\ ExecInv'
  BY RingStep, ExecStep, Zenon
<1>3. QED
  BY <1>1, <1>2, PTL DEF MshSpec

\* The command called is the one whose name was typed as the first word, never
\* one whose name only begins with it, and "command not found" is said only if
\* there is none: msh_get_cmd, for every list of commands and every line.
THEOREM RightCommandAlways == MshSpec => []RightCommand
<1>1. RingInv /\ ExecInv => RightCommand
  BY ExecRight, Zenon
<1>2. QED
  BY <1>1, ExecAlways, PTL

\* The command gets the words of the line as they were meant, the quoted ones
\* without their quotes, each one ended by a zero, and of too many the first
\* FINSH_ARG_MAX: msh_split, for lines of any length.
THEOREM ArgumentsAsTypedAlways == MshSpec => []ArgumentsAsTyped
<1>1. RingInv /\ ExecInv => ArgumentsAsTyped
  BY ExecTyped, Zenon
<1>2. QED
  BY <1>1, ExecAlways, PTL
=============================================================================

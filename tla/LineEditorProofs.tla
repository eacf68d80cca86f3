-------------------------- MODULE LineEditorProofs --------------------------
(***************************************************************************)
(* The editor of FinshShell, with its byte arrays and positions, is a      *)
(* LineEditor: for every line length, history length, set of characters    *)
(* and set of names, as long as no line of FINSH_CMD_SIZE characters is    *)
(* typed.                                                                  *)
(***************************************************************************)
EXTENDS FinshShellProofs

\* The values of the variables of LineEditor.
LineText == Text(line, line_position)
EntryText(h) == Text(cmd_history[h], strlen(cmd_history[h]))
Lines == [h \in 1 .. history_count |-> EntryText(h - 1)]
Begun == IF stat = "WAIT_NORMAL" THEN 0 ELSE IF stat = "WAIT_SPEC_KEY" THEN 1 ELSE 2

\* What the user sees of the line and the history.
View == <<LineText, line_curpos, Lines, current_history + 1>>

-----------------------------------------------------------------------------
(* Sequences.                                                              *)

\* A function on the first numbers is a sequence.
LEMMA FunctionIsSeq ==
  ASSUME NEW S, NEW n \in Nat, NEW f \in [1 .. n -> S]
  PROVE  f \in Seq(S) /\ Len(f) = n
<1>1. f \in Seq(S)
  BY SeqDef, Zenon
<1>2. Len(f) \in Nat /\ DOMAIN f = 1 .. Len(f) /\ DOMAIN f = 1 .. n
  BY <1>1, LenProperties, Zenon
<1> QED BY <1>1, <1>2, SMT

\* The text of a clean array is made of its bytes, from byte 0 on.
LEMMA TextIs ==
  ASSUME NEW m \in Nat, NEW s \in [0 .. m -> Char], NEW n \in 0 .. m, Clean(s, n)
  PROVE  /\ Text(s, n) \in Seq(Printable)
         /\ Len(Text(s, n)) = n
         /\ \A i \in 1 .. n : Text(s, n)[i] = s[i - 1]
<1>1. \A i \in 1 .. n : i - 1 \in 0 .. m /\ ~(i - 1 >= n)
  BY SMT
<1>2. \A i \in 1 .. n : s[i - 1] \in Printable
  BY <1>1, Zenon DEF Clean, Char
<1>3. Text(s, n) = [i \in 1 .. n |-> s[i - 1]]
  BY Zenon DEF Text
<1>4. n \in Nat
  BY SMT
<1>5. Text(s, n) \in [1 .. n -> Printable]
  BY <1>2, <1>3, Zenon
<1>6. Text(s, n) \in Seq(Printable) /\ Len(Text(s, n)) = n
  BY <1>4, <1>5, FunctionIsSeq, Zenon
<1> QED BY <1>3, <1>6, Zenon

\* The elements of a part of a sequence.
LEMMA Piece ==
  ASSUME NEW C, NEW t \in Seq(C), NEW a \in Int, NEW b \in Int,
         1 <= a, b <= Len(t), a <= b + 1
  PROVE  /\ SubSeq(t, a, b) \in Seq(C)
         /\ Len(SubSeq(t, a, b)) = b - a + 1
         /\ \A i \in 1 .. b - a + 1 : SubSeq(t, a, b)[i] = t[a + i - 1]
BY SMT

\* What InsertAt is, element by element.
LEMMA InsertIs ==
  ASSUME NEW C, NEW t \in Seq(C), NEW c \in C, NEW k \in 0 .. Len(t),
         NEW l \in Nat, l = k + 1, NEW u \in Seq(C), Len(u) = Len(t) + 1, u[l] = c,
         \A i \in 1 .. k : u[i] = t[i],
         \A i \in l .. Len(t) : u[i + 1] = t[i]
  PROVE  u = InsertAt(t, l, c)
<1> DEFINE before == SubSeq(t, 1, k)
           one == <<c>>
           mid == before \o one
           after == SubSeq(t, l, Len(t))
<1>1. Len(t) \in Nat /\ k \in Nat /\ k <= Len(t)
  <2>1. Len(t) \in Nat
    BY LenProperties, Zenon
  <2> QED BY <2>1, SMT
<1>2. /\ before \in Seq(C) /\ Len(before) = k
      /\ \A i \in 1 .. k : before[i] = t[i]
  BY <1>1, SMT
<1>3. /\ after \in Seq(C) /\ Len(after) = Len(t) - k
      /\ \A i \in 1 .. Len(t) - k : after[i] = t[k + i]
  BY <1>1, SMT
<1>4. one \in Seq(C) /\ Len(one) = 1 /\ one[1] = c
  OBVIOUS
<1> HIDE DEF before, after, one
<1>5. /\ mid \in Seq(C) /\ Len(mid) = Len(before) + Len(one)
      /\ \A i \in 1 .. Len(before) + Len(one) :
           mid[i] = IF i <= Len(before) THEN before[i] ELSE one[i - Len(before)]
  BY <1>2, <1>4, ConcatProperties, Zenon
<1> HIDE DEF mid
<1> DEFINE all == mid \o after
<1>6. /\ all \in Seq(C) /\ Len(all) = Len(mid) + Len(after)
      /\ \A i \in 1 .. Len(mid) + Len(after) :
           all[i] = IF i <= Len(mid) THEN mid[i] ELSE after[i - Len(mid)]
  <2>1. mid \in Seq(C) /\ after \in Seq(C)
    BY <1>3, <1>5
  <2> QED BY <2>1, ConcatProperties, Zenon
<1> HIDE DEF all
<1>7. all \in Seq(C)
  BY <1>6
<1>8. Len(all) = Len(u)
  <2>1. Len(all) = Len(mid) + Len(after)
    BY <1>6
  <2> QED BY <2>1, <1>1, <1>2, <1>3, <1>4, <1>5, SMT
<1>9. /\ \A i \in 1 .. Len(u) : i <= k + 1 => all[i] = mid[i]
      /\ \A i \in 1 .. Len(u) : ~(i <= k + 1) => all[i] = after[i - (k + 1)]
  <2>1. Len(mid) = k + 1 /\ Len(mid) + Len(after) = Len(u)
    BY <1>1, <1>2, <1>3, <1>4, <1>5, SMT
  <2> QED BY <2>1, <1>6, Zenon
<1>10. /\ \A i \in 1 .. k : mid[i] = before[i]
       /\ mid[k + 1] = c
  <2>1. \A i \in 1 .. k + 1 : mid[i] = IF i <= k THEN before[i] ELSE one[i - k]
    <3>1. Len(before) = k /\ Len(one) = 1
      BY <1>2, <1>4
    <3> QED BY <3>1, <1>5, Zenon
  <2>2. \A i \in 1 .. k : i \in 1 .. k + 1 /\ i <= k
    BY <1>1, SMT
  <2>3. k + 1 \in 1 .. k + 1 /\ ~(k + 1 <= k) /\ (k + 1) - k = 1
    BY <1>1, SMT
  <2>4. mid[k + 1] = c
    BY <2>1, <2>3, <1>4
  <2> QED BY <2>1, <2>2, <2>4, Zenon
<1>11. \A i \in 1 .. Len(u) : u[i] = all[i]
  <2> TAKE i \in 1 .. Len(u)
  <2>1. CASE i <= k
    <3>1. i \in 1 .. k /\ i <= k + 1
      BY <2>1, <1>1, SMT
    <3> QED BY <3>1, <1>2, <1>9, <1>10, Zenon
  <2>2. CASE i = k + 1
    <3>1. i <= k + 1
      BY <2>2, <1>1, SMT
    <3> QED BY <3>1, <2>2, <1>9, <1>10, Zenon
  <2>3. CASE ~(i <= k + 1)
    <3>1. PICK j \in l .. Len(t) : j + 1 = i
      <4>1. i - 1 \in l .. Len(t) /\ (i - 1) + 1 = i
        BY <2>3, <1>1, SMT
      <4> QED BY <4>1
    <3>2. u[i] = t[j]
      BY <3>1, Zenon
    <3>3. i - (k + 1) \in 1 .. Len(t) - k /\ k + (i - (k + 1)) = j
      <4>1. j \in Int /\ k + 1 <= j /\ j <= Len(t) /\ i = j + 1
        BY <3>1, <1>1, SMT
      <4> QED BY <4>1, <1>1, SMT
    <3>4. after[i - (k + 1)] = t[j]
      BY <3>3, <1>3, Zenon
    <3> QED BY <3>2, <3>4, <2>3, <1>9, Zenon
  <2> QED BY <2>1, <2>2, <2>3, <1>1, SMT
<1>12. u = all
  BY <1>7, <1>8, <1>11, SeqEqual, Zenon
<1>13. l - 1 = k
  BY <1>1, SMT
<1>14. InsertAt(t, l, c) = SubSeq(t, 1, k) \o <<c>> \o SubSeq(t, l, Len(t))
  BY <1>13 DEF InsertAt
<1> QED BY <1>12, <1>14 DEF all, mid, before, one, after

\* What RemoveAt is, element by element.
LEMMA RemoveIs ==
  ASSUME NEW C, NEW t \in Seq(C), NEW k \in 1 .. Len(t),
         NEW u \in Seq(C), Len(u) = Len(t) - 1,
         \A i \in 1 .. k - 1 : u[i] = t[i],
         \A i \in k .. Len(t) - 1 : u[i] = t[i + 1]
  PROVE  u = RemoveAt(t, k)
<1> DEFINE before == SubSeq(t, 1, k - 1)
           after == SubSeq(t, k + 1, Len(t))
           all == before \o after
<1>1. Len(t) \in Nat /\ k \in Nat /\ 1 <= k /\ k <= Len(t)
  <2>1. Len(t) \in Nat
    BY LenProperties, Zenon
  <2> QED BY <2>1, SMT
<1>2. /\ before \in Seq(C) /\ Len(before) = k - 1
      /\ \A i \in 1 .. k - 1 : before[i] = t[i]
  BY <1>1, SMT
<1>3. /\ after \in Seq(C) /\ Len(after) = Len(t) - k
      /\ \A i \in 1 .. Len(t) - k : after[i] = t[k + i]
  BY <1>1, SMT
<1> HIDE DEF before, after
<1>4. /\ all \in Seq(C) /\ Len(all) = Len(before) + Len(after)
      /\ \A i \in 1 .. Len(before) + Len(after) :
           all[i] = IF i <= Len(before) THEN before[i] ELSE after[i - Len(before)]
  BY <1>2, <1>3, ConcatProperties, Zenon
<1> HIDE DEF all
<1>5. Len(u) = Len(all)
  BY <1>1, <1>2, <1>3, <1>4, SMT
<1>6. \A i \in 1 .. Len(u) : all[i] = IF i <= k - 1 THEN before[i] ELSE after[i - (k - 1)]
  <2>1. Len(before) = k - 1 /\ Len(before) + Len(after) = Len(u)
    BY <1>1, <1>2, <1>3, SMT
  <2> QED BY <2>1, <1>4, Zenon
<1>7. \A i \in 1 .. Len(u) : u[i] = all[i]
  <2> TAKE i \in 1 .. Len(u)
  <2>1. CASE i <= k - 1
    <3>1. i \in 1 .. k - 1
      BY <2>1, <1>1, SMT
    <3> QED BY <3>1, <2>1, <1>2, <1>6, Zenon
  <2>2. CASE ~(i <= k - 1)
    <3>1. i \in k .. Len(t) - 1
          /\ i - (k - 1) \in 1 .. Len(t) - k /\ k + (i - (k - 1)) = i + 1
      BY <2>2, <1>1, SMT
    <3>2. u[i] = t[i + 1]
      BY <3>1, Zenon
    <3>3. after[i - (k - 1)] = t[i + 1]
      BY <3>1, <1>3, Zenon
    <3> QED BY <3>2, <3>3, <2>2, <1>6, Zenon
  <2> QED BY <2>1, <2>2
<1>8. u = all
  BY <1>4, <1>5, <1>7, SeqEqual, Zenon
<1> QED BY <1>8, Zenon DEF RemoveAt, all, before, after

-----------------------------------------------------------------------------
(* The line.                                                               *)

IsLine(l, n) == l \in [Bytes -> Char] /\ n \in 0 .. FINSH_CMD_SIZE - 1 /\ Clean(l, n)

\* A line as the user sees it.
LEMMA LineIs ==
  ASSUME NEW l, NEW n, IsLine(l, n)
  PROVE  /\ Text(l, n) \in Seq(Printable)
         /\ Len(Text(l, n)) = n
         /\ \A i \in 1 .. n : Text(l, n)[i] = l[i - 1]
<1>1. FINSH_CMD_SIZE \in Nat /\ n \in 0 .. FINSH_CMD_SIZE
  BY Sizes, SMT DEF IsLine
<1> QED BY <1>1, TextIs, Zenon DEF IsLine, Bytes

\* The invariant speaks of such a line, and of the history as it is.
LEMMA InvIsLine == ShellInv => IsLine(line, line_position)
BY Zenon DEF ShellInv, LineInv, IsLine

\* The same of the line after a step.
LEMMA InvIsLineNext == ShellInv' => IsLine(line', line_position')
BY Zenon DEF ShellInv, LineInv, IsLine

\* A key that leaves the history alone leaves the lines entered alone.
LEMMA LinesKept ==
  ASSUME UNCHANGED past
  PROVE  UNCHANGED <<Lines, current_history + 1>>
BY Zenon DEF past, Lines, EntryText

\* The operators of the two modules are the same.
LEMMA SameOperators ==
  /\ \A s, i, e : Editor!InsertAt(s, i, e) = InsertAt(s, i, e)
  /\ \A s, i : Editor!RemoveAt(s, i) = RemoveAt(s, i)
  /\ \A s, t : Editor!IsPrefix(s, t) = IsPrefix(s, t)
  /\ \A set : Editor!LongestCommonPrefix(set) = LongestCommonPrefix(set)
  /\ \A s : Editor!Last(s) = Last(s)
<1>1. \A s, i, e : Editor!InsertAt(s, i, e) = InsertAt(s, i, e)
  BY DEF Editor!InsertAt, InsertAt
<1>2. \A s, i : Editor!RemoveAt(s, i) = RemoveAt(s, i)
  BY Zenon DEF Editor!RemoveAt, RemoveAt
<1>3. \A s, t : Editor!IsPrefix(s, t) = IsPrefix(s, t)
  BY Zenon DEF Editor!IsPrefix, IsPrefix
<1>4. \A set : Editor!LongestCommonPrefix(set) = LongestCommonPrefix(set)
  BY Zenon DEF Editor!LongestCommonPrefix, LongestCommonPrefix, Editor!CommonPrefixes,
    CommonPrefixes, Editor!Prefixes, Prefixes, Editor!IsPrefix, IsPrefix
<1>5. \A s : Editor!Last(s) = Last(s)
  BY Zenon DEF Editor!Last, Last
<1> QED BY <1>1, <1>2, <1>3, <1>4, <1>5

\* A character typed.
LEMMA InsertTypes ==
  ASSUME ShellInv, ~LongLines, NEW k \in Printable, Insert(k) PROVE Editor!Type(k)
<1> DEFINE t == LineText
           u == Text(line', line_position')
<1>1. LineInv /\ Room /\ IsLine(line, line_position) /\ IsLine(line', line_position')
  BY InsertKeeps, InvIsLine, InvIsLineNext, Zenon DEF ShellInv, ModeInv
<1>2. /\ t \in Seq(Printable) /\ Len(t) = line_position
      /\ \A i \in 1 .. line_position : t[i] = line[i - 1]
  BY <1>1, LineIs, Zenon DEF LineText
<1>3. /\ u \in Seq(Printable) /\ Len(u) = line_position'
      /\ \A i \in 1 .. line_position' : u[i] = line'[i - 1]
  BY <1>1, LineIs, Zenon
<1> HIDE DEF t, u
<1>4. /\ line_position < FINSH_CMD_SIZE - 1
      /\ line_position' = line_position + 1
      /\ line_curpos' = line_curpos + 1
      /\ line' = [i \in Bytes |->
                    CASE i = line_curpos -> k
                      [] i \in line_curpos + 1 .. line_position -> line[i - 1]
                      [] OTHER -> line[i]]
  BY <1>1, Inserted
<1>5. PICK l \in Nat : l = line_curpos + 1
  BY <1>1, Sizes, SMT DEF LineInv
<1>6. line_curpos \in 0 .. Len(t)
  BY <1>1, <1>2 DEF LineInv
<1>7. Len(u) = Len(t) + 1
  BY <1>2, <1>3, <1>4
<1>8. u[l] = k
  <2>1. l \in 1 .. line_position' /\ l - 1 = line_curpos
        /\ line_curpos \in Bytes
    BY <1>1, <1>4, <1>5, Sizes, SMT DEF LineInv, Bytes
  <2>2. line'[line_curpos] = k
    BY <1>4, <2>1
  <2> QED BY <1>3, <2>1, <2>2, Zenon
<1>9. \A i \in 1 .. line_curpos : u[i] = t[i]
  <2> TAKE i \in 1 .. line_curpos
  <2>1. i \in 1 .. line_position' /\ i \in 1 .. line_position /\ i - 1 \in Bytes
        /\ i - 1 # line_curpos /\ i - 1 \notin line_curpos + 1 .. line_position
    BY <1>1, <1>4, Sizes, SMT DEF LineInv, Bytes
  <2>2. line'[i - 1] = line[i - 1]
    BY <1>4, <2>1
  <2> QED BY <1>2, <1>3, <2>1, <2>2, Zenon
<1>10. \A i \in l .. Len(t) : u[i + 1] = t[i]
  <2> TAKE i \in l .. Len(t)
  <2>1. i + 1 \in 1 .. line_position' /\ i \in 1 .. line_position
        /\ (i + 1) - 1 = i /\ i \in Bytes
        /\ i # line_curpos /\ i \in line_curpos + 1 .. line_position
    BY <1>1, <1>2, <1>4, <1>5, Sizes, SMT DEF LineInv, Bytes
  <2>2. line'[i] = line[i - 1]
    BY <1>4, <2>1
  <2>3. u[i + 1] = line'[(i + 1) - 1]
    BY <1>3, <2>1
  <2> QED BY <1>2, <2>1, <2>2, <2>3
<1>11. u = InsertAt(t, l, k)
  BY <1>2, <1>3, <1>5, <1>6, <1>7, <1>8, <1>9, <1>10, InsertIs, Zenon
<1>12. u = Editor!InsertAt(t, line_curpos + 1, k)
  BY <1>5, <1>11, SameOperators, Zenon
<1>13. UNCHANGED <<Lines, current_history + 1>>
  BY LinesKept, Zenon DEF Insert
<1> QED BY <1>4, <1>12, <1>13, Zenon DEF Editor!Type, t, u, LineText, Lines, EntryText

\* A character taken out, or nothing at the beginning of the line.
LEMMA BackspaceErases ==
  ASSUME ShellInv, Backspace
  PROVE  Editor!Erase \/ (line_curpos = 0 /\ UNCHANGED View)
<1> DEFINE t == LineText
           u == Text(line', line_position')
<1>1. LineInv /\ IsLine(line, line_position) /\ IsLine(line', line_position')
  BY BackspaceKeeps, InvIsLine, InvIsLineNext, Zenon DEF ShellInv
<1>2. /\ t \in Seq(Printable) /\ Len(t) = line_position
      /\ \A i \in 1 .. line_position : t[i] = line[i - 1]
  BY <1>1, LineIs, Zenon DEF LineText
<1>3. /\ u \in Seq(Printable) /\ Len(u) = line_position'
      /\ \A i \in 1 .. line_position' : u[i] = line'[i - 1]
  BY <1>1, LineIs, Zenon
<1> HIDE DEF t, u
<1>4. UNCHANGED <<Lines, current_history + 1>>
  BY LinesKept, Zenon DEF Backspace
<1>5. ASSUME UNCHANGED <<line, line_position, line_curpos>>
      PROVE  UNCHANGED View
  BY <1>4, <1>5, Zenon DEF LineText, View
<1>6. ASSUME line_curpos > 0, line_position > 0,
             line_position' = line_position - 1,
             line_curpos' = line_curpos - 1,
             line' = [i \in Bytes |->
                        CASE i = line_position' -> NUL
                          [] i \in line_curpos' .. line_position' - 1 -> line[i + 1]
                          [] OTHER -> line[i]]
      PROVE  Editor!Erase
  <2>1. line_curpos \in 1 .. Len(t)
    BY <1>1, <1>2, <1>6, SMT DEF LineInv
  <2>2. Len(u) = Len(t) - 1
    BY <1>2, <1>3, <1>6
  <2>3. \A i \in 1 .. line_curpos - 1 : u[i] = t[i]
    <3> TAKE i \in 1 .. line_curpos - 1
    <3>1. i \in 1 .. line_position' /\ i \in 1 .. line_position /\ i - 1 \in Bytes
          /\ i - 1 # line_position' /\ i - 1 \notin line_curpos' .. line_position' - 1
      BY <1>1, <1>6, Sizes, SMT DEF LineInv, Bytes
    <3>2. line'[i - 1] = line[i - 1]
      BY <1>6, <3>1
    <3> QED BY <1>2, <1>3, <3>1, <3>2, Zenon
  <2>4. \A i \in line_curpos .. Len(t) - 1 : u[i] = t[i + 1]
    <3> TAKE i \in line_curpos .. Len(t) - 1
    <3>1. i \in 1 .. line_position' /\ i + 1 \in 1 .. line_position /\ i - 1 \in Bytes
          /\ i - 1 # line_position' /\ i - 1 \in line_curpos' .. line_position' - 1
          /\ (i - 1) + 1 = i /\ (i + 1) - 1 = i
      BY <1>1, <1>2, <1>6, Sizes, SMT DEF LineInv, Bytes
    <3>2. line'[i - 1] = line[(i - 1) + 1]
      BY <1>6, <3>1
    <3>3. t[i + 1] = line[(i + 1) - 1] /\ u[i] = line'[i - 1]
      BY <1>2, <1>3, <3>1
    <3> QED BY <3>1, <3>2, <3>3
  <2>5. u = RemoveAt(t, line_curpos)
    BY <1>2, <1>3, <2>1, <2>2, <2>3, <2>4, RemoveIs, Zenon
  <2>6. u = Editor!RemoveAt(t, line_curpos)
    BY <2>5, SameOperators, Zenon
  <2> QED BY <1>4, <1>6, <2>6, Zenon DEF Editor!Erase, t, u, LineText, Lines, EntryText
<1> QED BY <1>5, <1>6, Zenon DEF Backspace

\* The cursor moved, or stopped at an end of the line.
LEMMA MovesMove ==
  ASSUME ShellInv, Left \/ Right
  PROVE  /\ Left => Editor!Move(IF line_curpos > 0 THEN line_curpos - 1 ELSE line_curpos)
         /\ Right => Editor!Move(IF line_curpos < Len(LineText) THEN line_curpos + 1
                                ELSE line_curpos)
<1>1. UNCHANGED <<line, line_position>> /\ UNCHANGED past
  BY Zenon DEF Left, Right, past
<1>2. UNCHANGED <<LineText, Lines, current_history + 1>>
  BY <1>1, LinesKept, Zenon DEF LineText
<1>3. Len(LineText) = line_position
  BY InvIsLine, LineIs, Zenon DEF LineText
<1>4. Left => line_curpos' = IF line_curpos > 0 THEN line_curpos - 1 ELSE line_curpos
  BY SMT DEF ShellInv, LineInv, Left
<1>5. Right => line_curpos' = IF line_curpos < Len(LineText) THEN line_curpos + 1
                              ELSE line_curpos
  BY <1>3, Zenon DEF Right
<1> QED BY <1>2, <1>4, <1>5, Zenon DEF Editor!Move, LineText, Lines, EntryText

\* Completion, which may also find nothing.
LEMMA TabCompletes == ASSUME ShellInv, Tab PROVE Editor!Complete
<1> DEFINE t == LineText
           u == Text(line', line_position')
           found == {n \in Names : t # <<>> /\ IsPrefix(t, n)}
           common == LongestCommonPrefix(found)
<1>1. LineInv /\ IsLine(line, line_position) /\ IsLine(line', line_position')
  BY TabKeeps, InvIsLine, InvIsLineNext, Zenon DEF ShellInv
<1>2. t \in Seq(Printable) /\ Len(t) = line_position
  BY <1>1, LineIs, Zenon DEF LineText
<1>3. /\ u \in Seq(Printable) /\ Len(u) = line_position'
      /\ \A i \in 1 .. line_position' : u[i] = line'[i - 1]
  BY <1>1, LineIs, Zenon
<1>4. FINSH_CMD_SIZE \in Nat /\ line_position \in 0 .. FINSH_CMD_SIZE
  BY <1>1, Sizes, SMT DEF LineInv
<1>5. strlen(line) = line_position
  BY <1>1, <1>4, StrlenIs, Zenon DEF IsLine, Bytes
<1>6. line' = IF found = {} THEN line
              ELSE [i \in Bytes |-> IF i < Len(common) THEN common[i + 1] ELSE line[i]]
  BY <1>5, Zenon DEF Tab, msh_auto_complete, LineText
<1>7. line_position' = strlen(line') /\ line_curpos' = strlen(line')
  BY Zenon DEF Tab
<1> HIDE DEF u
<1>8. u = IF found = {} THEN t ELSE common
  <2>1. CASE found = {}
    <3>1. line' = line /\ line_position' = line_position
      BY <2>1, <1>5, <1>6, <1>7, Zenon
    <3> QED BY <2>1, <3>1, Zenon DEF u, LineText
  <2>2. CASE found # {}
    <3>1. found \in SUBSET Names /\ \A n \in found : IsPrefix(t, n)
      BY Zenon
    <3>2. common \in Seq(Printable) /\ Len(common) \in line_position .. FINSH_CMD_SIZE - 1
      BY <2>2, <1>2, <3>1, Completion, Zenon
    <3>3. line' = [i \in Bytes |-> IF i < Len(common) THEN common[i + 1] ELSE line[i]]
      BY <2>2, <1>6, Zenon
    <3> HIDE DEF t, found, common
    <3>4. common \in [1 .. Len(common) -> Printable]
      BY <3>2, LenProperties, Zenon
    <3>5. line' \in [Bytes -> Char] /\ Clean(line', Len(common))
      BY <1>1, <3>2, <3>3, <3>4, Overwritten, Zenon
    <3>6. Len(common) \in 0 .. FINSH_CMD_SIZE
      BY <1>4, <3>2, SMT
    <3>7. strlen(line') = Len(common)
      BY <1>4, <3>5, <3>6, StrlenIs, Zenon DEF Bytes
    <3>8. Len(u) = Len(common)
      BY <1>3, <1>7, <3>7, Zenon
    <3>9. \A i \in 1 .. Len(u) : u[i] = common[i]
      <4> TAKE i \in 1 .. Len(u)
      <4>1. i - 1 \in Bytes /\ i - 1 < Len(common) /\ (i - 1) + 1 = i
        BY <3>6, <3>8, Sizes, SMT DEF Bytes
      <4>2. line'[i - 1] = common[i]
        BY <3>3, <4>1
      <4>3. u[i] = line'[i - 1]
        BY <1>3, Zenon
      <4> QED BY <4>2, <4>3
    <3>10. u = common
      BY <1>3, <3>2, <3>8, <3>9, SeqEqual, Zenon
    <3> QED BY <2>2, <3>10, Zenon
  <2> QED BY <2>1, <2>2
<1>9. UNCHANGED <<Lines, current_history + 1>>
  BY LinesKept, Zenon DEF Tab
<1>10. line_curpos' = Len(u)
  BY <1>3, <1>7, Zenon
<1>11. found = {n \in Names : t # <<>> /\ Editor!IsPrefix(t, n)}
  BY SameOperators, Zenon
<1>12. u = IF found = {} THEN t ELSE Editor!LongestCommonPrefix(found)
  BY <1>8, SameOperators, Zenon
<1> HIDE DEF found
<1> QED BY <1>9, <1>10, <1>11, <1>12, Zenon DEF Editor!Complete, u, LineText, Lines, EntryText

-----------------------------------------------------------------------------
(* The history.                                                            *)

IsEntry(e) ==
  /\ e \in [EntryBytes -> Char]
  /\ strlen(e) \in 1 .. FINSH_CMD_SIZE - 1
  /\ Clean(e, strlen(e))

\* strlen of an entry is where its zeroes begin.
LEMMA EntryIs ==
  ASSUME NEW e \in [EntryBytes -> Char], NEW n \in 1 .. FINSH_CMD_SIZE - 1, Clean(e, n)
  PROVE  strlen(e) = n /\ IsEntry(e)
<1>1. FINSH_CMD_SIZE - 1 \in Nat /\ n \in 0 .. FINSH_CMD_SIZE - 1
  BY Sizes, SMT
<1>2. strlen(e) = n
  BY <1>1, StrlenIs, Zenon DEF EntryBytes
<1> QED BY <1>2, Zenon DEF IsEntry

\* The numbers of the entries that are in use.
LEMMA InUse ==
  ASSUME NEW n \in 0 .. FINSH_HISTORY_LINES
  PROVE  n \in Nat /\ \A h \in 0 .. n - 1 : h \in Entries
BY Sizes, SMT DEF Entries

\* The entries of the history before and after a step.
LEMMA InvIsPast ==
  ASSUME ShellInv
  PROVE  history_count \in Nat /\ \A h \in 0 .. history_count - 1 : IsEntry(cmd_history[h])
<1>1. history_count \in Nat /\ \A h \in 0 .. history_count - 1 : h \in Entries
  BY InUse, Zenon DEF ShellInv, PastInv
<1> QED BY <1>1, EntryIs, Zenon DEF ShellInv, PastInv, EntriesClean

\* The same of the history after a step.
LEMMA InvIsPastNext ==
  ASSUME ShellInv'
  PROVE  history_count' \in Nat /\ \A h \in 0 .. history_count' - 1 : IsEntry(cmd_history'[h])
<1>1. history_count' \in Nat /\ \A h \in 0 .. history_count' - 1 : h \in Entries
  BY InUse, Zenon DEF ShellInv, PastInv
<1>2. ASSUME NEW h \in 0 .. history_count' - 1 PROVE IsEntry(cmd_history'[h])
  <2>1. PICK n \in 1 .. FINSH_CMD_SIZE - 1 : Clean(cmd_history'[h], n)
    BY Zenon DEF ShellInv, PastInv, EntriesClean
  <2>2. cmd_history'[h] \in [EntryBytes -> Char]
    BY <1>1, Zenon DEF ShellInv, PastInv
  <2> QED BY <2>1, <2>2, EntryIs, Zenon
<1> QED BY <1>1, <1>2

\* The entries, as the user sees them.
LEMMA LinesAre ==
  ASSUME NEW c, NEW n \in Nat, \A h \in 0 .. n - 1 : IsEntry(c[h]),
         NEW l, l = [h \in 1 .. n |-> Text(c[h - 1], strlen(c[h - 1]))]
  PROVE  l \in Seq(Seq(Printable)) /\ Len(l) = n
<1>1. \A h \in 1 .. n : Text(c[h - 1], strlen(c[h - 1])) \in Seq(Printable)
  <2> TAKE h \in 1 .. n
  <2> DEFINE e == c[h - 1]
  <2>1. IsEntry(e)
    <3>1. h - 1 \in 0 .. n - 1
      BY SMT
    <3> QED BY <3>1
  <2> HIDE DEF e
  <2>2. FINSH_CMD_SIZE - 1 \in Nat /\ strlen(e) \in 0 .. FINSH_CMD_SIZE - 1
    BY <2>1, Sizes, SMT DEF IsEntry
  <2>3. Text(e, strlen(e)) \in Seq(Printable)
    BY <2>1, <2>2, TextIs, Zenon DEF IsEntry, EntryBytes
  <2> QED BY <2>3, Zenon DEF e
<1>2. l \in [1 .. n -> Seq(Printable)]
  BY <1>1, Zenon
<1> QED BY <1>2, FunctionIsSeq, Zenon

\* An entry shown is the text the user entered.
LEMMA ShowRecalls ==
  ASSUME ShellInv, NEW h \in 0 .. history_count - 1, ShowHistory(h)
  PROVE  Editor!Recall(h + 1)
<1> DEFINE e == cmd_history[h]
           n == strlen(e)
           u == Text(line', line_position')
<1>1. IsEntry(e) /\ history_count \in Nat
  BY InvIsPast, Zenon
<1>2. IsLine(line', line_position')
  BY ShowHistoryKeeps, Zenon DEF LineInv, IsLine
<1>3. Len(u) = line_position'
  BY <1>2, LineIs, Zenon
<1>4. line' = [i \in Bytes |-> IF i < FINSH_CMD_SIZE THEN e[i] ELSE line[i]]
  BY Zenon DEF ShowHistory
<1> HIDE DEF e, n, u
<1>5. \A i \in EntryBytes : line'[i] = e[i]
  BY <1>4, Sizes, SMT DEF Bytes, EntryBytes
<1>6. /\ n \in 1 .. FINSH_CMD_SIZE - 1 /\ Clean(e, n) /\ DOMAIN e = EntryBytes
      /\ line_position' \in 0 .. FINSH_CMD_SIZE - 1 /\ Clean(line', line_position')
      /\ DOMAIN line' = Bytes
  BY <1>1, <1>2, Zenon DEF IsEntry, IsLine, n
<1>7. line_position' = n
  <2>1. \A i \in EntryBytes : (i >= n) <=> (i >= line_position')
    <3>1. \A i \in EntryBytes : i \in Bytes
      BY Sizes, SMT DEF EntryBytes, Bytes
    <3> QED BY <3>1, <1>5, <1>6, Zenon DEF Clean
  <2>2. n \in EntryBytes /\ line_position' \in EntryBytes
    BY <1>6, Sizes, SMT DEF EntryBytes
  <2>3. n >= line_position' /\ line_position' >= n
    <3>1. n >= n /\ line_position' >= line_position'
      BY <1>6, Sizes, SMT
    <3> QED BY <3>1, <2>1, <2>2, Zenon
  <2> QED BY <2>3, <1>6, Sizes, SMT
<1>8. u = Text(e, n)
  <2>1. \A i \in 1 .. n : line'[i - 1] = e[i - 1]
    <3> TAKE i \in 1 .. n
    <3>1. i - 1 \in EntryBytes
      BY <1>6, Sizes, SMT DEF EntryBytes
    <3> QED BY <3>1, <1>5
  <2>2. u = [i \in 1 .. n |-> line'[i - 1]]
    BY <1>7, Zenon DEF u, Text
  <2> QED BY <2>1, <2>2, Zenon DEF Text
<1>9. PICK k \in 1 .. history_count : k = h + 1 /\ k - 1 = h
  <2>1. h + 1 \in 1 .. history_count /\ (h + 1) - 1 = h
    BY <1>1, SMT
  <2> QED BY <2>1
<1>10. Lines[k] = Text(e, n)
  BY <1>9, Zenon DEF Lines, EntryText, e, n
<1>11. current_history' + 1 = k /\ UNCHANGED <<cmd_history, history_count>>
       /\ line_curpos' = line_position'
  BY <1>9, Zenon DEF ShowHistory
<1>12. UNCHANGED Lines
  BY <1>11, Zenon DEF Lines, EntryText
<1>13. u = Lines[k] /\ line_curpos' = Len(u)
  BY <1>3, <1>8, <1>10, <1>11, Zenon
<1> QED BY <1>9, <1>11, <1>12, <1>13, Zenon DEF Editor!Recall, u, Lines, EntryText

\* How many lines the user sees, and that there are none only at first.
LEMMA LinesLength ==
  ASSUME ShellInv
  PROVE  Len(Lines) = history_count /\ (Lines # <<>> <=> history_count > 0)
<1>1. Lines \in Seq(Seq(Printable)) /\ Len(Lines) = history_count
  BY InvIsPast, LinesAre, Zenon DEF Lines, EntryText
<1>2. Lines = <<>> => Len(Lines) = 0
  BY EmptySeq, Zenon
<1>3. Lines # <<>> => Len(Lines) \in Nat \ {0}
  BY <1>1, EmptySeq, Zenon
<1> QED BY <1>1, <1>2, <1>3, InvIsPast, SMT

\* A key that leaves the line and the history alone.
LEMMA ViewKept ==
  ASSUME UNCHANGED <<line, line_position, line_curpos>>, UNCHANGED past
  PROVE  UNCHANGED View
BY LinesKept, Zenon DEF LineText, View

\* Up shows the line before the one recalled last, if there is one.
LEMMA UpRecalls == ASSUME ShellInv, Up PROVE Editor!Arrow("A")
<1>1. PICK at \in Nat : at = current_history + 1
  BY Sizes, SMT DEF ShellInv, PastInv
<1>2. CASE current_history > 0
  <2>1. current_history - 1 \in 0 .. history_count - 1
        /\ (current_history - 1) + 1 = at - 1 /\ at > 1
    BY <1>1, <1>2, SMT DEF ShellInv, PastInv
  <2>2. Editor!Recall((current_history - 1) + 1)
    BY <1>2, <2>1, ShowRecalls, Zenon DEF Up
  <2>3. Editor!Recall((current_history + 1) - 1)
    BY <1>1, <2>1, <2>2
  <2> QED BY <1>1, <2>1, <2>3, Zenon DEF Editor!Arrow
<1>3. CASE ~(current_history > 0)
  <2>1. UNCHANGED View
    BY <1>3, ViewKept, Zenon DEF Up, past
  <2>2. current_history + 1 = 1
    BY <1>3, SMT DEF ShellInv, PastInv
  <2> QED BY <2>1, <2>2, Zenon DEF Editor!Arrow, Editor!lineVars, View, LineText, Lines, EntryText
<1> QED BY <1>2, <1>3

\* Down shows the line after it, or the newest, if there is one.
LEMMA DownRecalls == ASSUME ShellInv, Down PROVE Editor!Arrow("B")
<1>1. CASE current_history < history_count - 1
  <2>1. current_history + 1 \in 0 .. history_count - 1
        /\ current_history + 1 < history_count
    BY <1>1, SMT DEF ShellInv, PastInv
  <2>2. Editor!Recall((current_history + 1) + 1)
    BY <1>1, <2>1, ShowRecalls, Zenon DEF Down
  <2>3. current_history + 1 < Len(Lines)
    BY <2>1, LinesLength, Zenon
  <2> QED BY <2>2, <2>3, Zenon DEF Editor!Arrow, Lines, EntryText
<1>2. CASE ~(current_history < history_count - 1) /\ history_count # 0
  <2>1. history_count - 1 \in 0 .. history_count - 1
        /\ (history_count - 1) + 1 = history_count /\ history_count > 0
        /\ current_history + 1 >= history_count
    BY <1>2, SMT DEF ShellInv, PastInv
  <2>2. Editor!Recall((history_count - 1) + 1)
    BY <1>2, <2>1, ShowRecalls, Zenon DEF Down
  <2>3. Editor!Recall(Len(Lines)) /\ current_history + 1 >= Len(Lines) /\ Lines # <<>>
    BY <2>1, <2>2, LinesLength
  <2> QED BY <2>3, Zenon DEF Editor!Arrow, Lines, EntryText
<1>3. CASE ~(current_history < history_count - 1) /\ ~(history_count # 0)
  <2>1. UNCHANGED View
    BY <1>3, ViewKept, Zenon DEF Down, past
  <2>2. Lines = <<>>
    BY <1>3, LinesLength, SMT
  <2> QED BY <2>1, <2>2, Zenon DEF Editor!Arrow, Editor!lineVars, View, LineText, Lines, EntryText
<1> QED BY <1>1, <1>2, <1>3

\* The line is the newest entry, byte for byte, if and only if it reads so.
LEMMA SameCommand ==
  ASSUME ShellInv, line_position # 0
  PROVE  IsLastCommand <=> history_count > 0 /\ EntryText(history_count - 1) = LineText
<1> DEFINE e == Entry(line, line_position)
           f == cmd_history[history_count - 1]
           m == strlen(f)
<1>1. LineInv
  BY Zenon DEF ShellInv
<1>2. /\ e \in [EntryBytes -> Char] /\ line_position \in 1 .. FINSH_CMD_SIZE - 1
      /\ Clean(e, line_position) /\ \A i \in EntryBytes : e[i] = line[i]
  BY <1>1, EntryClean, Zenon
<1>3. strlen(e) = line_position
  BY <1>2, EntryIs, Zenon
<1>4. \A i \in 1 .. line_position : (i - 1) \in EntryBytes
  BY <1>2, Sizes, SMT DEF EntryBytes
<1>5. Text(e, line_position) = LineText
  <2>1. \A i \in 1 .. line_position : e[i - 1] = line[i - 1]
    BY <1>2, <1>4, Zenon
  <2> HIDE DEF e
  <2> QED BY <2>1, Zenon DEF Text, LineText
<1>6. history_count > 0 => IsEntry(f)
  <2>1. history_count > 0 => history_count - 1 \in 0 .. history_count - 1
    BY InvIsPast, SMT
  <2> QED BY <2>1, InvIsPast, Zenon
<1>7. IsLastCommand <=> history_count > 0 /\ \A i \in EntryBytes : f[i] = line[i]
  BY Zenon DEF IsLastCommand, EmptyEntry, EntryBytes
<1> HIDE DEF e, f, m
<1>8. ASSUME history_count > 0, \A i \in EntryBytes : f[i] = line[i]
      PROVE  Text(f, m) = LineText
  <2>1. f = e
    <3>1. \A i \in EntryBytes : f[i] = e[i]
      BY <1>2, <1>8, Zenon
    <3>2. f \in [EntryBytes -> Char]
      BY <1>6, <1>8, Zenon DEF IsEntry
    <3>3. f = [i \in EntryBytes |-> f[i]] /\ e = [i \in EntryBytes |-> e[i]]
      BY <3>2, <1>2, Zenon
    <3>4. [i \in EntryBytes |-> f[i]] = [i \in EntryBytes |-> e[i]]
      BY <3>1, Zenon
    <3> QED BY <3>3, <3>4, Zenon
  <2> QED BY <2>1, <1>3, <1>5, Zenon DEF m
<1>9. ASSUME history_count > 0, Text(f, m) = LineText, NEW j \in EntryBytes
      PROVE  f[j] = line[j]
  <2>1. m \in 1 .. FINSH_CMD_SIZE - 1 /\ Clean(f, m) /\ DOMAIN f = EntryBytes
    BY <1>6, <1>9, Zenon DEF IsEntry, m
  <2>2. [i \in 1 .. m |-> f[i - 1]] = [i \in 1 .. line_position |-> e[i - 1]]
    BY <1>5, <1>9, Zenon DEF Text
  <2>3. 1 .. m = 1 .. line_position /\ \A i \in 1 .. m : f[i - 1] = e[i - 1]
    BY <2>2, Zenon
  <2>4. m = line_position
    BY <2>1, <2>3, <1>2, Sizes, SMT
  <2>5. CASE j >= m
    <3>1. DOMAIN e = EntryBytes
      BY <1>2, Zenon
    <3>2. f[j] = NUL /\ e[j] = NUL
      BY <2>1, <2>4, <2>5, <3>1, <1>2, Zenon DEF Clean
    <3> QED BY <3>2, <1>2, Zenon
  <2>6. CASE ~(j >= m)
    <3>1. PICK i \in 1 .. m : i - 1 = j
      <4>1. j + 1 \in 1 .. m /\ (j + 1) - 1 = j
        BY <2>1, <2>6, Sizes, SMT DEF EntryBytes
      <4> QED BY <4>1
    <3> QED BY <3>1, <2>3, <1>2, Zenon
  <2> QED BY <2>5, <2>6
<1>10. EntryText(history_count - 1) = Text(f, m)
  BY Zenon DEF EntryText, f, m
<1> QED BY <1>7, <1>8, <1>9, <1>10, Zenon

\* What Enter does to the lines entered.
LEMMA PushRemembers ==
  ASSUME ShellInv, ShellInv', shell_push_history
  PROVE  /\ Lines' = IF LineText = <<>> \/ (Lines # <<>> /\ Last(Lines) = LineText)
                     THEN Lines
                     ELSE LET all == Append(Lines, LineText)
                          IN IF Len(all) > FINSH_HISTORY_LINES THEN Tail(all) ELSE all
         /\ current_history' + 1 = Len(Lines') + 1
<1> DEFINE all == Append(Lines, LineText)
           e == Entry(line, line_position)
           same == LineText = <<>> \/ (Lines # <<>> /\ Last(Lines) = LineText)
<1>1. LineText \in Seq(Printable) /\ Len(LineText) = line_position /\ line_position \in Nat
  <2>1. line_position \in Nat
    BY Sizes, SMT DEF ShellInv, LineInv
  <2> QED BY <2>1, InvIsLine, LineIs, Zenon DEF LineText
<1>2. history_count \in Nat /\ history_count <= FINSH_HISTORY_LINES
  BY Sizes, SMT DEF ShellInv, PastInv
<1>3. Lines \in Seq(Seq(Printable)) /\ Len(Lines) = history_count
  BY InvIsPast, LinesAre, Zenon DEF Lines, EntryText
<1>4. Lines' \in Seq(Seq(Printable)) /\ Len(Lines') = history_count'
  BY InvIsPastNext, LinesAre, Zenon DEF Lines, EntryText
<1>5. /\ \A i \in 1 .. history_count : Lines[i] = EntryText(i - 1)
      /\ \A i \in 1 .. history_count' :
           Lines'[i] = Text(cmd_history'[i - 1], strlen(cmd_history'[i - 1]))
  BY Zenon DEF Lines, EntryText
<1>6. LineText = <<>> <=> line_position = 0
  <2>1. LineText = <<>> => Len(LineText) = 0
    BY EmptySeq, Zenon
  <2>2. LineText # <<>> => Len(LineText) \in Nat \ {0}
    BY <1>1, EmptySeq, Zenon
  <2> QED BY <2>1, <2>2, <1>1, SMT
<1>7. Lines # <<>> <=> history_count > 0
  <2>1. Lines = <<>> => Len(Lines) = 0
    BY EmptySeq, Zenon
  <2>2. Lines # <<>> => Len(Lines) \in Nat \ {0}
    BY <1>3, EmptySeq, Zenon
  <2> QED BY <2>1, <2>2, <1>2, <1>3, SMT
<1>8. history_count > 0 => Last(Lines) = EntryText(history_count - 1)
  <2>1. history_count > 0 => history_count \in 1 .. history_count
    BY <1>2, SMT
  <2> QED BY <2>1, <1>3, <1>5, Zenon DEF Last
<1>9. same <=> line_position = 0 \/ IsLastCommand
  BY <1>6, <1>7, <1>8, SameCommand, Zenon
<1>10. /\ all \in Seq(Seq(Printable)) /\ Len(all) = history_count + 1
       /\ \A i \in 1 .. history_count : all[i] = Lines[i]
       /\ all[history_count + 1] = LineText /\ all # <<>>
  <2>1. /\ all \in Seq(Seq(Printable)) /\ Len(all) = Len(Lines) + 1
        /\ \A i \in 1 .. Len(Lines) : all[i] = Lines[i]
        /\ all[Len(Lines) + 1] = LineText /\ all # <<>>
    BY <1>1, <1>3, AppendProperties
  <2> QED BY <2>1, <1>3, Zenon
<1> HIDE DEF all, same
<1>11. CASE current_history' = history_count /\ UNCHANGED <<cmd_history, history_count>>
            /\ (line_position = 0 \/ IsLastCommand)
  <2>1. Lines' = Lines
    BY <1>11, Zenon DEF Lines, EntryText
  <2>2. current_history' + 1 = Len(Lines') + 1
    BY <1>4, <1>11, Zenon
  <2> QED BY <2>1, <2>2, <1>9, <1>11, Zenon DEF same, all
<1>12. ASSUME line_position # 0
       PROVE  strlen(e) = line_position /\ Text(e, line_position) = LineText
  <2>1. LineInv
    BY Zenon DEF ShellInv
  <2>2. /\ e \in [EntryBytes -> Char] /\ line_position \in 1 .. FINSH_CMD_SIZE - 1
        /\ Clean(e, line_position) /\ \A i \in EntryBytes : e[i] = line[i]
    BY <2>1, <1>12, EntryClean, Zenon
  <2>3. strlen(e) = line_position
    BY <2>2, EntryIs, Zenon
  <2>4. \A i \in 1 .. line_position : e[i - 1] = line[i - 1]
    <3>1. \A i \in 1 .. line_position : i - 1 \in EntryBytes
      BY <2>2, Sizes, SMT DEF EntryBytes
    <3> QED BY <3>1, <2>2, Zenon
  <2> HIDE DEF e
  <2>5. Text(e, line_position) = LineText
    BY <2>4, Zenon DEF Text, LineText
  <2> QED BY <2>3, <2>5
<1> HIDE DEF e
<1>13. cmd_history \in [Entries -> [EntryBytes -> Char]]
  BY Zenon DEF ShellInv, PastInv
<1>14. ASSUME line_position # 0, ~IsLastCommand,
              history_count < FINSH_HISTORY_LINES,
              cmd_history' = [cmd_history EXCEPT ![history_count] = e],
              history_count' = history_count + 1,
              current_history' = history_count + 1
       PROVE  Lines' = all /\ current_history' + 1 = Len(Lines') + 1 /\ ~same
              /\ ~(Len(all) > FINSH_HISTORY_LINES)
  <2>1. history_count \in Entries
    BY <1>2, <1>14, Sizes, SMT DEF Entries
  <2>2. cmd_history'[history_count] = e
        /\ \A h \in Entries : h # history_count => cmd_history'[h] = cmd_history[h]
    BY <1>13, <1>14, <2>1, Zenon
  <2>3. \A i \in 1 .. Len(Lines') : Lines'[i] = all[i]
    <3> TAKE i \in 1 .. Len(Lines')
    <3>1. i \in 1 .. history_count'
      BY <1>4, Zenon
    <3>2. CASE i = history_count + 1
      <4>1. i - 1 = history_count
        BY <1>2, <3>2, SMT
      <4>2. Lines'[i] = Text(e, strlen(e))
        BY <4>1, <3>1, <1>5, <2>2, Zenon
      <4> QED BY <4>2, <3>2, <1>10, <1>12, <1>14, Zenon
    <3>3. CASE i # history_count + 1
      <4>1. i \in 1 .. history_count /\ i - 1 \in Entries /\ i - 1 # history_count
        BY <1>2, <1>14, <3>1, <3>3, Sizes, SMT DEF Entries
      <4>2. Lines'[i] = Lines[i]
        BY <4>1, <3>1, <1>5, <2>2, Zenon DEF EntryText
      <4> QED BY <4>1, <4>2, <1>10, Zenon
    <3> QED BY <3>2, <3>3
  <2>4. Len(Lines') = Len(all)
    BY <1>4, <1>10, <1>14, Zenon
  <2>5. Lines' = all
    BY <1>4, <1>10, <2>3, <2>4, SeqEqual, Zenon
  <2>6. ~(Len(all) > FINSH_HISTORY_LINES)
    BY <1>2, <1>10, <1>14, Sizes, SMT
  <2>7. current_history' + 1 = Len(Lines') + 1
    BY <1>4, <1>14, Zenon
  <2> QED BY <2>5, <2>6, <2>7, <1>9, <1>14, Zenon
<1>15. ASSUME line_position # 0, ~IsLastCommand,
              history_count = FINSH_HISTORY_LINES,
              cmd_history' = [h \in Entries |-> IF h = FINSH_HISTORY_LINES - 1 THEN e
                                                ELSE cmd_history[h + 1]],
              current_history' = history_count,
              UNCHANGED history_count
       PROVE  Lines' = Tail(all) /\ current_history' + 1 = Len(Lines') + 1 /\ ~same
              /\ Len(all) > FINSH_HISTORY_LINES
  <2>1. /\ Tail(all) \in Seq(Seq(Printable)) /\ Len(Tail(all)) = Len(all) - 1
        /\ \A i \in 1 .. Len(Tail(all)) : Tail(all)[i] = all[i + 1]
    BY <1>10, HeadTailProperties, Zenon
  <2>2. Len(Lines') = Len(Tail(all))
    BY <1>2, <1>4, <1>10, <1>15, <2>1, SMT
  <2>3. \A i \in 1 .. Len(Lines') : Lines'[i] = Tail(all)[i]
    <3> TAKE i \in 1 .. Len(Lines')
    <3>1. i \in 1 .. history_count' /\ i \in 1 .. Len(Tail(all))
      BY <1>4, <2>2, Zenon
    <3>2. i - 1 \in Entries /\ (i - 1) + 1 = i
      BY <1>15, <3>1, Sizes, SMT DEF Entries
    <3>3. CASE i = history_count
      <4>1. i - 1 = FINSH_HISTORY_LINES - 1
        BY <1>15, <3>3
      <4>2. cmd_history'[i - 1] = e
        BY <4>1, <3>2, <1>15, Zenon
      <4>3. Lines'[i] = Text(e, strlen(e))
        BY <4>2, <3>1, <1>5, Zenon
      <4> QED BY <4>3, <3>1, <3>3, <2>1, <1>10, <1>12, <1>15, Zenon
    <3>4. CASE i # history_count
      <4>1. i - 1 # FINSH_HISTORY_LINES - 1 /\ i + 1 \in 1 .. history_count /\ (i + 1) - 1 = i
        BY <1>15, <3>1, <3>4, Sizes, SMT
      <4>2. cmd_history'[i - 1] = cmd_history[i]
        BY <4>1, <3>2, <1>15, Zenon
      <4>3. Lines'[i] = EntryText(i)
        BY <4>2, <3>1, <1>5, Zenon DEF EntryText
      <4>4. Lines[i + 1] = EntryText(i)
        BY <4>1, <1>5, Zenon
      <4> QED BY <4>1, <4>3, <4>4, <3>1, <2>1, <1>10, Zenon
    <3> QED BY <3>3, <3>4
  <2>4. Lines' = Tail(all)
    BY <1>4, <2>1, <2>2, <2>3, SeqEqual, Zenon
  <2>5. Len(all) > FINSH_HISTORY_LINES
    BY <1>10, <1>15, Sizes, SMT
  <2>6. current_history' + 1 = Len(Lines') + 1
    BY <1>4, <1>15, Zenon
  <2> QED BY <2>4, <2>5, <2>6, <1>9, <1>15, Zenon
<1> QED BY <1>11, <1>14, <1>15, Zenon DEF shell_push_history, e, same, all

\* The line entered joins the history and leaves.
LEMMA EnterEnters == ASSUME ShellInv, Enter PROVE Editor!Enter
<1>1. ShellInv'
  BY EnterKeeps
<1>2. /\ Lines' = IF LineText = <<>> \/ (Lines # <<>> /\ Last(Lines) = LineText)
                  THEN Lines
                  ELSE LET all == Append(Lines, LineText)
                       IN IF Len(all) > FINSH_HISTORY_LINES THEN Tail(all) ELSE all
      /\ current_history' + 1 = Len(Lines') + 1
  BY <1>1, PushRemembers, Zenon DEF Enter
<1>3. Text(line', line_position') = <<>>
  <2>1. line_position' = 0
    BY Zenon DEF Enter
  <2>2. Len(Text(line', line_position')) = 0
        /\ Text(line', line_position') \in Seq(Printable)
    BY <1>1, <2>1, InvIsLineNext, LineIs, Zenon
  <2>3. ~(0 \in Nat \ {0})
    OBVIOUS
  <2> QED BY <2>2, <2>3, EmptySeq, Zenon
<1>4. line_curpos' = 0
  BY Zenon DEF Enter
<1>5. Last(Lines) = Editor!Last(Lines)
  BY SameOperators, Zenon
<1> QED BY <1>2, <1>3, <1>4, <1>5, Zenon DEF Editor!Enter, LineText, Lines, EntryText

-----------------------------------------------------------------------------

\* An empty line and no history.
LEMMA InitIsEmpty == ShellInit => Editor!EditorInit
<1> SUFFICES ASSUME ShellInit PROVE Editor!EditorInit
  OBVIOUS
<1>1. IsLine(line, line_position) /\ line_position = 0
  BY InitHolds, InvIsLine, Zenon DEF ShellInit
<1>2. ~(0 \in Nat \ {0}) /\ 0 + 1 = 1
  OBVIOUS
<1>3. LineText = <<>>
  <2>1. Len(LineText) = 0 /\ LineText \in Seq(Printable)
    BY <1>1, LineIs, Zenon DEF LineText
  <2> QED BY <2>1, <1>2, EmptySeq, Zenon
<1>4. Lines = <<>>
  <2>1. Lines \in Seq(Seq(Printable)) /\ Len(Lines) = history_count /\ history_count = 0
    <3>1. Lines \in Seq(Seq(Printable)) /\ Len(Lines) = history_count
      BY InitHolds, InvIsPast, LinesAre, Zenon DEF Lines, EntryText
    <3> QED BY <3>1, Zenon DEF ShellInit
  <2> QED BY <2>1, <1>2, EmptySeq, Zenon
<1>5. line_curpos = 0 /\ current_history + 1 = 1 /\ ch = NoKey /\ stat = "WAIT_NORMAL"
  BY <1>2, Zenon DEF ShellInit
<1> QED BY <1>3, <1>4, <1>5, Zenon DEF Editor!EditorInit, LineText, Lines, EntryText

\* The same keys belong to an escape sequence.
LEMMA SequenceIs ==
  ASSUME ShellInv
  PROVE  /\ Begun = 1 <=> stat = "WAIT_SPEC_KEY"
         /\ Begun = 2 <=> stat = "WAIT_FUNC_KEY"
         /\ \A k : Editor!InSequence(k) <=> Continues(k)
<1>1. /\ Begun = 1 <=> stat = "WAIT_SPEC_KEY"
      /\ Begun = 2 <=> stat = "WAIT_FUNC_KEY"
  BY SMT DEF ShellInv, ModeInv, Begun
<1> QED BY <1>1, Zenon DEF Editor!InSequence, Continues, Arrows, Begun

\* A key that ends an escape sequence as an arrow.
LEMMA ArrowWorks ==
  ASSUME ShellInv, NEW k \in Arrows, ArrowKey(k), Editor!Arrow(k) PROVE Editor!Work
<1>1. ch = k /\ ch' = NoKey /\ stat' = "WAIT_NORMAL" /\ stat = "WAIT_FUNC_KEY"
  BY Zenon DEF ArrowKey, Handled
<1>2. k # NoKey /\ Continues(k)
  BY <1>1 DEF Arrows, NoKey, Continues
<1>3. Begun = 2 /\ Begun' = 0 /\ Editor!InSequence(k)
  BY <1>1, <1>2, SequenceIs, Zenon DEF Begun
<1> QED BY <1>1, <1>2, <1>3, Zenon DEF Editor!Work, Begun

\* A key that is itself, also in the middle of an escape sequence.
LEMMA PlainWorks ==
  ASSUME ShellInv, NEW k, k # NoKey, PlainKey(k), Editor!Plain(k) PROVE Editor!Work
<1>1. ch = k /\ ch' = NoKey /\ stat' = "WAIT_NORMAL" /\ ~Continues(k)
  BY Zenon DEF PlainKey, Handled
<1>2. Begun' = 0 /\ ~Editor!InSequence(k)
  BY <1>1, SequenceIs, Zenon DEF Begun
<1> QED BY <1>1, <1>2, Zenon DEF Editor!Work, Begun

\* The first two keys of an escape sequence.
LEMMA SequenceWorks == ASSUME ShellInv, Escape \/ Bracket PROVE Editor!Work
<1>1. UNCHANGED View
  BY ViewKept, Zenon DEF Escape, Bracket
<1>2. UNCHANGED Editor!lineVars
  BY <1>1, Zenon DEF Editor!lineVars, View, LineText, Lines, EntryText
<1>3. CASE Escape
  <2>1. ch = "esc" /\ ch' = NoKey /\ stat' = "WAIT_SPEC_KEY" /\ "esc" # NoKey
    BY <1>3 DEF Escape, Handled, NoKey
  <2>2. Begun' = 1
    BY <2>1 DEF Begun
  <2> QED BY <1>2, <2>1, <2>2, Zenon DEF Editor!Work, Begun
<1>4. CASE Bracket
  <2>1. /\ ch = "[" /\ ch' = NoKey /\ stat' = "WAIT_FUNC_KEY" /\ "[" # NoKey
        /\ stat = "WAIT_SPEC_KEY"
    BY <1>4 DEF Bracket, Handled, NoKey
  <2>2. Begun' = 2
    BY <2>1 DEF Begun
  <2>3. Begun = 1 /\ Editor!InSequence("[")
    BY <2>1, SequenceIs, Zenon DEF Continues
  <2> QED BY <1>2, <2>1, <2>2, <2>3, Zenon DEF Editor!Work, Begun
<1> QED BY <1>3, <1>4

\* The four arrows.
LEMMA ArrowsWork == ASSUME ShellInv, Up \/ Down \/ Left \/ Right PROVE Editor!Work
<1>1. {"A", "B", "C", "D"} \subseteq Arrows
  BY Zenon DEF Arrows
<1>2. ASSUME Up PROVE Editor!Work
  BY <1>1, <1>2, UpRecalls, ArrowWorks, Zenon DEF Up
<1>3. ASSUME Down PROVE Editor!Work
  BY <1>1, <1>3, DownRecalls, ArrowWorks, Zenon DEF Down
<1>4. ASSUME Left PROVE Editor!Work
  <2>1. Editor!Arrow("D")
    BY <1>4, MovesMove, Zenon DEF Editor!Arrow, LineText
  <2> QED BY <1>1, <1>4, <2>1, ArrowWorks, Zenon DEF Left
<1>5. ASSUME Right PROVE Editor!Work
  <2>1. Editor!Arrow("C")
    BY <1>5, MovesMove, Zenon DEF Editor!Arrow, LineText
  <2> QED BY <1>1, <1>5, <2>1, ArrowWorks, Zenon DEF Right
<1> QED BY <1>2, <1>3, <1>4, <1>5

\* The other keys.
LEMMA PlainKeysWork ==
  ASSUME ShellInv, ~LongLines, Null \/ Tab \/ Backspace \/ Enter \/ \E k \in Printable : Insert(k)
  PROVE  Editor!Work
<1>1. NoKey \notin {"nul", "tab", "backspace", "enter"}
  BY DEF NoKey
<1>2. ASSUME Null PROVE Editor!Work
  <2>1. UNCHANGED View
    BY <1>2, ViewKept, Zenon DEF Null
  <2>2. Editor!Plain("nul")
    BY <2>1, Zenon DEF Editor!Plain, Editor!lineVars, View, LineText, Lines, EntryText
  <2> QED BY <1>1, <1>2, <2>2, PlainWorks, Zenon DEF Null
<1>3. ASSUME Tab PROVE Editor!Work
  <2>1. Editor!Plain("tab")
    BY <1>3, TabCompletes, Zenon DEF Editor!Plain
  <2> QED BY <1>1, <1>3, <2>1, PlainWorks, Zenon DEF Tab
<1>4. ASSUME Backspace PROVE Editor!Work
  <2>1. Editor!Plain("backspace")
    BY <1>4, BackspaceErases, Zenon
       DEF Editor!Plain, Editor!lineVars, View, LineText, Lines, EntryText
  <2> QED BY <1>1, <1>4, <2>1, PlainWorks, Zenon DEF Backspace
<1>5. ASSUME Enter PROVE Editor!Work
  <2>1. Editor!Plain("enter")
    BY <1>5, EnterEnters, Zenon DEF Editor!Plain
  <2> QED BY <1>1, <1>5, <2>1, PlainWorks, Zenon DEF Enter
<1>6. ASSUME NEW k \in Printable, Insert(k) PROVE Editor!Work
  <2>1. Editor!Plain(k)
    BY <1>6, InsertTypes, Zenon DEF Editor!Plain
  <2> QED BY <1>6, <2>1, NoKeyIsNoChar, PlainWorks, Zenon DEF Insert
<1> QED BY <1>2, <1>3, <1>4, <1>5, <1>6

\* The byte array with its two positions and the array of entries are a text
\* with a cursor and a list of lines: every key that is read does to them the
\* one thing the user of a line editor expects of it, also one that breaks an
\* escape sequence off.
THEOREM RefinesEditor == ASSUME ~LongLines PROVE ShellSpec => ImplementsEditor
<1>1. ASSUME ShellInv, [ShellNext]_shellVars
      PROVE  [Editor!EditorNext]_(Editor!editorVars)
  <2>1. CASE UNCHANGED shellVars
    <3>1. UNCHANGED View /\ UNCHANGED <<ch, stat>>
      BY <2>1, ViewKept, Zenon DEF shellVars, shell
    <3> QED BY <3>1, Zenon
            DEF Editor!editorVars, Editor!lineVars, View, LineText, Lines, EntryText
  <2>2. CASE Getchar
    <3>1. UNCHANGED View /\ UNCHANGED stat
      BY <2>2, ViewKept, Zenon DEF Getchar
    <3>2. ch = NoKey /\ ch' \in Keys
      BY <2>2, Zenon DEF Getchar
    <3> QED BY <3>1, <3>2, Zenon
            DEF Editor!EditorNext, Editor!Press, Editor!lineVars, View, LineText, Lines, EntryText
  <2>3. CASE \/ Escape \/ Bracket \/ Up \/ Down \/ Left \/ Right
             \/ Null \/ Tab \/ Backspace \/ Enter \/ \E k \in Printable : Insert(k)
    BY <1>1, <2>3, SequenceWorks, ArrowsWork, PlainKeysWork, Zenon DEF Editor!EditorNext
  <2> QED BY <1>1, <2>1, <2>2, <2>3, Zenon DEF ShellNext
<1>2. ShellInv /\ [ShellNext]_shellVars => [Editor!EditorNext]_(Editor!editorVars)
  BY <1>1
<1> QED BY <1>2, InitIsEmpty, EditorInvariant, PTL
        DEF ShellSpec, ImplementsEditor, Editor!EditorSpec
=============================================================================

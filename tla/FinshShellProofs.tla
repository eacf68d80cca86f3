-------------------------- MODULE FinshShellProofs --------------------------
(***************************************************************************)
(* Theorems about FinshShell for every line length, history length, set of *)
(* characters and set of command names, as long as the operator types no   *)
(* line of FINSH_CMD_SIZE characters: with one, ShellLong shows that they  *)
(* are false.                                                              *)
(***************************************************************************)
EXTENDS FinshShell, SequenceTheorems, WellFoundedInduction, TLAPS

\* A zero byte is not a character.
LEMMA NulIsNoChar == NUL \notin Printable
BY ShellAssumption, Zenon DEF NUL, Control

\* Nor is it one that no key has been read.
LEMMA NoKeyIsNoChar == NoKey \notin Printable
BY ShellAssumption, Zenon

\* A line has room for one character, the history for one line.
LEMMA Sizes == /\ FINSH_CMD_SIZE \in Nat /\ FINSH_CMD_SIZE > 1
               /\ FINSH_HISTORY_LINES \in Nat /\ FINSH_HISTORY_LINES > 0
BY ShellAssumption

\* strlen finds the one place where the zeroes begin.
LEMMA StrlenIs ==
  ASSUME NEW s, NEW m \in Nat, DOMAIN s = 0 .. m,
         NEW n \in 0 .. m, Clean(s, n)
  PROVE  strlen(s) = n
<1> DEFINE Ends(k) == s[k] = NUL /\ \A i \in 0 .. k - 1 : s[i] # NUL
<1>1. Ends(n)
  BY SMT DEF Clean
<1>2. ASSUME NEW k \in 0 .. m, Ends(k) PROVE k = n
  <2>1. k >= n
    BY <1>2, SMT DEF Clean
  <2>2. ~(n <= k - 1)
    <3>1. CASE n <= k - 1
      <4>1. n \in 0 .. k - 1
        BY <3>1, SMT
      <4>2. s[n] # NUL
        BY <4>1, <1>2
      <4> QED BY <4>2, <1>1
    <3> QED BY <3>1
  <2> QED BY <2>1, <2>2, SMT
<1>3. strlen(s) = CHOOSE k \in 0 .. m : Ends(k)
  BY Zenon DEF strlen
<1>4. \E k \in 0 .. m : Ends(k)
  BY <1>1
<1> HIDE DEF Ends
<1>5. strlen(s) \in 0 .. m /\ Ends(strlen(s))
  BY <1>3, <1>4, Zenon
<1> QED BY <1>5, <1>2

\* A common prefix of names is a string of at most their length.
LEMMA PrefixTyped ==
  ASSUME NEW found \in SUBSET Names, NEW p \in CommonPrefixes(found)
  PROVE  p \in Seq(Printable) /\ Len(p) \in 0 .. FINSH_CMD_SIZE - 1
<1>1. PICK n \in found : p \in Prefixes(n)
  BY Zenon DEF CommonPrefixes
<1>2. n \in Seq(Printable) /\ Len(n) \in 1 .. FINSH_CMD_SIZE - 1
  BY ShellAssumption, Zenon
<1>3. PICK l \in 0 .. Len(n) : p = SubSeq(n, 1, l)
  BY <1>1, Zenon DEF Prefixes
<1>4. Len(n) \in Nat /\ DOMAIN n = 1 .. Len(n) /\ n \in [1 .. Len(n) -> Printable]
  BY <1>2, LenProperties, Zenon
<1>5. 1 \in Int /\ l \in Int
  BY <1>3, <1>4, SMT
<1>6. \A i \in 1 .. l : n[i] \in Printable
  <2> TAKE i \in 1 .. l
  <2>1. i \in 1 .. Len(n)
    BY <1>3, <1>4, SMT
  <2> QED BY <2>1, <1>4, Zenon
<1>7. p \in Seq(Printable) /\ Len(p) = IF 1 <= l THEN l - 1 + 1 ELSE 0
  <2>1. /\ SubSeq(n, 1, l) \in Seq(Printable)
        /\ Len(SubSeq(n, 1, l)) = IF 1 <= l THEN l - 1 + 1 ELSE 0
    BY <1>5, <1>6, SubSeqProperties
  <2> QED BY <2>1, <1>3, Zenon
<1>8. FINSH_CMD_SIZE \in Nat /\ Len(n) <= FINSH_CMD_SIZE - 1
  BY <1>2, Sizes, SMT
<1> HIDE <1>2
<1>9. Len(p) \in 0 .. FINSH_CMD_SIZE - 1
  <2>1. l \in Nat /\ l <= Len(n)
    BY <1>3, <1>4, SMT
  <2>2. Len(p) = l
    BY <2>1, <1>7, SMT
  <2> QED BY <2>1, <2>2, <1>4, <1>8, SMT
<1> QED BY <1>7, <1>9

\* Completion never takes a character away and never fills the line.
LEMMA Completion ==
  ASSUME NEW typed \in Seq(Printable), NEW found \in SUBSET Names, found # {},
         \A n \in found : IsPrefix(typed, n)
  PROVE  LET common == LongestCommonPrefix(found)
         IN common \in Seq(Printable) /\ Len(common) \in Len(typed) .. FINSH_CMD_SIZE - 1
<1> DEFINE CP == CommonPrefixes(found)
           Rest == {FINSH_CMD_SIZE - Len(p) : p \in CP}
           Longest(l) == \A other \in CP : Len(other) <= Len(l)
<1>1. typed \in CP
  <2>1. PICK n \in found : TRUE
    OBVIOUS
  <2>2. Len(typed) <= Len(n) /\ SubSeq(typed, 1, Len(typed)) = SubSeq(n, 1, Len(typed))
    BY <2>1, Zenon DEF IsPrefix
  <2>3. typed = SubSeq(n, 1, Len(typed))
    BY <2>2, SubSeqFull, Zenon
  <2>4. n \in Seq(Printable)
    BY ShellAssumption, Zenon
  <2>5. Len(typed) \in Nat /\ Len(n) \in Nat
    BY <2>4, LenProperties, Zenon
  <2>6. Len(typed) \in 0 .. Len(n)
    BY <2>2, <2>5, SMT
  <2>7. typed \in Prefixes(n)
    BY <2>3, <2>6, Zenon DEF Prefixes
  <2> QED BY <2>7, Zenon DEF CommonPrefixes
<1>2. \A p \in CP : p \in Seq(Printable) /\ Len(p) \in 0 .. FINSH_CMD_SIZE - 1
  BY PrefixTyped, Zenon
<1>3. \A p \in CP : FINSH_CMD_SIZE - Len(p) \in Nat /\ Len(p) \in Nat
  <2> TAKE p \in CP
  <2>1. Len(p) \in 0 .. FINSH_CMD_SIZE - 1
    BY <1>2, Zenon
  <2> HIDE DEF CP
  <2> QED BY <2>1, Sizes, SMT
<1> HIDE DEF CP
<1>4. Rest \subseteq Nat /\ Rest # {}
  BY <1>1, <1>3, Zenon
<1>5. PICK least \in Rest : \A y \in Rest : ~(<<y, least>> \in OpToRel(<, Nat))
  BY <1>4, WFMin, NatLessThanWellFounded, Zenon
<1>6. PICK l \in CP : least = FINSH_CMD_SIZE - Len(l)
  BY <1>5, Zenon
<1>7. Longest(l)
  <2> SUFFICES ASSUME NEW other \in CP PROVE Len(other) <= Len(l)
    OBVIOUS
  <2>1. FINSH_CMD_SIZE - Len(other) \in Rest
    BY Zenon
  <2>2. ~(FINSH_CMD_SIZE - Len(other) < FINSH_CMD_SIZE - Len(l))
    BY <2>1, <1>4, <1>5, <1>6, Zenon DEF OpToRel
  <2>3. Len(other) \in Nat /\ Len(l) \in Nat
    BY <1>3, Zenon
  <2> QED BY <2>2, <2>3, Sizes, SMT
<1>8. LongestCommonPrefix(found) = CHOOSE longest \in CP : Longest(longest)
  BY Zenon DEF LongestCommonPrefix, CP
<1>9. LongestCommonPrefix(found) \in CP /\ Longest(LongestCommonPrefix(found))
  BY <1>6, <1>7, <1>8, Zenon
<1>10. Len(typed) <= Len(LongestCommonPrefix(found))
  BY <1>1, <1>9, Zenon
<1>11. Len(typed) \in Nat
  BY LenProperties, Zenon
<1>12. LongestCommonPrefix(found) \in Seq(Printable)
       /\ Len(LongestCommonPrefix(found)) \in 0 .. FINSH_CMD_SIZE - 1
  BY <1>2, <1>9, Zenon
<1>13. Len(LongestCommonPrefix(found)) \in Len(typed) .. FINSH_CMD_SIZE - 1
  BY <1>10, <1>11, <1>12, Sizes, SMT
<1> QED BY <1>12, <1>13, Zenon

-----------------------------------------------------------------------------
(* The inductive invariant.  CleanLine speaks of strlen, which is the      *)
(* length only while an array is clean; EntriesClean says so without it.   *)
(* NoRepeats is needed on bytes, since that is what memcmp compares.  Room *)
(* carries the operator's choice not to fill the line from getchar to the  *)
(* handling of the key.                                                    *)

Char == Printable \cup {NUL}
EntryBytes == 0 .. FINSH_CMD_SIZE - 1

LineInv ==
  /\ line \in [Bytes -> Char]
  /\ line_position \in 0 .. FINSH_CMD_SIZE - 1
  /\ line_curpos \in 0 .. line_position
  /\ Clean(line, line_position)

EntriesClean ==
  \A h \in 0 .. history_count - 1 :
    \E n \in 1 .. FINSH_CMD_SIZE - 1 : Clean(cmd_history[h], n)

PastInv ==
  /\ cmd_history \in [Entries -> [EntryBytes -> Char]]
  /\ history_count \in 0 .. FINSH_HISTORY_LINES
  /\ current_history \in 0 .. history_count
  /\ EntriesClean
  /\ \A h \in 1 .. history_count - 1 : cmd_history[h] # cmd_history[h - 1]

Room ==
  ch \in Printable /\ ~Continues(ch) => LongLines \/ line_position < FINSH_CMD_SIZE - 1

ModeInv ==
  /\ ch \in Keys \cup {NoKey}
  /\ Room
  /\ stat \in {"WAIT_NORMAL", "WAIT_SPEC_KEY", "WAIT_FUNC_KEY"}
  /\ quit_flag \in BOOLEAN

ShellInv == ModeInv /\ LineInv /\ PastInv

\* The shell begins with an empty line and no history.
LEMMA InitHolds == ShellInit => ShellInv
<1> SUFFICES ASSUME ShellInit PROVE ShellInv
  OBVIOUS
<1>1. ModeInv
  BY NoKeyIsNoChar, Zenon DEF ShellInit, ModeInv, Room
<1>2. LineInv
  BY Sizes, SMT DEF ShellInit, LineInv, Clean, EmptyLine, Bytes, Char
<1>3. cmd_history \in [Entries -> [EntryBytes -> Char]]
  BY Zenon DEF ShellInit, EmptyEntry, EntryBytes, Char
<1>4. PastInv
  BY <1>3, Sizes, SMT DEF ShellInit, PastInv, EntriesClean
<1> QED BY <1>1, <1>2, <1>4 DEF ShellInv

\* A key that has been dealt with leaves the loop waiting for the next one.
LEMMA HandledKeeps ==
  ASSUME NEW k, NEW next \in {"WAIT_NORMAL", "WAIT_SPEC_KEY", "WAIT_FUNC_KEY"},
         Handled(k, next), quit_flag' \in BOOLEAN
  PROVE  ModeInv'
<1>1. ch' = NoKey /\ stat' = next
  BY Zenon DEF Handled
<1> QED BY <1>1, NoKeyIsNoChar, Zenon DEF ModeInv, Room

\* A key is read where there is room for it, if it is to be put in.
LEMMA GetcharKeeps == ASSUME ShellInv, Getchar PROVE ShellInv'
<1>1. ch' \in Keys /\ Room'
  <2>1. UNCHANGED <<stat, line_position>>
    BY Zenon DEF Getchar
  <2>2. PICK k \in Keys :
          /\ ch' = k
          /\ Continues(k) \/ k \in Control \/ LongLines \/ line_position < FINSH_CMD_SIZE - 1
    BY Zenon DEF Getchar
  <2>3. k \in Printable => k \notin Control
    BY ShellAssumption, Zenon
  <2>4. Continues(k) => Continues(ch)'
    BY <2>1, <2>2, Zenon DEF Continues
  <2> QED BY <2>1, <2>2, <2>3, <2>4, Zenon DEF Room, Continues
<1>2. UNCHANGED <<stat, line, line_position, line_curpos, quit_flag>> /\ UNCHANGED past
  BY Zenon DEF Getchar
<1>3. ModeInv'
  BY <1>1, <1>2, Zenon DEF ShellInv, ModeInv
<1>4. LineInv'
  BY <1>2, Zenon DEF ShellInv, LineInv
<1>5. PastInv'
  BY <1>2, Zenon DEF ShellInv, PastInv, EntriesClean, past
<1> QED BY <1>3, <1>4, <1>5 DEF ShellInv

\* A line shown from the history ends where its entry ends.
LEMMA ShowHistoryKeeps ==
  ASSUME ShellInv, NEW h \in 0 .. history_count - 1, ShowHistory(h)
  PROVE  LineInv' /\ PastInv'
<1>1. PICK n \in 1 .. FINSH_CMD_SIZE - 1 : Clean(cmd_history[h], n)
  BY Zenon DEF ShellInv, PastInv, EntriesClean
<1>2. h \in Entries
  BY Sizes, SMT DEF ShellInv, PastInv, Entries
<1>3. cmd_history[h] \in [EntryBytes -> Char]
  BY <1>2, Zenon DEF ShellInv, PastInv
<1>4. line' = [i \in Bytes |-> IF i < FINSH_CMD_SIZE THEN cmd_history[h][i] ELSE line[i]]
  BY Zenon DEF ShowHistory
<1>5. line \in [Bytes -> Char] /\ Clean(line, line_position)
      /\ line_position \in 0 .. FINSH_CMD_SIZE - 1
  BY Zenon DEF ShellInv, LineInv
<1>6. line' \in [Bytes -> Char]
  BY <1>3, <1>4, <1>5, Sizes, SMT DEF Bytes, EntryBytes
<1>7. Clean(line', n)
  BY <1>1, <1>3, <1>4, <1>5, Sizes, SMT DEF Clean, Bytes, EntryBytes
<1>8. n \in 0 .. FINSH_CMD_SIZE /\ FINSH_CMD_SIZE \in Nat
  BY <1>1, Sizes, SMT
<1>9. DOMAIN line' = 0 .. FINSH_CMD_SIZE
  BY <1>6, Zenon DEF Bytes
<1>10. strlen(line') = n
  BY <1>7, <1>8, <1>9, StrlenIs, Zenon
<1>11. line_position' = n /\ line_curpos' = n
  BY <1>10, Zenon DEF ShowHistory
<1>12. LineInv'
  <2>1. line_position' \in 0 .. FINSH_CMD_SIZE - 1 /\ line_curpos' \in 0 .. line_position'
    BY <1>11, <1>1, SMT
  <2>2. Clean(line', line_position')
    BY <1>7, <1>11, Zenon
  <2> QED BY <1>6, <2>1, <2>2, Zenon DEF LineInv
<1>13. PastInv'
  <2>1. current_history' \in 0 .. history_count
    BY SMT DEF ShowHistory, ShellInv, PastInv
  <2>2. UNCHANGED <<cmd_history, history_count>>
    BY Zenon DEF ShowHistory
  <2> QED BY <2>1, <2>2, Zenon DEF ShellInv, PastInv, EntriesClean
<1> QED BY <1>12, <1>13

\* The older line is shown whole.
LEMMA UpKeeps == ASSUME ShellInv, Up PROVE ShellInv'
<1>1. ModeInv'
  BY HandledKeeps, Zenon DEF ShellInv, ModeInv, Up, ArrowKey
<1>2. CASE current_history > 0
  <2>1. current_history - 1 \in 0 .. history_count - 1
    BY <1>2, SMT DEF ShellInv, PastInv
  <2>2. ShowHistory(current_history - 1)
    BY <1>2, Zenon DEF Up
  <2> QED BY <1>1, <2>1, <2>2, ShowHistoryKeeps, Zenon DEF ShellInv
<1>3. CASE ~(current_history > 0)
  BY <1>1, <1>3, Zenon DEF Up, ShellInv, LineInv, PastInv, EntriesClean, past
<1> QED BY <1>2, <1>3

\* The newer line, or the newest once more, is shown whole.
LEMMA DownKeeps == ASSUME ShellInv, Down PROVE ShellInv'
<1>1. ModeInv'
  BY HandledKeeps, Zenon DEF ShellInv, ModeInv, Down, ArrowKey
<1>2. CASE current_history < history_count - 1
  <2>1. current_history + 1 \in 0 .. history_count - 1
    BY <1>2, SMT DEF ShellInv, PastInv
  <2>2. ShowHistory(current_history + 1)
    BY <1>2, Zenon DEF Down
  <2> QED BY <1>1, <2>1, <2>2, ShowHistoryKeeps, Zenon DEF ShellInv
<1>3. CASE ~(current_history < history_count - 1) /\ history_count # 0
  <2>1. history_count - 1 \in 0 .. history_count - 1
    BY <1>3, SMT DEF ShellInv, PastInv
  <2>2. ShowHistory(history_count - 1)
    BY <1>3, Zenon DEF Down
  <2> QED BY <1>1, <2>1, <2>2, ShowHistoryKeeps, Zenon DEF ShellInv
<1>4. CASE ~(current_history < history_count - 1) /\ ~(history_count # 0)
  BY <1>1, <1>4, Zenon DEF Down, ShellInv, LineInv, PastInv, EntriesClean, past
<1> QED BY <1>2, <1>3, <1>4

\* Keys that move the cursor or the state of the escape sequence only.
LEMMA MovesKeep ==
  ASSUME ShellInv, Escape \/ Bracket \/ Left \/ Right \/ Null PROVE ShellInv'
<1>1. ModeInv'
  BY HandledKeeps, Zenon DEF ShellInv, ModeInv, Escape, Bracket, Left, Right, Null,
     ArrowKey, PlainKey
<1>2. UNCHANGED <<line, line_position>> /\ UNCHANGED past
  BY Zenon DEF Escape, Bracket, Left, Right, Null, past
<1>3. line_curpos' \in 0 .. line_position
  BY SMT DEF ShellInv, LineInv, Escape, Bracket, Left, Right, Null
<1>4. LineInv'
  BY <1>2, <1>3, Zenon DEF ShellInv, LineInv
<1>5. PastInv'
  BY <1>2, Zenon DEF ShellInv, PastInv, EntriesClean, past
<1> QED BY <1>1, <1>4, <1>5 DEF ShellInv

\* Keys that edit the line keep the history.
LEMMA PastKept == ASSUME ShellInv, UNCHANGED past PROVE PastInv'
BY Zenon DEF ShellInv, PastInv, EntriesClean, past

\* A text that is at least as long as the line, written over it.
LEMMA Overwritten ==
  ASSUME LineInv, NEW n \in line_position .. FINSH_CMD_SIZE - 1, NEW f \in [1 .. n -> Printable],
         NEW new, new = [i \in Bytes |-> IF i < n THEN f[i + 1] ELSE line[i]]
  PROVE  new \in [Bytes -> Char] /\ Clean(new, n)
<1>1. \A i \in Bytes : i < n => new[i] \in Printable
  <2> TAKE i \in Bytes
  <2> HAVE i < n
  <2>1. i + 1 \in 1 .. n
    BY Sizes, SMT DEF Bytes, LineInv
  <2> QED BY <2>1
<1>2. \A i \in Bytes : ~(i < n) => new[i] = NUL
  BY Sizes, SMT DEF Bytes, LineInv, Clean
<1>3. \A i \in Bytes : new[i] \in Char
  BY <1>1, <1>2, Zenon DEF Char
<1>4. new \in [Bytes -> Char]
  BY <1>3, Zenon
<1>5. \A i \in Bytes : (i >= n) <=> ~(i < n)
  BY Sizes, SMT DEF Bytes, LineInv
<1>6. Clean(new, n)
  BY <1>1, <1>2, <1>4, <1>5, NulIsNoChar, Zenon DEF Clean
<1> QED BY <1>4, <1>6

\* A completed line is a string that ends where strlen says.
LEMMA TabKeeps == ASSUME ShellInv, Tab PROVE ShellInv'
<1> DEFINE typed == Text(line, strlen(line))
           found == {n \in Names : typed # <<>> /\ IsPrefix(typed, n)}
           common == LongestCommonPrefix(found)
<1>1. ModeInv'
  BY HandledKeeps, Zenon DEF ShellInv, ModeInv, Tab, PlainKey
<1>2. PastInv'
  BY PastKept, Zenon DEF Tab
<1>3. /\ line \in [Bytes -> Char] /\ Clean(line, line_position)
      /\ line_position \in 0 .. FINSH_CMD_SIZE - 1
  BY Zenon DEF ShellInv, LineInv
<1>4. FINSH_CMD_SIZE \in Nat /\ DOMAIN line = 0 .. FINSH_CMD_SIZE
      /\ line_position \in 0 .. FINSH_CMD_SIZE
  BY <1>3, Sizes, SMT DEF Bytes
<1>5. strlen(line) = line_position
  BY <1>3, <1>4, StrlenIs, Zenon
<1>6. line' = msh_auto_complete(line)
      /\ line_position' = strlen(line') /\ line_curpos' = strlen(line')
  BY Zenon DEF Tab
<1>7. SUFFICES ASSUME NEW n \in 0 .. FINSH_CMD_SIZE - 1,
                      line' \in [Bytes -> Char], Clean(line', n)
               PROVE  LineInv'
  <2>1. \E n \in 0 .. FINSH_CMD_SIZE - 1 : line' \in [Bytes -> Char] /\ Clean(line', n)
    <3>1. CASE found = {}
      <4>1. line' = line
        BY <3>1, <1>6, Zenon DEF msh_auto_complete
      <4> QED BY <4>1, <1>3, Zenon
    <3>2. CASE found # {}
      <4>1. line' = [i \in Bytes |-> IF i < Len(common) THEN common[i + 1] ELSE line[i]]
        BY <3>2, <1>6, Zenon DEF msh_auto_complete
      <4>2. typed = [i \in 1 .. line_position |-> line[i - 1]]
        BY <1>5, Zenon DEF Text
      <4>3. typed \in [1 .. line_position -> Printable]
        <5>1. \A i \in 1 .. line_position : line[i - 1] \in Printable
          <6> TAKE i \in 1 .. line_position
          <6>1. i - 1 \in Bytes /\ ~(i - 1 >= line_position)
            BY <1>3, Sizes, SMT DEF Bytes
          <6> QED BY <6>1, <1>3, Zenon DEF Clean, Char
        <5> QED BY <5>1, <4>2, Zenon
      <4>4. typed \in Seq(Printable) /\ Len(typed) = line_position
        <5>1. line_position \in Nat
          BY <1>3, Sizes, SMT
        <5>2. typed \in Seq(Printable)
          BY <4>3, <5>1, SeqDef, Zenon
        <5>3. DOMAIN typed = 1 .. line_position /\ DOMAIN typed = 1 .. Len(typed)
              /\ Len(typed) \in Nat
          BY <4>2, <5>2, LenProperties, Zenon
        <5>4. Len(typed) = line_position
          <6> HIDE DEF typed
          <6> QED BY <5>1, <5>3, SMT
        <5> QED BY <5>2, <5>4
      <4>5. typed # <<>> /\ found \in SUBSET Names /\ \A n \in found : IsPrefix(typed, n)
        BY <3>2, Zenon
      <4>6. common \in Seq(Printable) /\ Len(common) \in line_position .. FINSH_CMD_SIZE - 1
        BY <3>2, <4>4, <4>5, Completion, Zenon
      <4>7. common \in [1 .. Len(common) -> Printable] /\ Len(common) \in Nat
        BY <4>6, LenProperties, Zenon
      <4>8. Len(common) \in line_position .. FINSH_CMD_SIZE - 1
        BY <4>6
      <4>9. line' \in [Bytes -> Char] /\ Clean(line', Len(common))
        BY <4>1, <4>7, <4>8, Overwritten, Zenon DEF ShellInv
      <4> HIDE <4>4, <4>6 DEF common
      <4>11. Len(common) \in 0 .. FINSH_CMD_SIZE - 1
        BY <4>7, <4>8, Sizes, SMT
      <4> QED BY <4>9, <4>11
    <3> QED BY <3>1, <3>2
  <2> QED BY <2>1, <1>1, <1>2 DEF ShellInv
<1>8. n \in 0 .. FINSH_CMD_SIZE /\ DOMAIN line' = 0 .. FINSH_CMD_SIZE
      /\ n \in 0 .. n
  BY <1>7, Sizes, SMT DEF Bytes
<1>9. strlen(line') = n
  BY <1>7, <1>8, <1>4, StrlenIs, Zenon
<1> QED BY <1>6, <1>7, <1>8, <1>9, Zenon DEF LineInv

\* Taking a character out leaves a string with zeroes behind it.
LEMMA BackspaceKeeps == ASSUME ShellInv, Backspace PROVE ShellInv'
<1>1. ModeInv'
  BY HandledKeeps, Zenon DEF ShellInv, ModeInv, Backspace, PlainKey
<1>2. PastInv'
  BY PastKept, Zenon DEF Backspace
<1>3. LineInv
  BY Zenon DEF ShellInv
<1>4. ASSUME UNCHANGED <<line, line_position, line_curpos>> PROVE LineInv'
  BY <1>3, <1>4, Zenon DEF LineInv
<1>5. ASSUME line_curpos > 0, line_position > 0,
             line_position' = line_position - 1,
             line_curpos' = line_curpos - 1,
             line' = [i \in Bytes |->
                        CASE i = line_position' -> NUL
                          [] i \in line_curpos' .. line_position' - 1 -> line[i + 1]
                          [] OTHER -> line[i]]
      PROVE  LineInv'
  <2>1. line_position' \in 0 .. FINSH_CMD_SIZE - 1 /\ line_curpos' \in 0 .. line_position'
    BY <1>3, <1>5, Sizes, SMT DEF LineInv
  <2>2. line' \in [Bytes -> Char]
    BY <1>3, <1>5, Sizes, SMT DEF LineInv, Bytes, Char
  <2>3. Clean(line', line_position')
    BY <1>3, <1>5, Sizes, SMT DEF LineInv, Bytes, Clean
  <2> QED BY <2>1, <2>2, <2>3 DEF LineInv
<1>6. LineInv'
  BY <1>4, <1>5, Zenon DEF Backspace
<1> QED BY <1>1, <1>2, <1>6 DEF ShellInv

\* In a line with room a character is put in at the cursor: none of the three
\* corrections of the positions in finsh() is made.
LEMMA Inserted ==
  ASSUME LineInv, Room, ~LongLines, NEW k \in Printable, Insert(k)
  PROVE  /\ line_position < FINSH_CMD_SIZE - 1
         /\ line_position' = line_position + 1
         /\ line_curpos' = line_curpos + 1
         /\ line' = [i \in Bytes |->
                       CASE i = line_curpos -> k
                         [] i \in line_curpos + 1 .. line_position -> line[i - 1]
                         [] OTHER -> line[i]]
<1>1. line_position < FINSH_CMD_SIZE - 1
  BY Zenon DEF Insert, PlainKey, Handled, Room
<1>2. ~(line_position >= FINSH_CMD_SIZE) /\ ~(line_position + 1 >= FINSH_CMD_SIZE)
  BY <1>1, Sizes, SMT DEF LineInv
<1>3. (IF line_curpos < line_position THEN line_curpos ELSE line_position) = line_curpos
  BY SMT DEF LineInv
<1>4. /\ line_position' = line_position + 1
      /\ line_curpos' = line_curpos + 1
  BY <1>2, SMT DEF Insert
<1>5. (IF line_position >= FINSH_CMD_SIZE THEN 0 ELSE line_position) = line_position
  BY <1>2
<1> QED BY <1>1, <1>3, <1>4, <1>5, SMT DEF Insert

\* So does putting one in, as long as there is room.
LEMMA InsertKeeps ==
  ASSUME ShellInv, ~LongLines, NEW k \in Printable, Insert(k) PROVE ShellInv'
<1>1. ModeInv'
  BY HandledKeeps, Zenon DEF ShellInv, ModeInv, Insert, PlainKey
<1>2. PastInv'
  BY PastKept, Zenon DEF Insert
<1>3. LineInv /\ Room
  BY Zenon DEF ShellInv, ModeInv
<1>4. line_position' \in 0 .. FINSH_CMD_SIZE - 1 /\ line_curpos' \in 0 .. line_position'
  BY <1>3, Inserted, Sizes, SMT DEF LineInv
<1>5. line' \in [Bytes -> Char]
  BY <1>3, Inserted, Sizes, SMT DEF LineInv, Bytes, Char
<1>6. Clean(line', line_position')
  BY <1>3, Inserted, NulIsNoChar, Sizes, SMT DEF LineInv, Bytes, Clean
<1> QED BY <1>1, <1>2, <1>4, <1>5, <1>6 DEF ShellInv, LineInv

\* The entry pushed holds the line.
LEMMA EntryClean ==
  ASSUME LineInv, line_position # 0
  PROVE  /\ Entry(line, line_position) \in [EntryBytes -> Char]
         /\ line_position \in 1 .. FINSH_CMD_SIZE - 1
         /\ Clean(Entry(line, line_position), line_position)
         /\ \A i \in EntryBytes : Entry(line, line_position)[i] = line[i]
<1> DEFINE new == [i \in EntryBytes |-> IF i < line_position THEN line[i] ELSE NUL]
<1>1. Entry(line, line_position) = new
  BY Zenon DEF Entry, EmptyEntry, EntryBytes
<1>2. new \in [EntryBytes -> Char]
  BY Sizes, SMT DEF LineInv, EntryBytes, Bytes, Char
<1>3. Clean(new, line_position)
  BY Sizes, SMT DEF LineInv, EntryBytes, Bytes, Clean
<1>4. line_position \in 1 .. FINSH_CMD_SIZE - 1
  BY Sizes, SMT DEF LineInv
<1>5. \A i \in EntryBytes : new[i] = line[i]
  BY Sizes, SMT DEF LineInv, EntryBytes, Bytes, Clean
<1> QED BY <1>1, <1>2, <1>3, <1>4, <1>5, Zenon

\* Remembering the line keeps the entries strings, without neighbours that are equal.
LEMMA PushKeeps == ASSUME LineInv, PastInv, shell_push_history PROVE PastInv'
<1> DEFINE new == Entry(line, line_position)
<1>1. CASE /\ current_history' = history_count
           /\ UNCHANGED <<cmd_history, history_count>>
  <2>1. current_history' \in 0 .. history_count
    BY <1>1, SMT DEF PastInv
  <2> QED BY <1>1, <2>1, Zenon DEF PastInv, EntriesClean
<1>2. ASSUME line_position # 0, ~IsLastCommand
      PROVE  /\ new \in [EntryBytes -> Char]
             /\ \E n \in 1 .. FINSH_CMD_SIZE - 1 : Clean(new, n)
             /\ history_count > 0 => cmd_history[history_count - 1] # new
  <2>1. history_count > 0 =>
          \E i \in EntryBytes : cmd_history[history_count - 1][i] # line[i]
    BY <1>2, Zenon DEF IsLastCommand, EmptyEntry, EntryBytes
  <2> QED BY <1>2, <2>1, EntryClean, Zenon
<1> HIDE DEF new
<1>3. ASSUME line_position # 0, ~IsLastCommand,
             history_count < FINSH_HISTORY_LINES,
             cmd_history' = [cmd_history EXCEPT ![history_count] = new],
             history_count' = history_count + 1,
             current_history' = history_count + 1
      PROVE  PastInv'
  <2>1. history_count \in Entries /\ history_count' \in 0 .. FINSH_HISTORY_LINES
        /\ current_history' \in 0 .. history_count'
    BY <1>3, Sizes, SMT DEF PastInv, Entries
  <2>2. cmd_history' \in [Entries -> [EntryBytes -> Char]]
    BY <1>2, <1>3, <2>1, Zenon DEF PastInv
  <2>3. cmd_history'[history_count] = new
        /\ \A h \in Entries : h # history_count => cmd_history'[h] = cmd_history[h]
    BY <1>3, <2>1, Zenon DEF PastInv
  <2>4. EntriesClean'
    <3> SUFFICES ASSUME NEW h \in 0 .. history_count' - 1
                 PROVE  \E n \in 1 .. FINSH_CMD_SIZE - 1 : Clean(cmd_history'[h], n)
      BY Zenon DEF EntriesClean
    <3>1. CASE h = history_count
      BY <1>2, <1>3, <2>3, <3>1, Zenon
    <3>2. CASE h # history_count
      <4>1. h \in 0 .. history_count - 1 /\ h \in Entries
        BY <1>3, <3>2, Sizes, SMT DEF PastInv, Entries
      <4> QED BY <4>1, <3>2, <2>3, Zenon DEF PastInv, EntriesClean
    <3> QED BY <3>1, <3>2
  <2>5. \A h \in 1 .. history_count' - 1 : cmd_history'[h] # cmd_history'[h - 1]
    <3> SUFFICES ASSUME NEW h \in 1 .. history_count' - 1
                 PROVE  cmd_history'[h] # cmd_history'[h - 1]
      OBVIOUS
    <3>1. CASE h = history_count
      <4>1. history_count > 0 /\ h - 1 = history_count - 1
            /\ h - 1 \in Entries /\ h - 1 # history_count
        BY <1>3, <3>1, Sizes, SMT DEF PastInv, Entries
      <4> QED BY <4>1, <3>1, <1>2, <1>3, <2>3, Zenon
    <3>2. CASE h # history_count
      <4>1. h \in 1 .. history_count - 1 /\ h \in Entries
            /\ h - 1 \in Entries /\ h - 1 # history_count
        BY <1>3, <3>2, Sizes, SMT DEF PastInv, Entries
      <4> QED BY <4>1, <3>2, <2>3, Zenon DEF PastInv
    <3> QED BY <3>1, <3>2
  <2> QED BY <2>1, <2>2, <2>4, <2>5 DEF PastInv
<1>4. ASSUME line_position # 0, ~IsLastCommand,
             history_count = FINSH_HISTORY_LINES,
             cmd_history' = [h \in Entries |-> IF h = FINSH_HISTORY_LINES - 1 THEN new
                                               ELSE cmd_history[h + 1]],
             current_history' = history_count,
             UNCHANGED history_count
      PROVE  PastInv'
  <2> DEFINE last == FINSH_HISTORY_LINES - 1
  <2>1. \A h \in Entries : h # last => h + 1 \in Entries
    BY Sizes, SMT DEF Entries
  <2>2. cmd_history' \in [Entries -> [EntryBytes -> Char]]
    BY <1>2, <1>4, <2>1, Zenon DEF PastInv
  <2>3. last \in Entries /\ history_count - 1 = last /\ history_count > 0
    BY <1>4, Sizes, SMT DEF Entries
  <2>4. cmd_history'[last] = new
        /\ \A h \in Entries : h # last => cmd_history'[h] = cmd_history[h + 1]
    BY <1>4, <2>3, Zenon
  <2>5. EntriesClean'
    <3> SUFFICES ASSUME NEW h \in 0 .. history_count' - 1
                 PROVE  \E n \in 1 .. FINSH_CMD_SIZE - 1 : Clean(cmd_history'[h], n)
      BY Zenon DEF EntriesClean
    <3>1. CASE h = last
      BY <1>2, <1>4, <2>4, <3>1, Zenon
    <3>2. CASE h # last
      <4>1. h + 1 \in 0 .. history_count - 1 /\ h \in Entries
        BY <1>4, <3>2, Sizes, SMT DEF Entries
      <4> QED BY <4>1, <3>2, <2>4, Zenon DEF PastInv, EntriesClean
    <3> QED BY <3>1, <3>2
  <2>6. \A h \in 1 .. history_count' - 1 : cmd_history'[h] # cmd_history'[h - 1]
    <3> SUFFICES ASSUME NEW h \in 1 .. history_count' - 1
                 PROVE  cmd_history'[h] # cmd_history'[h - 1]
      OBVIOUS
    <3>1. h \in Entries /\ h - 1 \in Entries /\ h - 1 # last /\ (h - 1) + 1 = h
      BY <1>4, Sizes, SMT DEF Entries
    <3>2. cmd_history'[h - 1] = cmd_history[h]
      BY <3>1, <2>4, Zenon
    <3>3. CASE h = last
      BY <3>2, <3>3, <2>3, <2>4, <1>2, <1>4, Zenon
    <3>4. CASE h # last
      <4>1. h + 1 \in 1 .. history_count - 1 /\ (h + 1) - 1 = h
        BY <1>4, <3>1, <3>4, Sizes, SMT DEF Entries
      <4> QED BY <4>1, <3>1, <3>2, <3>4, <2>4, Zenon DEF PastInv
    <3> QED BY <3>3, <3>4
  <2>7. history_count' \in 0 .. FINSH_HISTORY_LINES /\ current_history' \in 0 .. history_count'
    BY <1>4, Sizes, SMT
  <2> QED BY <2>2, <2>5, <2>6, <2>7 DEF PastInv
<1> QED BY <1>1, <1>3, <1>4, Zenon DEF shell_push_history, new

\* Enter remembers the line and empties it.
LEMMA EnterKeeps == ASSUME ShellInv, Enter PROVE ShellInv'
<1>1. ModeInv'
  <2>1. quit_flag' \in BOOLEAN
    BY SMT DEF Enter
  <2> QED BY <2>1, HandledKeeps, Zenon DEF Enter, PlainKey
<1>2. PastInv'
  BY PushKeeps, Zenon DEF ShellInv, Enter
<1>3. line' = [i \in Bytes |-> NUL] /\ line_position' = 0 /\ line_curpos' = 0
  BY Zenon DEF Enter, EmptyLine
<1>4. LineInv'
  BY <1>3, Sizes, SMT DEF LineInv, Clean, Bytes, Char
<1> QED BY <1>1, <1>2, <1>4 DEF ShellInv

\* Every key keeps the invariant.
LEMMA StepKeeps == ASSUME ~LongLines, ShellInv, [ShellNext]_shellVars PROVE ShellInv'
<1>1. ASSUME ShellNext PROVE ShellInv'
  <2>1. ASSUME NEW k \in Printable, Insert(k) PROVE ShellInv'
    BY <2>1, InsertKeeps
  <2>2. \/ Getchar \/ Escape \/ Bracket \/ Left \/ Right \/ Null
        \/ Up \/ Down \/ Tab \/ Backspace \/ Enter
        \/ \E k \in Printable : Insert(k)
    BY <1>1, Zenon DEF ShellNext
  <2> QED BY <2>1, <2>2, GetcharKeeps, MovesKeep, UpKeeps, DownKeeps, TabKeeps, BackspaceKeeps,
             EnterKeeps, Zenon
<1>2. CASE UNCHANGED shellVars
  <2>1. Continues(ch)' <=> Continues(ch)
    BY <1>2, Zenon DEF shellVars, shell, Continues
  <2> QED BY <1>2, <2>1, Zenon DEF shellVars, shell, past, ShellInv, ModeInv, Room, LineInv,
             PastInv, EntriesClean
<1> QED BY <1>1, <1>2

\* The strengthening: the line is clean and the cursor in it, every entry of
\* the history is a clean string, and neighbours differ in some byte.
THEOREM EditorInvariant == ASSUME ~LongLines PROVE ShellSpec => []ShellInv
<1>1. ShellInv /\ [ShellNext]_shellVars => ShellInv'
  BY StepKeeps
<1> QED BY <1>1, InitHolds, PTL DEF ShellSpec

\* In a state of the editor each entry has its length.
LEMMA Lengths ==
  ASSUME ShellInv, NEW h \in 0 .. history_count - 1
  PROVE  /\ strlen(cmd_history[h]) \in 1 .. FINSH_CMD_SIZE - 1
         /\ Clean(cmd_history[h], strlen(cmd_history[h]))
         /\ cmd_history[h] \in [EntryBytes -> Char]
<1>1. PICK n \in 1 .. FINSH_CMD_SIZE - 1 : Clean(cmd_history[h], n)
  BY Zenon DEF ShellInv, PastInv, EntriesClean
<1>2. h \in Entries
  BY Sizes, SMT DEF ShellInv, PastInv, Entries
<1>3. cmd_history[h] \in [EntryBytes -> Char]
  BY <1>2, Zenon DEF ShellInv, PastInv
<1>4. FINSH_CMD_SIZE - 1 \in Nat /\ n \in 0 .. FINSH_CMD_SIZE - 1
  BY <1>1, Sizes, SMT
<1>5. DOMAIN cmd_history[h] = 0 .. FINSH_CMD_SIZE - 1
  BY <1>3, Zenon DEF EntryBytes
<1>6. strlen(cmd_history[h]) = n
  BY <1>1, <1>4, <1>5, StrlenIs, Zenon
<1> QED BY <1>1, <1>3, <1>6, Zenon

\* Type invariant of the editor.
THEOREM ShellTypeCorrect == ASSUME ~LongLines PROVE ShellSpec => []ShellTypeOK
<1>1. ShellInv => ShellTypeOK
  <2> SUFFICES ASSUME ShellInv PROVE ShellTypeOK
    OBVIOUS
  <2>1. line_position \in Bytes /\ line_curpos \in Nat
        /\ current_history \in 0 .. FINSH_HISTORY_LINES
    BY Sizes, SMT DEF ShellInv, LineInv, PastInv, Bytes
  <2>2. DOMAIN EmptyEntry = EntryBytes
    BY Zenon DEF EmptyEntry, EntryBytes
  <2> QED BY <2>1, <2>2, Zenon DEF ShellTypeOK, ShellInv, ModeInv, LineInv, PastInv, Char
<1> QED BY <1>1, EditorInvariant, PTL

\* The array behind the positions is zero, and so is that of every entry:
\* strlen, memcmp and the command's arguments may count on it.
THEOREM CleanAlways == ASSUME ~LongLines PROVE ShellSpec => []CleanLine
<1>1. ShellInv => CleanLine
  <2> SUFFICES ASSUME ShellInv PROVE CleanLine
    OBVIOUS
  <2>1. /\ Clean(line, line_position)
        /\ line_curpos <= line_position /\ line_position < FINSH_CMD_SIZE
        /\ current_history <= history_count
    <3>1. Clean(line, line_position)
      BY Zenon DEF ShellInv, LineInv
    <3> QED BY <3>1, Sizes, SMT DEF ShellInv, LineInv, PastInv
  <2>2. ASSUME NEW h \in 0 .. history_count - 1
        PROVE  cmd_history[h][0] # NUL
               /\ Clean(cmd_history[h], strlen(cmd_history[h]))
    <3>1. 0 \in EntryBytes /\ ~(0 >= strlen(cmd_history[h]))
      BY Lengths, Sizes, SMT DEF EntryBytes
    <3> QED BY <3>1, Lengths, Zenon DEF Clean
  <2> QED BY <2>1, <2>2, Zenon DEF CleanLine
<1> QED BY <1>1, EditorInvariant, PTL

\* What is entered twice in a row is remembered once.
THEOREM NoRepeatsAlways == ASSUME ~LongLines PROVE ShellSpec => []NoRepeats
<1>1. ShellInv => NoRepeats
  <2> SUFFICES ASSUME ShellInv, NEW h \in 1 .. history_count - 1,
                      Text(cmd_history[h], strlen(cmd_history[h]))
                        = Text(cmd_history[h - 1], strlen(cmd_history[h - 1]))
               PROVE  FALSE
    BY Zenon DEF NoRepeats
  <2> DEFINE s == cmd_history[h]
             t == cmd_history[h - 1]
             n == strlen(s)
             m == strlen(t)
  <2>1. h \in 0 .. history_count - 1 /\ h - 1 \in 0 .. history_count - 1
    BY Sizes, SMT DEF ShellInv, PastInv
  <2>2. n \in 1 .. FINSH_CMD_SIZE - 1 /\ Clean(s, n) /\ s \in [EntryBytes -> Char]
    BY <2>1, Lengths
  <2>3. m \in 1 .. FINSH_CMD_SIZE - 1 /\ Clean(t, m) /\ t \in [EntryBytes -> Char]
    BY <2>1, Lengths
  <2>4. [i \in 1 .. n |-> s[i - 1]] = [i \in 1 .. m |-> t[i - 1]]
    BY Zenon DEF Text
  <2>5. s # t
    BY Zenon DEF ShellInv, PastInv
  <2> HIDE DEF s, t, n, m
  <2>6. 1 .. n = 1 .. m /\ \A i \in 1 .. n : s[i - 1] = t[i - 1]
    BY <2>4, Zenon
  <2>7. n = m
    BY <2>2, <2>3, <2>6, Sizes, SMT
  <2>8. \A i \in EntryBytes : s[i] = t[i]
    <3> TAKE i \in EntryBytes
    <3>1. CASE i >= n
      BY <3>1, <2>2, <2>3, <2>7, Zenon DEF Clean
    <3>2. CASE ~(i >= n)
      <4>1. i + 1 \in 1 .. n /\ (i + 1) - 1 = i
        BY <3>2, <2>2, Sizes, SMT DEF EntryBytes
      <4> QED BY <4>1, <2>6, Zenon
    <3> QED BY <3>1, <3>2
  <2>9. s = t
    <3>1. s = [i \in EntryBytes |-> s[i]] /\ t = [i \in EntryBytes |-> t[i]]
      BY <2>2, <2>3, Zenon
    <3> QED BY <3>1, <2>8, Zenon
  <2> QED BY <2>5, <2>9
<1> QED BY <1>1, EditorInvariant, PTL
=============================================================================

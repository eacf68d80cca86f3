----------------------------- MODULE LineEditor -----------------------------
(***************************************************************************)
(* What the user of a line editor with a history sees: a text with a       *)
(* cursor, and the lines entered before, the oldest first.  A key is       *)
(* pressed and then does what it is there for; an arrow is the three keys  *)
(* of its escape sequence.                                                 *)
(***************************************************************************)
EXTENDS SequencesExt

CONSTANTS Keys,       \* the keys that can be pressed
          NoKey,      \* none of them
          Chars,      \* those that are characters
          Words,      \* what a text may be completed to
          HistoryMax  \* how many lines are remembered

VARIABLES key,      \* the key pressed, until it has done its work
          begun,    \* how much of an arrow's sequence came right before it
          text,     \* the characters of the line
          cursor,   \* how many of them are before the cursor
          history,  \* lines entered
          at        \* the line recalled last, or one past the newest

lineVars == <<text, cursor, history, at>>
editorVars == <<key, begun, lineVars>>

EditorInit ==
  /\ key = NoKey /\ begun = 0
  /\ text = <<>> /\ cursor = 0 /\ history = <<>> /\ at = 1

Press ==
  /\ key = NoKey /\ key' \in Keys
  /\ UNCHANGED <<begun, lineVars>>

-----------------------------------------------------------------------------
(* What the keys do.                                                       *)

Type(c) ==
  /\ text' = InsertAt(text, cursor + 1, c)
  /\ cursor' = cursor + 1
  /\ UNCHANGED <<history, at>>

Erase ==
  /\ cursor > 0
  /\ text' = RemoveAt(text, cursor)
  /\ cursor' = cursor - 1
  /\ UNCHANGED <<history, at>>

\* The text grows into a word, as far as all words that begin with it agree.
Complete ==
  /\ LET candidates == {w \in Words : text # <<>> /\ IsPrefix(text, w)}
     IN text' = IF candidates = {} THEN text ELSE LongestCommonPrefix(candidates)
  /\ cursor' = Len(text')
  /\ UNCHANGED <<history, at>>

\* An empty line, and one that repeats the newest, is not remembered.
Enter ==
  /\ history' = IF text = <<>> \/ (history # <<>> /\ Last(history) = text)
                THEN history
                ELSE LET all == Append(history, text)
                     IN IF Len(all) > HistoryMax THEN Tail(all) ELSE all
  /\ at' = Len(history') + 1
  /\ text' = <<>> /\ cursor' = 0

Move(to) ==
  /\ cursor' = to
  /\ UNCHANGED <<text, history, at>>

Recall(entry) ==
  /\ at' = entry
  /\ text' = history[entry]
  /\ cursor' = Len(text')
  /\ UNCHANGED history

\* Up and down: the line before the one recalled last and the one after it, or
\* the newest; right and left.
Arrow(k) ==
  \/ k = "A" /\ at > 1 /\ Recall(at - 1)
  \/ k = "A" /\ at = 1 /\ UNCHANGED lineVars
  \/ k = "B" /\ at < Len(history) /\ Recall(at + 1)
  \/ k = "B" /\ at >= Len(history) /\ history # <<>> /\ Recall(Len(history))
  \/ k = "B" /\ history = <<>> /\ UNCHANGED lineVars
  \/ k = "C" /\ Move(IF cursor < Len(text) THEN cursor + 1 ELSE cursor)
  \/ k = "D" /\ Move(IF cursor > 0 THEN cursor - 1 ELSE cursor)

Plain(k) ==
  \/ k \in Chars /\ Type(k)
  \/ k = "backspace" /\ Erase
  \/ k = "backspace" /\ cursor = 0 /\ UNCHANGED lineVars
  \/ k = "tab" /\ Complete
  \/ k = "enter" /\ Enter
  \/ k = "nul" /\ UNCHANGED lineVars

InSequence(k) ==
  \/ begun = 1 /\ k = "["
  \/ begun = 2 /\ k \in {"A", "B", "C", "D"}

\* The key pressed does its work: begins a sequence, goes on with one, ends one
\* as an arrow, or is itself, in the middle of a sequence too.
Work ==
  /\ key # NoKey /\ key' = NoKey
  /\ \/ key = "esc" /\ begun' = 1 /\ UNCHANGED lineVars
     \/ InSequence(key) /\ begun = 1 /\ begun' = 2 /\ UNCHANGED lineVars
     \/ InSequence(key) /\ begun = 2 /\ begun' = 0 /\ Arrow(key)
     \/ ~InSequence(key) /\ begun' = 0 /\ Plain(key)

EditorNext == Press \/ Work

EditorSpec == EditorInit /\ [][EditorNext]_editorVars
=============================================================================

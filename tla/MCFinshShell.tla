---------------------------- MODULE MCFinshShell ----------------------------
(* Instances of FinshShell for TLC.                                        *)
EXTENDS FinshShell

\* Two commands that share a prefix, one that is all of that prefix.
MCNames == {<<"q">>, <<"A", "q", "A">>, <<"A", "q", "q">>}
MCQuitNames == {<<"q">>}

\* No name begins another one, and none can be typed by accident.
MCOneName == {<<"s", "s">>}
=============================================================================

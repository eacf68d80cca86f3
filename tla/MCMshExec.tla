----------------------------- MODULE MCMshExec -----------------------------
(* An instance of MshExec for TLC.                                         *)
EXTENDS MshExec

\* One name is a prefix of another, as m_enable is of m_enable2; q leaves the
\* shell.
McName == [m_enable |-> <<"m">>, m_enable2 |-> <<"m", "2">>, quit |-> <<"q">>]

McCharacters == {"m", "2", "q", " ", "tab", Quote, Backslash}

Plain(s) == [text |-> s, quoted |-> FALSE]
Quoted(s) == [text |-> s, quoted |-> TRUE]

\* Words of no character, with a blank, an escaped quote, a lone backslash.
McWords ==
  {Plain(<<"m">>), Plain(<<"m", "2">>), Plain(<<"q">>), Plain(<<"2", Quote>>),
   Quoted(<<>>), Quoted(<<"m">>), Quoted(<<"2", " ">>),
   Quoted(<<Backslash, Quote>>), Quoted(<<Backslash, "2">>)}

McGaps == {<<>>, <<" ">>, <<" ", "tab">>}
=============================================================================

---- MODULE MCRegulator ----
(* Sets of numbers for TLC: a negative number cannot be written in a cfg.   *)
EXTENDS Regulator

McSetPoints == {NaN, NegInf}
McGains == {4, Inf}
McSpeeds == {-1, 0}
McTorques == {-4}
====

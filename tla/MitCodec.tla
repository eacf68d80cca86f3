------------------------------ MODULE MitCodec ------------------------------
(***************************************************************************)
(* The frames of the MIT motor protocol: src/src/mit_protocol.c with the   *)
(* helpers of src/src/math_ops.c.  Operators only.                         *)
(*                                                                         *)
(* A float is an integer in a unit of the user's choice (what is packed    *)
(* depends on ratios only), an infinity, or NaN, of which every comparison *)
(* is false.                                                               *)
(***************************************************************************)
EXTENDS Integers

CONSTANTS NaN, Inf, NegInf

ASSUME NumberAssumption ==
  /\ {NaN, Inf, NegInf} \cap Int = {}
  /\ NaN # Inf /\ NaN # NegInf /\ Inf # NegInf

Number == Int \cup {NaN, Inf, NegInf}

Greater(x, y) ==
  /\ NaN \notin {x, y} /\ x # y
  /\ x = Inf \/ y = NegInf \/ (x # NegInf /\ y # Inf /\ x > y)

fmaxf(x, y) == IF Greater(x, y) THEN x ELSE y
fminf(x, y) == IF Greater(y, x) THEN x ELSE y

\* A NaN comes out as the upper limit.
Limited(x, min, max) == fminf(fmaxf(min, x), max)

\* Truncated towards zero; the callers limit x first.
float_to_uint(x, x_min, x_max, bits) ==
  ((x - x_min) * (2 ^ bits - 1)) \div (x_max - x_min)

\* In units of 1 / (2^bits - 1), so that it is an integer.
uint_to_float(x_int, x_min, x_max, bits) ==
  x_int * (x_max - x_min) + x_min * (2 ^ bits - 1)

\* Mutant: the lower limit is forgotten.
FieldUpper(x, min, max, bits) == float_to_uint(fminf(x, max), min, max, bits)

Field(x, min, max, bits) == float_to_uint(Limited(x, min, max), min, max, bits)

\* Mutant: the low half of kd goes beside the wrong half of the torque.
pack_fields_nibble(p, v, kp, kd, t) ==
  << p \div 256, p % 256,
     v \div 16, ((v % 16) * 16) + (kp \div 256), kp % 256,
     kd \div 16, ((kd % 16) * 16) + (t % 16), t % 256 >>

\* 16 bits of position, 12 bits of each of the others, in 8 bytes.
pack_fields(p, v, kp, kd, t) ==
  << p \div 256, p % 256,
     v \div 16, ((v % 16) * 16) + (kp \div 256), kp % 256,
     kd \div 16, ((kd % 16) * 16) + (t \div 256), t % 256 >>

\* KP_MAX, KD_MAX of mit_protocol.h; the other limits are the motor's.
KP_MAX == 500
KD_MAX == 5
pack_cmd_new(joint, p_max, v_max, t_max) ==
  pack_fields(Field(joint.p_des, -p_max, p_max, 16),
              Field(joint.v_des, -v_max, v_max, 12),
              Field(joint.kp, 0, KP_MAX, 12),
              Field(joint.kd, 0, KD_MAX, 12),
              Field(joint.t_ff, -t_max, t_max, 12))

\* Seven bytes 0xFF and one that says what to do.
EdgeBytes(last) == [i \in 1 .. 8 |-> IF i = 8 THEN last ELSE 255]
Enter == EdgeBytes(252)
Exit == EdgeBytes(253)
Zero == EdgeBytes(254)

\* What the motor reads in a command.
Unpack(d) ==
  [p |-> (d[1] * 256) + d[2],
   v |-> (d[3] * 16) + (d[4] \div 16),
   kp |-> ((d[4] % 16) * 256) + d[5],
   kd |-> (d[6] * 16) + (d[7] \div 16),
   t |-> ((d[7] % 16) * 256) + d[8]]
=============================================================================

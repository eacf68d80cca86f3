-------------------------- MODULE RegulatorProofs --------------------------
(***************************************************************************)
(* The limits of the regulator hold for all gains, set-points and speeds;  *)
(* and what it asks for is what the motor reads in the frame.              *)
(***************************************************************************)
EXTENDS Regulator, TLAPS

\* What a number may be: TLC and the provers ask for the cases.
LEMMA Kinds ==
  ASSUME NEW x \in Number
  PROVE  /\ x \in Int \/ x = NaN \/ x = Inf \/ x = NegInf
         /\ x \in Int => x # NaN /\ x # Inf /\ x # NegInf
         /\ NaN \notin Int /\ Inf \notin Int /\ NegInf \notin Int
         /\ NaN # Inf /\ NaN # NegInf /\ Inf # NegInf
  BY NumberAssumption, SMT DEF Number

\* A limited value is within the limit, infinities too; only a NaN passes.
LEMMA LimitKeeps ==
  ASSUME NEW val \in Number, NEW max \in Nat
  PROVE  /\ pid_limit(val, max) \in Number
         /\ Within(pid_limit(val, max), max)
         /\ pid_limit(val, max) = NaN <=> val = NaN
<1>1. max \in Int /\ -max \in Int /\ max \in -max .. max /\ -max \in -max .. max
  BY SMT
<1>2. /\ max # NaN /\ max # Inf /\ max # NegInf
      /\ -max # NaN /\ -max # Inf /\ -max # NegInf
  BY <1>1, NumberAssumption, SMT
<1>3. CASE val = NaN
  BY <1>3, SMT DEF pid_limit, Within, Greater, Number
<1>4. CASE val = Inf
  <2>1. Greater(val, max)
    BY <1>2, <1>4, Kinds, SMT DEF Greater
  <2>2. QED
    BY <1>1, <1>2, <1>4, <2>1, Kinds, SMT DEF pid_limit, Within, Number
<1>5. CASE val = NegInf
  <2>1. ~Greater(val, max) /\ Greater(-max, val)
    BY <1>2, <1>5, Kinds, SMT DEF Greater
  <2>2. QED
    BY <1>1, <1>2, <1>5, <2>1, Kinds, SMT DEF pid_limit, Within, Number
<1>6. CASE val \in Int
  <2>1. val # NaN /\ val # Inf /\ val # NegInf
    BY <1>6, NumberAssumption, SMT
  <2>2. (Greater(val, max) <=> val > max) /\ (Greater(-max, val) <=> -max > val)
    BY <1>1, <1>2, <1>6, <2>1, SMT DEF Greater
  <2>3. QED
    BY <1>1, <1>2, <1>6, <2>1, <2>2, SMT DEF pid_limit, Within, Number
<1>7. QED
  BY <1>3, <1>4, <1>5, <1>6, Kinds, Zenon

\* A result that overflows is infinite, never a NaN.
LEMMA FloatIs ==
  ASSUME NEW x \in Int
  PROVE  /\ ToFloat(x) \in Number /\ ToFloat(x) # NaN
         /\ x \in Finite => ToFloat(x) = x
<1>1. FloatMax \in Nat
  BY RegulatorAssumption
<1>2. QED
  BY <1>1, NumberAssumption, SMT DEF ToFloat, Number, Finite

\* Results are numbers.  Of a sum of two numbers only one is a NaN that has a
\* NaN in it or both infinities; of a difference to a finite number, only one
\* from a NaN.
LEMMA SumIs ==
  ASSUME NEW x \in Number, NEW y \in Number
  PROVE  /\ Plus(x, y) \in Number
         /\ Plus(x, y) = NaN
              => x = NaN \/ y = NaN \/ (x \in {Inf, NegInf} /\ y \in {Inf, NegInf})
<1>1. CASE NaN \in {x, y} \/ {x, y} = {Inf, NegInf}
  <2>1. x = NaN \/ y = NaN \/ (x \in {Inf, NegInf} /\ y \in {Inf, NegInf})
    BY <1>1, Zenon
  <2>2. Plus(x, y) = NaN
    BY <1>1, Zenon DEF Plus
  <2>3. QED
    BY <2>1, <2>2 DEF Number
<1>2. CASE ~(NaN \in {x, y} \/ {x, y} = {Inf, NegInf})
  <2>1. CASE {x, y} \subseteq Int
    <3>1. Plus(x, y) = ToFloat(x + y)
      BY <1>2, <2>1, Zenon DEF Plus
    <3>2. x + y \in Int
      BY <2>1, SMT
    <3>3. QED
      BY <3>1, <3>2, FloatIs, Zenon
  <2>2. CASE ~({x, y} \subseteq Int)
    <3>1. Plus(x, y) = Inf \/ Plus(x, y) = NegInf
      BY <1>2, <2>2, Zenon DEF Plus
    <3>2. QED
      BY <3>1, NumberAssumption, SMT DEF Number
  <2>3. QED
    BY <2>1, <2>2
<1>3. QED
  BY <1>1, <1>2

LEMMA DifferenceIs ==
  ASSUME NEW x \in Number, NEW y \in Number
  PROVE  /\ Minus(x, y) \in Number
         /\ y \in Int => (Minus(x, y) = NaN => x = NaN)
<1>1. Negative(y) \in Number /\ (y \in Int => Negative(y) = -y /\ -y \in Int)
  BY Kinds, SMT DEF Negative, Number
<1>2. Minus(x, y) = Plus(x, Negative(y))
  BY Zenon DEF Minus
<1>3. y \in Int => Negative(y) # NaN /\ Negative(y) # Inf /\ Negative(y) # NegInf
  BY <1>1, NumberAssumption, SMT
<1>4. QED
  BY <1>1, <1>2, <1>3, SumIs, SMT

LEMMA ProductIs ==
  ASSUME NEW x \in Number, NEW y \in Number
  PROVE  Times(x, y) \in Number
<1>1. CASE {x, y} \subseteq Int
  <2>1. x * y \in Int
    BY <1>1, SMT
  <2>2. QED
    BY <1>1, <2>1, FloatIs, Zenon DEF Times
<1>2. CASE ~({x, y} \subseteq Int)
  BY <1>2, SMT DEF Times, Number
<1>3. QED
  BY <1>1, <1>2

\* A product is between its extremes.
LEMMA Between ==
  ASSUME NEW k \in Int, NEW e \in Int, NEW m \in Nat, NEW f \in Nat,
         -m <= e, e <= m, -f <= k * m, k * m <= f
  PROVE  -f <= e * k /\ e * k <= f
<1>1. CASE k >= 0
  BY <1>1, SMT
<1>2. CASE k < 0
  BY <1>2, SMT
<1>3. QED
  BY <1>1, <1>2, SMT

\* What does not overflow at the limit does not below it.
LEMMA TameProduct ==
  ASSUME NEW k \in Int, NEW m \in Nat, k * m \in Finite, NEW e \in -m .. m
  PROVE  Times(e, k) \in Int
<1>1. FloatMax \in Nat /\ e \in Int /\ -m <= e /\ e <= m
  BY RegulatorAssumption, SMT
<1>2. k * m \in Int /\ -FloatMax <= k * m /\ k * m <= FloatMax
  BY <1>1, SMT DEF Finite
<1>3. -FloatMax <= e * k /\ e * k <= FloatMax
  BY <1>1, <1>2, Between
<1>4. e * k \in Int
  BY <1>1, SMT
<1>5. ToFloat(e * k) = e * k
  BY <1>1, <1>3, <1>4, FloatIs, SMT DEF Finite
<1>6. QED
  BY <1>1, <1>4, <1>5, Zenon DEF Times

-----------------------------------------------------------------------------
\* The part of RegTypeOK that the limits rest on.
Numbers ==
  /\ kp \in Number /\ ki \in Number /\ des \in Number
  /\ error \in Number /\ error_last \in Number /\ error_all \in Number
  /\ output \in Number

ErrorIsNaN == NaN \in {error, error_last, error_all}

ErrorsWithin ==
  /\ Within(error, ErrorMax) /\ Within(error_last, ErrorMax)
  /\ Within(error_all, ErrorAllMax)

\* Strengthening of PidBounded: what was not typed is not in the set-point and
\* the gains.
NotTyped ==
  /\ "set-point" \notin tainted => des # NaN
  /\ "gain" \notin tainted => Tame(kp) /\ Tame(ki)

\* The first half of pid_caculate, from any numbers: limits, and no NaN but from
\* the set-point.
LEMMA ErrorsBounded ==
  ASSUME Numbers, CalcErrors
  PROVE  /\ Numbers' /\ (ErrorIsNaN' => ErrorIsNaN \/ des = NaN)
         /\ Within(error', ErrorMax) /\ Within(error_all', ErrorAllMax)
         /\ error_last' = error /\ output' = output
         /\ UNCHANGED <<kp, ki, des, tainted>>
<1> USE RegulatorAssumption DEF Numbers, ErrorIsNaN
<1>1. input' \in Number /\ input' \in Int
  BY SMT DEF CalcErrors, Number
<1>2. /\ Minus(des, input') \in Number
      /\ Minus(des, input') = NaN => des = NaN
  BY <1>1, DifferenceIs, SMT
<1>3. /\ error' = pid_limit(Minus(des, input'), ErrorMax)
      /\ error_all' = pid_limit(Plus(error_all, error'), ErrorAllMax)
      /\ error_last' = error
      /\ UNCHANGED <<kp, ki, des, output, tainted>>
  BY SMT DEF CalcErrors, gains
<1>4. /\ error' \in Number /\ Within(error', ErrorMax)
      /\ error' = NaN => des = NaN
  BY <1>2, <1>3, LimitKeeps, SMT
<1>5. error' # Inf /\ error' # NegInf
  BY <1>4, NumberAssumption, SMT DEF Within
<1>6. /\ Plus(error_all, error') \in Number
      /\ Plus(error_all, error') = NaN => NaN \in {error_all, error'}
  <2>1. PICK e \in Number : e = error' /\ e # Inf /\ e # NegInf
    BY <1>4, <1>5, Zenon
  <2>2. Plus(error_all, e) \in Number
        /\ (Plus(error_all, e) = NaN => error_all = NaN \/ e = NaN)
    BY <2>1, SumIs, Zenon
  <2>3. QED
    BY <2>1, <2>2, Zenon
<1>7. /\ error_all' \in Number /\ Within(error_all', ErrorAllMax)
      /\ error_all' = NaN => NaN \in {error_all, error'}
  BY <1>3, <1>6, LimitKeeps, SMT
<1>8. QED
  BY <1>3, <1>4, <1>7, SMT

\* The sum of the three terms, when no error is a NaN and the gains are tame.
LEMMA SumIsNumber ==
  ASSUME NEW e \in -ErrorMax .. ErrorMax, NEW l \in -ErrorMax .. ErrorMax,
         NEW a \in -ErrorAllMax .. ErrorAllMax, NEW p, NEW i, Tame(p), Tame(i)
  PROVE  Plus(Plus(Times(e, p), Times(a, i)), Times(Minus(e, l), Kd)) # NaN
<1> USE RegulatorAssumption
<1>1. Times(e, p) \in Int
  BY TameProduct DEF Tame
<1>2. Times(a, i) \in Int
  BY TameProduct DEF Tame
<1>3. Minus(e, l) \in -(2 * ErrorMax) .. (2 * ErrorMax)
  <2>1. /\ e \in Int /\ l \in Int /\ -l \in Int /\ e + (-l) \in Int
        /\ e + (-l) \in -(2 * ErrorMax) .. (2 * ErrorMax)
        /\ e + (-l) \in Finite
    BY SMT DEF Finite
  <2>2. Negative(l) = -l
    BY <2>1, NumberAssumption, SMT DEF Negative
  <2>3. Plus(e, -l) = ToFloat(e + (-l))
    BY <2>1, NumberAssumption, SMT DEF Plus
  <2>4. QED
    BY <2>1, <2>2, <2>3, FloatIs, SMT DEF Minus
<1>4. Times(Minus(e, l), Kd) \in Int
  <2>1. PICK change : change = Minus(e, l)
    OBVIOUS
  <2>2. 2 * ErrorMax \in Nat /\ Kd * (2 * ErrorMax) \in Finite
    BY SMT
  <2>3. Times(change, Kd) \in Int
    BY <1>3, <2>1, <2>2, TameProduct, SMT
  <2>4. QED
    BY <2>1, <2>3
<1>5. ASSUME NEW x \in Int, NEW y \in Int, NEW z \in Int
      PROVE  Plus(Plus(x, y), z) # NaN
  <2>1. x \in Number /\ y \in Number /\ z \in Number
    BY DEF Number
  <2>2. /\ x # NaN /\ x # Inf /\ x # NegInf /\ y # NaN /\ y # Inf /\ y # NegInf
        /\ z # NaN /\ z # Inf /\ z # NegInf
    BY NumberAssumption
  <2>3. Plus(x, y) \in Number /\ Plus(x, y) # NaN
    BY <2>1, <2>2, SumIs, SMT
  <2>4. QED
    <3>1. PICK s : s = Plus(x, y)
      OBVIOUS
    <3>2. s \in Number /\ s # NaN
      BY <2>3, <3>1, Zenon
    <3>3. Plus(s, z) # NaN
      BY <2>1, <2>2, <3>2, SumIs, Zenon
    <3>4. QED
      BY <3>1, <3>3
<1>6. QED
  BY <1>1, <1>2, <1>4, <1>5

\* The second half, whatever the shell made of the gains in between.
LEMMA OutputBounded ==
  ASSUME Numbers, CalcOutput
  PROVE  /\ Numbers' /\ Within(output', OutputMax)
         /\ ErrorsWithin /\ output' = NaN => ErrorIsNaN \/ ~Tame(kp) \/ ~Tame(ki)
         /\ UNCHANGED <<kp, ki, des, error, error_last, error_all, tainted>>
<1> DEFINE sum == Plus(Plus(Times(error, kp), Times(error_all, ki)),
                       Times(Minus(error, error_last), Kd))
<1>1. /\ output' = pid_limit(sum, OutputMax)
      /\ UNCHANGED <<kp, ki, des, error, error_last, error_all, tainted>>
  BY SMT DEF CalcOutput, gains, errors
<1>2. sum \in Number
  <2>1. Times(error, kp) \in Number /\ Times(error_all, ki) \in Number
    BY ProductIs DEF Numbers
  <2>2. Kd \in Number
    BY RegulatorAssumption DEF Number
  <2>3. Minus(error, error_last) \in Number
    BY DifferenceIs DEF Numbers
  <2>4. Times(Minus(error, error_last), Kd) \in Number
    BY <2>2, <2>3, ProductIs
  <2>5. Plus(Times(error, kp), Times(error_all, ki)) \in Number
    BY <2>1, SumIs
  <2>6. QED
    BY <2>4, <2>5, SumIs
<1>3. ErrorsWithin /\ sum = NaN => ErrorIsNaN \/ ~Tame(kp) \/ ~Tame(ki)
  <2>1. SUFFICES ASSUME ErrorsWithin, ~ErrorIsNaN, Tame(kp), Tame(ki) PROVE sum # NaN
    OBVIOUS
  <2>2. /\ error \in -ErrorMax .. ErrorMax /\ error_last \in -ErrorMax .. ErrorMax
        /\ error_all \in -ErrorAllMax .. ErrorAllMax
    BY <2>1, Zenon DEF Within, ErrorsWithin, ErrorIsNaN
  <2>3. QED
    BY <2>1, <2>2, SumIsNumber
<1> HIDE DEF sum
<1>4. /\ output' \in Number /\ Within(output', OutputMax)
      /\ output' = NaN => sum = NaN
  BY <1>1, <1>2, RegulatorAssumption, LimitKeeps, SMT
<1>5. QED
  BY <1>1, <1>3, <1>4, SMT DEF Numbers

-----------------------------------------------------------------------------
\* The errors, the integral and the output keep within their limits whatever is
\* typed and whenever.  Of NaN: an infinite set-point makes none; the errors and
\* the integral get one from a NaN as the set-point only, the output also from a
\* gain that is not tame (pid_control.c:5-40).
THEOREM PidAlwaysBounded == RegSpec => []PidBounded
<1>1. RegInit => Numbers /\ NotTyped /\ PidBounded
  <2> SUFFICES ASSUME RegInit PROVE Numbers /\ NotTyped /\ PidBounded
    OBVIOUS
  <2>1. /\ kp = InitKp /\ ki = InitKi /\ des = 0 /\ output = 0
        /\ error = 0 /\ error_last = 0 /\ error_all = 0
    BY SMT DEF RegInit
  <2>2. 0 # NaN /\ InitKp \in Int /\ InitKi \in Int
    <3>1. InitKp \in Int /\ InitKi \in Int
      BY RegulatorAssumption, Zenon DEF Tame
    <3>2. QED
      BY <3>1, NumberAssumption, SMT
  <2>3. Numbers /\ ~ErrorIsNaN /\ output # NaN
    BY <2>1, <2>2, SMT DEF Numbers, Number, ErrorIsNaN
  <2>4. NotTyped
    BY <2>1, <2>2, RegulatorAssumption, Zenon DEF NotTyped
  <2>5. /\ Within(error, ErrorMax) /\ Within(error_last, ErrorMax)
        /\ Within(error_all, ErrorAllMax) /\ Within(output, OutputMax)
    BY <2>1, RegulatorAssumption, SMT DEF Within
  <2>6. QED
    BY <2>3, <2>4, <2>5, Zenon DEF PidBounded, ErrorIsNaN
<1>2. Numbers /\ NotTyped /\ PidBounded /\ [RegNext]_regVars
        => Numbers' /\ NotTyped' /\ PidBounded'
  <2> SUFFICES ASSUME Numbers, NotTyped, PidBounded, [RegNext]_regVars
               PROVE  Numbers' /\ NotTyped' /\ PidBounded'
    OBVIOUS
  <2>1. CASE CalcErrors
    <3>1. /\ Numbers' /\ (ErrorIsNaN' => ErrorIsNaN \/ des = NaN)
          /\ Within(error', ErrorMax) /\ Within(error_all', ErrorAllMax)
          /\ error_last' = error /\ output' = output
          /\ kp' = kp /\ ki' = ki /\ des' = des /\ tainted' = tainted
      BY <2>1, ErrorsBounded, Zenon
    <3>2. NotTyped'
      BY <3>1, Zenon DEF NotTyped
    <3>3. ErrorIsNaN' => "set-point" \in tainted'
      BY <3>1, Zenon DEF NotTyped, PidBounded, ErrorIsNaN
    <3>4. QED
      BY <3>1, <3>2, <3>3, Zenon DEF PidBounded, ErrorIsNaN
  <2>2. CASE CalcOutput
    <3>1. /\ Numbers' /\ Within(output', OutputMax)
          /\ output' = NaN => ErrorIsNaN \/ ~Tame(kp) \/ ~Tame(ki)
          /\ kp' = kp /\ ki' = ki /\ des' = des /\ tainted' = tainted
          /\ error' = error /\ error_last' = error_last /\ error_all' = error_all
      BY <2>2, OutputBounded, Zenon DEF PidBounded, ErrorsWithin
    <3>2. NotTyped'
      BY <3>1, Zenon DEF NotTyped
    <3>3. output' = NaN => tainted' # {}
      BY <3>1, Zenon DEF NotTyped, PidBounded, ErrorIsNaN
    <3>4. QED
      BY <3>1, <3>2, <3>3, Zenon DEF PidBounded
  <2>3. CASE s_pid_vel
    <3>1. PICK vel \in SetPoints : des' = vel /\ Typed("set-point", vel = NaN)
      BY <2>3, Zenon DEF s_pid_vel
    <3>2. /\ error' = error /\ error_last' = error_last /\ error_all' = error_all
          /\ output' = output /\ kp' = kp /\ ki' = ki
      BY <2>3, SMT DEF s_pid_vel, gains, errors
    <3>3. /\ tainted \subseteq tainted'
          /\ "gain" \in tainted => "gain" \in tainted'
          /\ vel = NaN => "set-point" \in tainted'
      BY <3>1, SMT DEF Typed
    <3>4. Numbers'
      BY <3>1, <3>2, RegulatorAssumption, SMT DEF Numbers
    <3>5. NotTyped'
      BY <3>1, <3>2, <3>3, Zenon DEF NotTyped
    <3>6. QED
      BY <3>2, <3>3, <3>4, <3>5, Zenon DEF PidBounded
  <2>4. CASE vves_test
    <3>1. PICK g \in Gains :
            /\ (kp' = g /\ ki' = ki) \/ (ki' = g /\ kp' = kp)
            /\ Typed("gain", ~Tame(g))
      BY <2>4, Zenon DEF vves_test
    <3>2. /\ error' = error /\ error_last' = error_last /\ error_all' = error_all
          /\ output' = output /\ des' = des
      BY <2>4, SMT DEF vves_test, errors
    <3>3. tainted \subseteq tainted' /\ (~Tame(g) => "gain" \in tainted')
      BY <3>1, Zenon DEF Typed
    <3>4. Numbers'
      BY <3>1, <3>2, RegulatorAssumption, SMT DEF Numbers
    <3>5. NotTyped'
      BY <3>1, <3>2, <3>3, Zenon DEF NotTyped
    <3>6. QED
      BY <3>2, <3>3, <3>4, <3>5, Zenon DEF PidBounded
  <2>5. CASE Relax \/ Pack \/ s_torq \/ s_vel \/ UNCHANGED regVars
    <3>1. /\ kp' = kp /\ ki' = ki /\ des' = des /\ error' = error
          /\ error_last' = error_last /\ error_all' = error_all
          /\ output' = output /\ tainted' = tainted
      BY <2>5, SMT DEF Relax, Pack, s_torq, s_vel, regVars, gains, errors
    <3>2. QED
      BY <3>1, Zenon DEF Numbers, NotTyped, PidBounded
  <2>6. QED
    BY <2>1, <2>2, <2>3, <2>4, <2>5, Zenon DEF RegNext
<1>3. RegSpec => [](Numbers /\ NotTyped /\ PidBounded)
  BY <1>1, <1>2, PTL DEF RegSpec
<1>4. QED
  BY <1>3, PTL

-----------------------------------------------------------------------------
(* What reaches the motor.                                                 *)

\* What Limited makes of a number: the number, or the limit it is beyond.
LEMMA LimitedIs ==
  ASSUME NEW x \in Number, NEW min \in Int, NEW max \in Int, min < max
  PROVE  /\ Limited(x, min, max) \in min .. max
         /\ Limited(x, min, max) = IF x = NaN \/ Greater(x, max) THEN max
                                   ELSE IF Greater(min, x) THEN min ELSE x
<1>0. /\ min # NaN /\ min # Inf /\ min # NegInf
      /\ max # NaN /\ max # Inf /\ max # NegInf
      /\ min \in min .. max /\ max \in min .. max /\ ~(min > max)
  BY NumberAssumption, SMT
<1>1. CASE x = NaN
  BY <1>0, <1>1, SMT DEF Limited, fmaxf, fminf, Greater
<1>2. CASE x = Inf
  <2>1. /\ Greater(x, min) /\ Greater(x, max) /\ ~Greater(max, x) /\ ~Greater(min, x)
    BY <1>0, <1>2, Kinds, SMT DEF Greater
  <2>2. QED
    BY <1>0, <2>1, SMT DEF Limited, fmaxf, fminf
<1>3. CASE x = NegInf
  <2>1. ~Greater(x, min) /\ ~Greater(x, max) /\ Greater(min, x) /\ x # NaN
    BY <1>0, <1>3, Kinds, SMT DEF Greater
  <2>2. Greater(max, min)
    BY <1>0, SMT DEF Greater
  <2>3. QED
    BY <1>0, <2>1, <2>2, SMT DEF Limited, fmaxf, fminf
<1>4. CASE x \in Int
  <2>1. x # NaN /\ x # Inf /\ x # NegInf
    BY <1>4, NumberAssumption, SMT
  <2>2. /\ Greater(x, min) <=> x > min
        /\ Greater(min, x) <=> min > x
        /\ Greater(x, max) <=> x > max
        /\ Greater(max, x) <=> max > x
        /\ Greater(max, min)
    BY <1>0, <1>4, <2>1, SMT DEF Greater
  <2>3. QED
    BY <1>4, <2>1, <2>2, SMT DEF Limited, fmaxf, fminf
<1>5. QED
  BY <1>1, <1>2, <1>3, <1>4, Kinds, Zenon

\* A quotient of a non-negative number by a positive one.
LEMMA Quotient ==
  ASSUME NEW a \in Nat, NEW d \in Nat \ {0}
  PROVE  /\ a \div d \in Nat
         /\ (a \div d) * d <= a /\ a - (a \div d) * d \in 0 .. d - 1
  BY SMT

\* A share of n that is not more than the whole.
LEMMA Share ==
  ASSUME NEW d \in Nat \ {0}, NEW a \in 0 .. d, NEW n \in Nat, NEW q \in Nat,
         q * d <= a * n
  PROVE  q \in 0 .. n
  BY SMT

\* The field of a number on a symmetric scale is in its width, and what is
\* rounded off is less than a step.
LEMMA FieldIs ==
  ASSUME NEW x \in Number, NEW max \in Nat \ {0},
         NEW bits, NEW n \in Nat, 2 ^ bits - 1 = n
  PROVE  /\ Field(x, -max, max, bits) \in 0 .. n
         /\ (Limited(x, -max, max) + max) * n
              - Field(x, -max, max, bits) * (2 * max) \in 0 .. 2 * max - 1
<1> DEFINE a == Limited(x, -max, max) + max
           d == 2 * max
<1>1. a \in 0 .. d
  BY LimitedIs, SMT
<1>2. d \in Nat \ {0} /\ max - (-max) = d
  BY SMT
<1>3. Limited(x, -max, max) - (-max) = a
  BY LimitedIs, SMT
<1>4. Field(x, -max, max, bits) = (a * n) \div d
  BY <1>2, <1>3, Zenon DEF Field, float_to_uint
<1> HIDE DEF a, d
<1>5. a * n \in Nat
  BY <1>1, <1>2, SMT
<1>6. /\ (a * n) \div d \in Nat
      /\ ((a * n) \div d) * d <= a * n
      /\ a * n - ((a * n) \div d) * d \in 0 .. d - 1
  BY <1>2, <1>5, Quotient
<1>7. (a * n) \div d \in 0 .. n
  BY <1>1, <1>2, <1>6, Share
<1>8. QED
  BY <1>4, <1>6, <1>7, Zenon DEF a, d

\* The two widths in use: the largest values, and the middle of the wider one.
Top12 == 4095
Top16 == 65535
Middle == 32767

\* The fields of velocity, gains and torque.
LEMMA TwelveBits ==
  ASSUME NEW x \in Number, NEW max \in Nat \ {0}
  PROVE  /\ Field(x, -max, max, 12) \in 0 .. Top12
         /\ (Limited(x, -max, max) + max) * Top12
              - Field(x, -max, max, 12) * (2 * max) \in 0 .. 2 * max - 1
<1>1. Top12 \in Nat /\ 2 ^ 12 - 1 = Top12
  BY SMT DEF Top12
<1>2. QED
  BY <1>1, FieldIs, Zenon

\* The field of the position.
LEMMA SixteenBits ==
  ASSUME NEW x \in Number, NEW max \in Nat \ {0}
  PROVE  /\ Field(x, -max, max, 16) \in 0 .. Top16
         /\ (Limited(x, -max, max) + max) * Top16
              - Field(x, -max, max, 16) * (2 * max) \in 0 .. 2 * max - 1
<1>1. Top16 \in Nat /\ 2 ^ 16 - 1 = Top16
  BY SMT DEF Top16
<1>2. QED
  BY <1>1, FieldIs, Zenon

\* The field of 0 in the middle of the scale.
LEMMA MiddleField ==
  ASSUME NEW max \in Nat \ {0}
  PROVE  Field(0, -max, max, 16) = Middle
<1>1. Limited(0, -max, max) = 0
  <2>1. /\ 0 \in Number /\ 0 # NaN /\ 0 # Inf /\ 0 # NegInf
        /\ -max # NaN /\ -max # Inf /\ -max # NegInf
        /\ max # NaN /\ max # Inf /\ max # NegInf
    BY NumberAssumption, SMT DEF Number
  <2>2. ~Greater(0, max) /\ ~Greater(-max, 0)
    BY <2>1, SMT DEF Greater
  <2>3. -max \in Int /\ max \in Int /\ -max < max
    BY SMT
  <2>4. QED
    BY <2>1, <2>2, <2>3, LimitedIs, Zenon
<1>2. 0 \in Number
  BY SMT DEF Number
<1>3. /\ Field(0, -max, max, 16) \in 0 .. Top16
      /\ (0 + max) * Top16 - Field(0, -max, max, 16) * (2 * max) \in 0 .. 2 * max - 1
  BY <1>1, <1>2, SixteenBits, Zenon
<1>4. ASSUME NEW q \in 0 .. Top16,
             (0 + max) * Top16 - q * (2 * max) \in 0 .. 2 * max - 1
      PROVE  q = Middle
  <2>1. q \in Int
    BY SMT DEF Top16
  <2>2. q * (2 * max) \in Int /\ (0 + max) * Top16 = max * 65535 /\ max * 65535 \in Int
    BY <2>1, SMT DEF Top16
  <2>3. q * (2 * max) <= max * 65535 /\ max * 65535 < (q * (2 * max)) + (2 * max)
    BY <1>4, <2>2, SMT
  <2>4. QED
    BY <2>1, <2>3, SMT DEF Middle
<1>5. QED
  BY <1>3, <1>4, Zenon

\* No gain is the field 0.
LEMMA ZeroGain == Field(0, 0, KP_MAX, 12) = 0 /\ Field(0, 0, KD_MAX, 12) = 0
<1>1. ASSUME NEW max \in {500, 5} PROVE Field(0, 0, max, 12) = 0
  <2>1. /\ 0 # NaN /\ 0 # Inf /\ 0 # NegInf
        /\ max # NaN /\ max # Inf /\ max # NegInf
    BY NumberAssumption, SMT
  <2>2. Limited(0, 0, max) = 0
    BY <2>1, SMT DEF Limited, fmaxf, fminf, Greater
  <2>3. QED
    BY <2>2, SMT DEF Field, float_to_uint
<1>2. QED
  BY <1>1, SMT DEF KP_MAX, KD_MAX

\* Eight bytes of which the first is not that of an edge frame.
Command(d) == d \in [1 .. 8 -> 0 .. 255] /\ d[1] = 127

\* The bytes of a command without gains, and what the motor reads in them.
LEMMA BytesOfCommand ==
  ASSUME NEW v \in 0 .. Top12, NEW t \in 0 .. Top12,
         NEW d, d = pack_fields(Middle, v, 0, 0, t)
  PROVE  /\ Command(d)
         /\ Unpack(d).kp = 0 /\ Unpack(d).kd = 0 /\ Unpack(d).t = t
<1> USE DEF Top12
<1>1. d = << 127, 255, v \div 16, (v % 16) * 16, 0, 0, t \div 256, t % 256 >>
  BY SMT DEF pack_fields, Middle
<1>2. /\ d[1] = 127 /\ d[4] = (v % 16) * 16 /\ d[5] = 0
      /\ d[6] = 0 /\ d[7] = t \div 256 /\ d[8] = t % 256
  BY <1>1, SMT
<1>3. d \in [1 .. 8 -> 0 .. 255]
  <2>1. 127 \in 0 .. 255 /\ 255 \in 0 .. 255 /\ 0 \in 0 .. 255
    BY SMT
  <2>2. v \div 16 \in 0 .. 255
    BY SMT
  <2>3. (v % 16) * 16 \in 0 .. 255
    BY SMT
  <2>4. t \div 256 \in 0 .. 255
    BY SMT
  <2>8. t % 256 \in 0 .. 255
    BY SMT
  <2>5. ASSUME NEW S, NEW a1 \in S, NEW a2 \in S, NEW a3 \in S, NEW a4 \in S,
               NEW a5 \in S, NEW a6 \in S, NEW a7 \in S, NEW a8 \in S
        PROVE  <<a1, a2, a3, a4, a5, a6, a7, a8>> \in [1 .. 8 -> S]
    BY SMT
  <2>6. << 127, 255, v \div 16, (v % 16) * 16, 0, 0, t \div 256, t % 256 >>
          \in [1 .. 8 -> 0 .. 255]
    BY <2>1, <2>2, <2>3, <2>4, <2>8, <2>5
  <2>7. QED
    BY <1>1, <2>6
<1>4. Unpack(d).kp = 0 /\ Unpack(d).kd = 0 /\ Unpack(d).t = t
  <2>1. /\ Unpack(d).kp = ((d[4] % 16) * 256) + d[5]
        /\ Unpack(d).kd = (d[6] * 16) + (d[7] \div 16)
        /\ Unpack(d).t = ((d[7] % 16) * 256) + d[8]
    BY SMT DEF Unpack
  <2>2. ((v % 16) * 16) % 16 = 0
    BY SMT
  <2>3. t \div 256 \in 0 .. 15
    BY SMT
  <2>4. (t \div 256) % 16 = t \div 256 /\ (t \div 256) \div 16 = 0
    BY <2>3, SMT
  <2>5. ((t \div 256) * 256) + (t % 256) = t
    BY SMT
  <2>6. QED
    BY <1>2, <2>1, <2>2, <2>4, <2>5, SMT
<1>5. QED
  BY <1>2, <1>3, <1>4 DEF Command

\* The set-points stay numbers.
SetPointsOK == t_ff \in Number /\ v_des \in Number

\* A command with numbers as set-points: see TorqueOnWire.
LEMMA CommandIs ==
  ASSUME SetPointsOK, Pack
  PROVE  /\ Command(data')
         /\ Unpack(data').kp = 0 /\ Unpack(data').kd = 0
         /\ Unpack(data').t = Field(t_ff, -MaxTorque, MaxTorque, 12)
<1>1. MaxPos \in Nat \ {0} /\ MaxVel \in Nat \ {0} /\ MaxTorque \in Nat \ {0}
  BY RegulatorAssumption
<1> DEFINE v == Field(v_des, -MaxVel, MaxVel, 12)
           t == Field(t_ff, -MaxTorque, MaxTorque, 12)
<1>2. v \in 0 .. Top12 /\ t \in 0 .. Top12
  BY <1>1, TwelveBits, Zenon DEF SetPointsOK
<1>3. data' = pack_cmd_new([p_des |-> 0, v_des |-> v_des, kp |-> 0, kd |-> 0,
                            t_ff |-> t_ff], MaxPos, MaxVel, MaxTorque)
  BY Zenon DEF Pack
<1>4. data' = pack_fields(Middle, v, 0, 0, t)
  BY <1>1, <1>3, MiddleField, ZeroGain, SMT DEF pack_cmd_new
<1> HIDE DEF v, t
<1>5. /\ Command(data')
      /\ Unpack(data').kp = 0 /\ Unpack(data').kd = 0 /\ Unpack(data').t = t
  <2>1. ASSUME NEW d, d = pack_fields(Middle, v, 0, 0, t)
        PROVE  /\ Command(d)
               /\ Unpack(d).kp = 0 /\ Unpack(d).kd = 0 /\ Unpack(d).t = t
    BY <1>2, <2>1, BytesOfCommand, SMT
  <2>2. QED
    BY <1>4, <2>1, SMT
<1>6. QED
  BY <1>5 DEF t

\* The frames that switch a motor begin with a byte 0xFF.
LEMMA EdgesBegin == \A d \in {Enter, Exit, Zero} : d[1] = 255
  BY SMT DEF Enter, Exit, Zero, EdgeBytes

\* What was typed or replied, where the thread is, and what was typed.
Chosen ==
  /\ kp \in Gains \cup {InitKp} /\ ki \in Gains \cup {InitKi}
  /\ des \in SetPoints \cup {0} /\ input \in Speeds \cup {0}
  /\ v_des \in Torques \cup {0}
  /\ pc \in {"next", "output", "pack"}

Typed8 == data \in [1 .. 8 -> 0 .. 255]

RegTypes ==
  /\ Chosen /\ Numbers /\ t_ff \in Number /\ Typed8
  /\ tainted \subseteq {"set-point", "gain"}

\* The type invariant, in the parts the proofs use.
LEMMA TypesAre == RegTypes => RegTypeOK /\ SetPointsOK
<1>1. Chosen => v_des \in Number
  BY RegulatorAssumption, SMT DEF Chosen, Number
<1>2. Numbers => {output, error, error_last, error_all} \subseteq Number
  BY Zenon DEF Numbers
<1>3. QED
  BY <1>1, <1>2, Zenon DEF RegTypes, RegTypeOK, SetPointsOK, Chosen, Typed8

\* Each action keeps the types: the regulator's results are numbers, and what is
\* packed of numbers are eight bytes.
LEMMA TypesKept == ASSUME RegTypes, [RegNext]_regVars PROVE RegTypes'
<1> USE DEF RegTypes
<1>1. CASE CalcErrors
  <2>1. /\ input' \in Speeds /\ pc' = "output"
        /\ UNCHANGED <<kp, ki, des, v_des, t_ff, data, tainted>>
    BY <1>1, SMT DEF CalcErrors, gains
  <2>2. Chosen'
    BY <2>1, SMT DEF Chosen
  <2>3. QED
    BY <1>1, <2>1, <2>2, ErrorsBounded, Zenon DEF Typed8
<1>2. CASE CalcOutput
  <2>1. /\ t_ff' = output' /\ pc' = "pack"
        /\ UNCHANGED <<kp, ki, des, input, v_des, data, tainted>>
    BY <1>2, SMT DEF CalcOutput, gains, errors
  <2>2. Chosen'
    BY <2>1, SMT DEF Chosen
  <2>3. Numbers'
    BY <1>2, OutputBounded
  <2>4. QED
    BY <2>1, <2>2, <2>3, Zenon DEF Typed8, Numbers
<1>3. CASE Pack
  <2>1. /\ pc' = "next"
        /\ UNCHANGED <<kp, ki, des, input, error, error_last, error_all, output>>
        /\ UNCHANGED <<v_des, t_ff, tainted>>
    BY <1>3, SMT DEF Pack, gains, errors
  <2>2. Chosen' /\ Numbers'
    BY <2>1, SMT DEF Chosen, Numbers
  <2>3. Typed8'
    BY <1>3, TypesAre, CommandIs, Zenon DEF Typed8, Command
  <2>4. QED
    BY <2>1, <2>2, <2>3, Zenon
<1>4. CASE Relax \/ s_torq \/ s_vel
  <2>1. /\ UNCHANGED <<kp, ki, des, input, error, error_last, error_all, output>>
        /\ UNCHANGED <<data, tainted>>
        /\ v_des' \in Torques \cup {v_des}
        /\ t_ff' \in Torques \cup {0, t_ff}
        /\ pc' \in {pc, "pack"}
    BY <1>4, SMT DEF Relax, s_torq, s_vel, gains, errors
  <2>2. Chosen' /\ Numbers'
    BY <2>1, SMT DEF Chosen, Numbers
  <2>3. t_ff' \in Number
    BY <2>1, RegulatorAssumption, SMT DEF Number
  <2>4. QED
    BY <2>1, <2>2, <2>3, Zenon DEF Typed8
<1>5. CASE s_pid_vel \/ vves_test
  <2>1. /\ UNCHANGED <<input, error, error_last, error_all, output>>
        /\ UNCHANGED <<data, t_ff, v_des, pc>>
        /\ des' \in SetPoints \cup {des}
        /\ kp' \in Gains \cup {kp} /\ ki' \in Gains \cup {ki}
    BY <1>5, SMT DEF s_pid_vel, vves_test, gains, errors
  <2>2. Chosen'
    BY <2>1, SMT DEF Chosen
  <2>3. Numbers'
    BY <2>1, RegulatorAssumption, SMT DEF Numbers
  <2>4. PICK what \in {"set-point", "gain"} : \E spoils : Typed(what, spoils)
    BY <1>5, Zenon DEF s_pid_vel, vves_test
  <2>5. tainted' \subseteq {"set-point", "gain"}
    BY <2>4, Zenon DEF Typed
  <2>6. QED
    BY <2>1, <2>2, <2>3, <2>5, Zenon DEF Typed8
<1>6. CASE UNCHANGED regVars
  <2>1. /\ UNCHANGED <<kp, ki, des, input, error, error_last, error_all, output>>
        /\ UNCHANGED <<t_ff, v_des, pc, data, tainted>>
    BY <1>6, Zenon DEF regVars, gains, errors
  <2>2. Chosen' /\ Numbers'
    BY <2>1, SMT DEF Chosen, Numbers
  <2>3. QED
    BY <2>1, <2>2, Zenon DEF Typed8
<1>7. QED
  BY <1>1, <1>2, <1>3, <1>4, <1>5, <1>6, Zenon DEF RegNext

\* The types, from the start.
LEMMA TypesAlways == RegSpec => []RegTypes
<1>1. RegInit => RegTypes
  <2> SUFFICES ASSUME RegInit PROVE RegTypes
    OBVIOUS
  <2>1. /\ kp = InitKp /\ ki = InitKi /\ des = 0 /\ output = 0 /\ input = 0
        /\ error = 0 /\ error_last = 0 /\ error_all = 0
        /\ t_ff = 0 /\ v_des = 0 /\ pc = "next"
    BY Zenon DEF RegInit
  <2>2. Chosen /\ Numbers /\ t_ff \in Number
    BY <2>1, RegulatorAssumption, SMT DEF Chosen, Numbers, Number
  <2>3. Typed8
    BY SMT DEF RegInit, Typed8, Enter, EdgeBytes
  <2>4. tainted \subseteq {"set-point", "gain"}
    BY Zenon DEF RegInit
  <2>5. QED
    BY <2>2, <2>3, <2>4 DEF RegTypes
<1>2. QED
  BY <1>1, TypesKept, PTL DEF RegSpec

\* Every variable keeps its type, for all limits and all that is typed: what is
\* packed of any set-point are eight bytes (mit_protocol.c, pack_cmd_new).
THEOREM RegTypeCorrect == RegSpec => []RegTypeOK
  BY TypesAlways, TypesAre, PTL

\* The motor reads the set-point that was packed, limited and at most one step
\* lower, with no gains, and never one of the frames that switch it
\* (mit_protocol.c, pack_cmd_new; math_ops.c:39-45).
THEOREM TorqueAlwaysOnWire == RegSpec => TorqueOnWire
<1>1. SetPointsOK => [Pack => ReadAsAsked]_regVars
  <2> SUFFICES ASSUME SetPointsOK, Pack PROVE ReadAsAsked
    OBVIOUS
  <2> DEFINE t == Unpack(data').t
             asked == IF Greater(t_ff, MaxTorque) \/ t_ff = NaN THEN MaxTorque
                      ELSE IF Greater(-MaxTorque, t_ff) THEN -MaxTorque
                      ELSE t_ff
  <2>0. MaxTorque \in Nat \ {0} /\ -MaxTorque \in Int /\ MaxTorque \in Int
        /\ -MaxTorque < MaxTorque
    BY RegulatorAssumption, SMT
  <2>1. t = Field(t_ff, -MaxTorque, MaxTorque, 12)
    BY CommandIs
  <2>2. asked = Limited(t_ff, -MaxTorque, MaxTorque) /\ asked \in Int
    BY <2>0, LimitedIs, SMT DEF SetPointsOK
  <2>3. t \in 0 .. Top12
        /\ (asked + MaxTorque) * Top12 - t * (2 * MaxTorque) \in 0 .. 2 * MaxTorque - 1
    <3> HIDE DEF asked, t
    <3>1. QED
      BY <2>0, <2>1, <2>2, TwelveBits, Zenon DEF SetPointsOK
  <2>4. uint_to_float(t, -MaxTorque, MaxTorque, 12)
          = t * (MaxTorque - (-MaxTorque)) + (-MaxTorque) * 4095
    BY SMT DEF uint_to_float
  <2> HIDE DEF asked, t
  <2>5. asked * 4095 - uint_to_float(t, -MaxTorque, MaxTorque, 12)
          \in 0 .. 2 * MaxTorque - 1
    BY <2>0, <2>2, <2>3, <2>4, SMT DEF Top12
  <2>6. data' \notin {Enter, Exit, Zero}
    BY CommandIs, EdgesBegin, SMT DEF Command
  <2>7. QED
    BY <2>5, <2>6, CommandIs DEF asked, t, ReadAsAsked
<1>2. RegTypes => SetPointsOK
  BY TypesAre
<1>3. QED
  BY <1>1, <1>2, TypesAlways, PTL DEF TorqueOnWire
=============================================================================

-------------------------------- MODULE Floats --------------------------------
(* The floats of the interpreter, as far as the geometry needs them: binary   *)
(* numbers of Precision significant bits (53 in the build), each operation    *)
(* rounding its exact result to the nearest one, ties to even. A float is the *)
(* integer k that stands for k / One. Numbers below 1 / 2^(FractionBits -     *)
(* Precision) have fewer significant bits than they should: no scale is.      *)
EXTENDS Numerals

CONSTANTS Precision, FractionBits

ASSUME FloatsAssumption == /\ Precision \in Nat \ {0}
                           /\ FractionBits \in Nat /\ FractionBits >= Precision

One == Power(2, FractionBits)
Significands == Power(2, Precision)
Steps == {Power(2, e) : e \in 0..FractionBits}

Magnitude(n) == IF n < 0 THEN -n ELSE n

(* The integer nearest to n / d, as round() takes it.                         *)
NearestEven(n, d) ==
    LET q == n \div d
        r == n % d
    IN  IF 2 * r > d \/ (2 * r = d /\ q % 2 = 1) THEN q + 1 ELSE q

(* The float nearest to (n / d) / One: a multiple of the smallest step that   *)
(* leaves no more than the significant bits.                                  *)
StepOf(n, d) ==
    CHOOSE step \in Steps : /\ Magnitude(n) < d * (Significands * step)
                            /\ \A finer \in Steps :
                                 finer < step => Magnitude(n) >= d * (Significands * finer)
Rounded(n, d) == LET step == StepOf(n, d) IN NearestEven(n, d * step) * step

FloatOf(n) == Rounded(n * One, 1)
Plus(a, b) == Rounded(a + b, 1)
Minus(a, b) == Rounded(a - b, 1)
Times(a, b) == Rounded(a * b, One)
Over(a, b) == Rounded(a * One, b)

FloorOf(a) == a \div One
CeilOf(a) == -((-a) \div One)
RoundOf(a) == NearestEven(a, One)
==============================================================================

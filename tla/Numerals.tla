-------------------------------- MODULE Numerals --------------------------------
(* Numbers as they are written in a base, the first digit the most            *)
(* significant: int(text, 16) and struct.pack of the wire protocols.          *)
EXTENDS Integers, Sequences

Powers(base) == LET power[k \in Nat] == IF k = 0 THEN 1 ELSE base * power[k - 1] IN power
Power(base, k) == Powers(base)[k]

(* The value of the first i digits, for every i.                              *)
Values(base, digits) ==
    LET value[i \in 0..Len(digits)] == IF i = 0 THEN 0 ELSE value[i - 1] * base + digits[i]
    IN  value
Value(base, digits) == Values(base, digits)[Len(digits)]

(* The last digits of n, as many as the width.                                *)
Digits(base, width, n) == [i \in 1..width |-> (n \div Power(base, width - i)) % base]
==============================================================================

---------------------------- MODULE Numerals_proofs ----------------------------
(* What the numerals of the wire protocols denote, for every base, width and  *)
(* number; and the two principles its proof and the next ones rest on, taken  *)
(* from the well-foundedness of the natural numbers: induction, and that a    *)
(* function defined by recursion on them satisfies its equation.              *)
EXTENDS Numerals, SequenceTheorems, WellFoundedInduction, TLAPS

(* "Less than" is well founded on the natural numbers, as a set of pairs.     *)
LEMMA NatWellFounded == IsWellFoundedOn({p \in Nat \X Nat : p[1] < p[2]}, Nat)
<1>1. OpToRel(<, Nat) = {p \in Nat \X Nat : p[1] < p[2]}
  BY Zenon DEF OpToRel
<1> QED BY <1>1, NatLessThanWellFounded, Zenon

(* A set of natural numbers that is not empty has a least element.            *)
LEMMA LeastElement ==
    ASSUME NEW T, T \subseteq Nat, T # {}
    PROVE  \E n \in T : \A m \in T : n <= m
<1> DEFINE Less == {p \in Nat \X Nat : p[1] < p[2]}
<1>1. PICK n \in T : \A m \in T : ~(<<m, n>> \in Less)
  <2>1. IsWellFoundedOn(Less, Nat)
    BY NatWellFounded
  <2> HIDE DEF Less
  <2> QED BY <2>1, WFMin
<1>2. ASSUME NEW m \in T PROVE n <= m
  <2>1. m \in Nat /\ n \in Nat
    OBVIOUS
  <2>2. <<m, n>> \in Nat \X Nat /\ <<m, n>>[1] = m /\ <<m, n>>[2] = n
    BY <2>1
  <2>3. ~(m < n)
    BY <1>1, <2>2
  <2> QED BY <2>1, <2>3
<1> QED BY <1>2

(* A set that has 0 and with each number its successor has all numbers:       *)
(* induction with the property given as a set.                                *)
LEMMA InductionOverNat ==
    ASSUME NEW S, 0 \in S, \A n \in Nat : n \in S => n + 1 \in S
    PROVE  Nat \subseteq S
<1>1. CASE Nat \ S # {}
  <2>1. PICK n \in Nat \ S : \A m \in Nat \ S : n <= m
    BY <1>1, LeastElement
  <2>2. n # 0 /\ n - 1 \in Nat /\ (n - 1) + 1 = n
    BY <2>1
  <2>3. n - 1 \in S
    BY <2>1, <2>2
  <2> QED BY <2>1, <2>2, <2>3
<1> QED BY <1>1

(* A function given by its first value and a step from each value to the      *)
(* next: its beginnings, and the whole of it.                                 *)
Approximation(V, first, step, n) ==
    {g \in [0..n -> V] : g[0] = first /\ \A i \in 1..n : g[i] = step[<<g[i - 1], i>>]}

OnNat(f, V, first, step) ==
    f \in [Nat -> V] /\ f[0] = first /\ \A i \in Nat \ {0} : f[i] = step[<<f[i - 1], i>>]

(* There is such a function for every step.                                   *)
LEMMA RecursionOverNat ==
    ASSUME NEW V, NEW first \in V, NEW step \in [V \X Nat -> V]
    PROVE  \E f : OnNat(f, V, first, step)
<1> DEFINE A(n) == Approximation(V, first, step, n)
<1>1. \A n \in Nat : A(n) # {}
  <2> DEFINE S == {n \in Nat : A(n) # {}}
  <2>1. 0 \in S
    <3>1. [i \in 0..0 |-> first] \in A(0)
      BY DEF Approximation
    <3> QED BY <3>1
  <2>2. ASSUME NEW n \in Nat, n \in S PROVE n + 1 \in S
    <3>1. PICK g : g \in A(n)
      BY <2>2
    <3> DEFINE h == [i \in 0..n + 1 |-> IF i <= n THEN g[i] ELSE step[<<g[n], n + 1>>]]
    <3>2. g \in [0..n -> V] /\ g[0] = first /\ \A i \in 1..n : g[i] = step[<<g[i - 1], i>>]
      BY <3>1 DEF Approximation
    <3>3. step[<<g[n], n + 1>>] \in V
      BY <3>2
    <3>4. h \in [0..n + 1 -> V]
      BY <3>2, <3>3
    <3>5. h[0] = first
      BY <3>2
    <3>6. ASSUME NEW i \in 1..n + 1 PROVE h[i] = step[<<h[i - 1], i>>]
      <4>1. CASE i <= n
        BY <4>1, <3>2
      <4>2. CASE i = n + 1
        <5>1. h[i - 1] = g[n] /\ h[i] = step[<<g[n], n + 1>>]
          BY <4>2
        <5> QED BY <4>2, <5>1
      <4> QED BY <4>1, <4>2
    <3>7. h \in A(n + 1)
      BY <3>4, <3>5, <3>6 DEF Approximation
    <3> QED BY <3>7
  <2> HIDE DEF S
  <2>3. Nat \subseteq S
    BY <2>1, <2>2, InductionOverNat
  <2> QED BY <2>3 DEF S
<1>2. ASSUME NEW m \in Nat, NEW n \in Nat, NEW g \in A(m), NEW h \in A(n)
      PROVE  \A k \in Nat : k <= m /\ k <= n => g[k] = h[k]
  <2> DEFINE S == {k \in Nat : k <= m /\ k <= n => g[k] = h[k]}
  <2>1. /\ g \in [0..m -> V] /\ g[0] = first /\ \A i \in 1..m : g[i] = step[<<g[i - 1], i>>]
        /\ h \in [0..n -> V] /\ h[0] = first /\ \A i \in 1..n : h[i] = step[<<h[i - 1], i>>]
    BY DEF Approximation
  <2>2. 0 \in S
    BY <2>1
  <2>3. ASSUME NEW k \in Nat, k \in S PROVE k + 1 \in S
    <3>1. CASE k + 1 <= m /\ k + 1 <= n
      <4>1. g[k] = h[k] /\ k + 1 \in 1..m /\ k + 1 \in 1..n /\ (k + 1) - 1 = k
        BY <2>3, <3>1
      <4>2. g[k + 1] = step[<<g[k], k + 1>>] /\ h[k + 1] = step[<<h[k], k + 1>>]
        BY <2>1, <4>1
      <4> QED BY <4>1, <4>2
    <3> QED BY <3>1
  <2> HIDE DEF S
  <2>4. Nat \subseteq S
    BY <2>2, <2>3, InductionOverNat
  <2> QED BY <2>4 DEF S
<1> DEFINE G(n) == CHOOSE g \in A(n) : TRUE
           f == [n \in Nat |-> G(n)[n]]
<1>3. \A n \in Nat : G(n) \in A(n)
  BY <1>1
<1> HIDE DEF G
<1>4. f \in [Nat -> V]
  BY <1>3 DEF Approximation
<1>5. ASSUME NEW i \in Nat PROVE f[i] = IF i = 0 THEN first ELSE step[<<f[i - 1], i>>]
  <2>1. CASE i = 0
    BY <1>3, <2>1 DEF Approximation
  <2>2. CASE i # 0
    <3>1. i - 1 \in Nat /\ i \in 1..i
      BY <2>2
    <3>2. G(i)[i] = step[<<G(i)[i - 1], i>>]
      BY <1>3, <3>1 DEF Approximation
    <3>3. G(i)[i - 1] = G(i - 1)[i - 1]
      BY <1>2, <1>3, <3>1
    <3> QED BY <2>2, <3>1, <3>2, <3>3
  <2> QED BY <2>1, <2>2
<1> HIDE DEF f
<1>6. f[0] = first /\ \A i \in Nat \ {0} : f[i] = step[<<f[i - 1], i>>]
  BY <1>5
<1> QED BY <1>4, <1>6 DEF OnNat

(* The same for a function on 0..n.                                           *)
UpTo(n, f, V, first, step) ==
    f \in [0..n -> V] /\ f[0] = first /\ \A i \in 1..n : f[i] = step[<<f[i - 1], i>>]

(* There is one for every n: the beginning of the whole function.             *)
LEMMA RecursionUpTo ==
    ASSUME NEW V, NEW first \in V, NEW step \in [V \X Nat -> V], NEW n \in Nat
    PROVE  \E f : UpTo(n, f, V, first, step)
<1>1. PICK g \in [Nat -> V] : g[0] = first /\ \A i \in Nat \ {0} : g[i] = step[<<g[i - 1], i>>]
  <2>1. \E g : OnNat(g, V, first, step)
    BY RecursionOverNat
  <2> QED BY <2>1 DEF OnNat
<1> DEFINE f == [i \in 0..n |-> g[i]]
<1>2. f \in [0..n -> V]
  OBVIOUS
<1>3. f[0] = first /\ \A i \in 1..n : f[i] = step[<<f[i - 1], i>>]
  <2>1. ASSUME NEW i \in 1..n PROVE i \in Nat \ {0} /\ i \in 0..n /\ i - 1 \in 0..n
    OBVIOUS
  <2> QED BY <1>1, <2>1
<1> QED BY <1>2, <1>3 DEF UpTo

(* The recursive equation of the powers of a base.                            *)
LEMMA PowersDef ==
    ASSUME NEW base \in Nat
    PROVE  /\ Powers(base) \in [Nat -> Nat]
           /\ \A k \in Nat : Powers(base)[k] = IF k = 0 THEN 1 ELSE base * Powers(base)[k - 1]
<1> DEFINE step == [x \in Nat \X Nat |-> base * x[1]]
           Is(f) == f = [k \in Nat |-> IF k = 0 THEN 1 ELSE base * f[k - 1]]
<1>1. PICK g \in [Nat -> Nat] : g[0] = 1 /\ \A i \in Nat \ {0} : g[i] = step[<<g[i - 1], i>>]
  <2>1. step \in [Nat \X Nat -> Nat] /\ 1 \in Nat
    OBVIOUS
  <2> HIDE DEF step
  <2>2. \E g : OnNat(g, Nat, 1, step)
    BY <2>1, RecursionOverNat
  <2> QED BY <2>2 DEF OnNat
<1>2. Is(g)
  <2>1. ASSUME NEW k \in Nat PROVE g[k] = IF k = 0 THEN 1 ELSE base * g[k - 1]
    <3>1. CASE k = 0
      BY <1>1, <3>1
    <3>2. CASE k # 0
      <4>1. g[k] = step[<<g[k - 1], k>>]
        BY <1>1, <3>2
      <4>2. g[k - 1] \in Nat
        BY <3>2
      <4> QED BY <3>2, <4>1, <4>2
    <3> QED BY <3>1, <3>2
  <2>2. g = [k \in Nat |-> g[k]]
    BY <1>1
  <2> QED BY <2>1, <2>2
<1>3. Is(Powers(base))
  <2>1. Powers(base) = CHOOSE f : Is(f)
    BY DEF Powers
  <2> HIDE DEF Is
  <2> QED BY <1>2, <2>1
<1> DEFINE p == Powers(base)
<1>4. \A k \in Nat : p[k] = IF k = 0 THEN 1 ELSE base * p[k - 1]
  BY <1>3
<1>5. DOMAIN p = Nat /\ p = [k \in Nat |-> p[k]]
  BY <1>3
<1> HIDE DEF p
<1>6. Nat \subseteq {k \in Nat : p[k] \in Nat}
  <2> DEFINE S == {k \in Nat : p[k] \in Nat}
  <2>1. 0 \in S
    BY <1>4
  <2>2. ASSUME NEW n \in Nat, n \in S PROVE n + 1 \in S
    <3>1. p[n + 1] = base * p[n] /\ p[n] \in Nat
      BY <1>4, <2>2
    <3> QED BY <3>1
  <2> HIDE DEF S
  <2>3. Nat \subseteq S
    BY <2>1, <2>2, InductionOverNat
  <2> QED BY <2>3 DEF S
<1> QED BY <1>4, <1>5, <1>6 DEF p

(* The powers of a base other than 0 are not 0, and each is the base times    *)
(* the one before.                                                            *)
LEMMA PowerStep ==
    ASSUME NEW base \in Nat \ {0}
    PROVE  /\ Power(base, 0) = 1
           /\ \A k \in Nat : Power(base, k) \in Nat \ {0} /\ Power(base, k + 1) = base * Power(base, k)
<1>1. Power(base, 0) = 1 /\ \A k \in Nat : Power(base, k) \in Nat /\ Power(base, k + 1) = base * Power(base, k)
  <2>1. \A k \in Nat : k + 1 \in Nat /\ k + 1 # 0 /\ (k + 1) - 1 = k /\ base \in Nat
    OBVIOUS
  <2> QED BY <2>1, PowersDef, ZenonT(30) DEF Power
<1> DEFINE S == {k \in Nat : Power(base, k) # 0}
<1>2. 0 \in S
  BY <1>1
<1>3. ASSUME NEW k \in Nat, k \in S PROVE k + 1 \in S
  <2>1. PICK q \in Nat \ {0} : q = Power(base, k)
    BY <1>1, <1>3
  <2>2. base * q # 0
    BY <2>1
  <2> QED BY <1>1, <2>1, <2>2
<1> HIDE DEF S
<1>4. Nat \subseteq S
  BY <1>2, <1>3, InductionOverNat
<1> QED BY <1>1, <1>4 DEF S

(* The recursive equation of the values of the first digits of a numeral.     *)
LEMMA ValuesDef ==
    ASSUME NEW base \in Nat, NEW digits \in Seq(Nat)
    PROVE  /\ Values(base, digits) \in [0..Len(digits) -> Nat]
           /\ Values(base, digits)[0] = 0
           /\ \A i \in 1..Len(digits) :
                Values(base, digits)[i] = Values(base, digits)[i - 1] * base + digits[i]
<1> DEFINE n == Len(digits)
           step == [x \in Nat \X Nat |-> x[1] * base + IF x[2] \in 1..n THEN digits[x[2]] ELSE 0]
           Is(f) == f = [i \in 0..n |-> IF i = 0 THEN 0 ELSE f[i - 1] * base + digits[i]]
<1>1. n \in Nat /\ \A i \in 1..n : digits[i] \in Nat
  OBVIOUS
<1> HIDE DEF n
<1>2. PICK g \in [0..n -> Nat] : g[0] = 0 /\ \A i \in 1..n : g[i] = step[<<g[i - 1], i>>]
  <2>1. ASSUME NEW x \in Nat \X Nat PROVE x[1] * base + (IF x[2] \in 1..n THEN digits[x[2]] ELSE 0) \in Nat
    <3>1. PICK a, b \in Nat : x[1] = a /\ x[2] = b
      OBVIOUS
    <3>2. (IF b \in 1..n THEN digits[b] ELSE 0) \in Nat
      BY <1>1
    <3>3. a * base \in Nat
      OBVIOUS
    <3> QED BY <3>1, <3>2, <3>3
  <2>2. step \in [Nat \X Nat -> Nat] /\ 0 \in Nat
    BY <2>1
  <2> HIDE DEF step
  <2>3. \E g : UpTo(n, g, Nat, 0, step)
    BY <1>1, <2>2, RecursionUpTo
  <2> QED BY <2>3 DEF UpTo
<1>3. Is(g)
  <2>1. ASSUME NEW i \in 0..n PROVE g[i] = IF i = 0 THEN 0 ELSE g[i - 1] * base + digits[i]
    <3>1. CASE i = 0
      BY <1>2, <3>1
    <3>2. CASE i # 0
      <4>1. i \in 1..n
        BY <1>1, <3>2
      <4>2. g[i - 1] \in Nat /\ i \in Nat
        BY <1>1, <4>1
      <4>3. g[i] = step[<<g[i - 1], i>>]
        <5> HIDE DEF step
        <5> QED BY <1>2, <4>1
      <4> QED BY <3>2, <4>1, <4>2, <4>3
    <3> QED BY <3>1, <3>2
  <2>2. g = [i \in 0..n |-> g[i]]
    BY <1>2
  <2> QED BY <2>1, <2>2
<1>4. Is(Values(base, digits))
  <2>1. Values(base, digits) = CHOOSE f : Is(f)
    BY DEF Values, n
  <2> HIDE DEF Is
  <2> QED BY <1>3, <2>1
<1> DEFINE v == Values(base, digits)
<1>5. v = [i \in 0..n |-> v[i]] /\ v[0] = 0 /\ \A i \in 1..n : v[i] = v[i - 1] * base + digits[i]
  <2>1. \A i \in 0..n : v[i] = IF i = 0 THEN 0 ELSE v[i - 1] * base + digits[i]
    BY <1>4
  <2>2. v = [i \in 0..n |-> v[i]]
    BY <1>4
  <2> HIDE DEF v
  <2>3. 0 \in 0..n /\ \A i \in 1..n : i \in 0..n /\ i # 0
    BY <1>1
  <2> QED BY <2>1, <2>2, <2>3
<1> HIDE DEF v
<1>6. \A i \in 0..n : v[i] \in Nat
  <2> DEFINE S == {i \in Nat : i <= n => v[i] \in Nat}
  <2>1. 0 \in S
    BY <1>5
  <2>2. ASSUME NEW i \in Nat, i \in S PROVE i + 1 \in S
    <3>1. CASE i + 1 <= n
      <4>1. i + 1 \in 1..n /\ (i + 1) - 1 = i /\ i <= n
        BY <1>1, <3>1
      <4>2. v[i + 1] = v[i] * base + digits[i + 1]
        BY <1>5, <4>1
      <4>3. PICK a, d \in Nat : a = v[i] /\ d = digits[i + 1]
        BY <1>1, <2>2, <4>1
      <4>4. a * base + d \in Nat
        OBVIOUS
      <4> QED BY <4>2, <4>3, <4>4
    <3> QED BY <3>1
  <2> HIDE DEF S
  <2>3. Nat \subseteq S
    BY <2>1, <2>2, InductionOverNat
  <2> QED BY <1>1, <2>3 DEF S
<1> QED BY <1>5, <1>6 DEF v, n

(* A numeral has as many digits as asked for, each below the base.            *)
LEMMA DigitsType ==
    ASSUME NEW base \in Nat \ {0}, NEW width \in Nat, NEW n \in Nat
    PROVE  /\ Digits(base, width, n) \in Seq(Nat) /\ Len(Digits(base, width, n)) = width
           /\ \A i \in 1..width : Digits(base, width, n)[i] < base
<1>1. ASSUME NEW i \in 1..width
      PROVE  (n \div Power(base, width - i)) % base \in 0..base - 1
  <2>1. PICK q \in Nat \ {0} : q = Power(base, width - i)
    BY PowerStep
  <2>2. n \div q \in Nat
    OBVIOUS
  <2> QED BY <2>1, <2>2
<1>2. \A i \in 1..width : Digits(base, width, n)[i] \in 0..base - 1
  BY <1>1 DEF Digits
<1>3. Digits(base, width, n) \in [1..width -> 0..base - 1]
  BY <1>1 DEF Digits
<1> QED BY <1>2, <1>3

(* What is written as a multiple of m and a rest below m is divided by m.     *)
LEMMA DivUnique ==
    ASSUME NEW k \in Nat, NEW m \in Nat \ {0}, NEW r \in 0..m - 1
    PROVE  (k * m + r) \div m = k
<1>1. PICK n \in Nat : n = k * m + r
  <2>1. k * m \in Nat
    OBVIOUS
  <2> QED BY <2>1
<1>2. PICK q \in Nat, s \in 0..m - 1 : q = n \div m /\ n = q * m + s
  <2>1. n \div m \in Nat /\ n % m \in 0..m - 1 /\ n = (n \div m) * m + (n % m)
    OBVIOUS
  <2> QED BY <2>1
<1>3. (q - k) * m = r - s
  BY <1>1, <1>2
<1>4. CASE q >= k + 1
  <2>1. PICK e \in Nat : q - k = e + 1
    BY <1>4
  <2>2. (e + 1) * m = e * m + m /\ e * m \in Nat
    OBVIOUS
  <2> QED BY <1>3, <2>1, <2>2
<1>5. CASE q + 1 <= k
  <2>1. PICK e \in Nat : k - q = e + 1
    BY <1>5
  <2>2. (k - q) * m = s - r
    BY <1>1, <1>2
  <2>3. (e + 1) * m = e * m + m /\ e * m \in Nat
    OBVIOUS
  <2> QED BY <2>1, <2>2, <2>3
<1> QED BY <1>1, <1>2, <1>4, <1>5

(* Dividing by q, the last digit in base b is what dividing by b * q leaves   *)
(* out.                                                                       *)
LEMMA DivSteps ==
    ASSUME NEW n \in Nat, NEW b \in Nat \ {0}, NEW q \in Nat \ {0}
    PROVE  n \div q = (n \div (b * q)) * b + ((n \div q) % b)
<1>1. PICK m \in Nat, r \in 0..q - 1 : m = n \div q /\ n = m * q + r
  <2>1. n \div q \in Nat /\ n % q \in 0..q - 1 /\ n = (n \div q) * q + (n % q)
    OBVIOUS
  <2> QED BY <2>1
<1>2. PICK k \in Nat, d \in 0..b - 1 : k = m \div b /\ d = m % b /\ m = k * b + d
  <2>1. m \div b \in Nat /\ m % b \in 0..b - 1 /\ m = (m \div b) * b + (m % b)
    OBVIOUS
  <2> QED BY <2>1
<1>3. n = k * (b * q) + (d * q + r)
  <2>1. (k * b + d) * q = k * (b * q) + d * q
    OBVIOUS
  <2>2. n = (k * b + d) * q + r
    BY <1>1, <1>2
  <2>3. PICK x, y, z \in Nat : x = k * (b * q) /\ y = d * q /\ z = (k * b + d) * q
    OBVIOUS
  <2> QED BY <2>1, <2>2, <2>3
<1>4. d * q + r \in 0..(b * q) - 1
  <2>1. PICK e \in Nat : b = d + 1 + e
    <3>1. b - d - 1 \in Nat /\ b = d + 1 + (b - d - 1)
      OBVIOUS
    <3> QED BY <3>1
  <2>2. b * q = d * q + q + e * q /\ d * q \in Nat /\ e * q \in Nat
    BY <2>1
  <2> QED BY <2>2
<1>5. b * q \in Nat \ {0}
  <2>1. PICK e \in Nat : b = e + 1
    <3>1. b - 1 \in Nat /\ b = (b - 1) + 1
      OBVIOUS
    <3> QED BY <3>1
  <2>2. b * q = e * q + q /\ e * q \in Nat
    BY <2>1
  <2> QED BY <2>2
<1>6. n \div (b * q) = k
  BY <1>3, <1>4, <1>5, DivUnique
<1> QED BY <1>1, <1>2, <1>6

(* What is written in a field wide enough for it is read as what it was:      *)
(* int(text, 16) of the wire protocols (framing.py 22-27, client.py 138-142), *)
(* by induction on the digits read.                                           *)
LEMMA ValueOfDigits ==
    ASSUME NEW base \in Nat \ {0}, NEW width \in Nat, NEW n \in Nat, n < Power(base, width)
    PROVE  Value(base, Digits(base, width, n)) = n
<1> DEFINE digits == Digits(base, width, n)
           v == Values(base, digits)
           q(k) == n \div Power(base, width - k)
<1>1. digits \in Seq(Nat) /\ Len(digits) = width
  BY DigitsType
<1>2. v[0] = 0 /\ \A i \in 1..width : v[i] = v[i - 1] * base + digits[i]
  <2> HIDE DEF digits
  <2> QED BY <1>1, ValuesDef
<1>3. ASSUME NEW k \in 0..width PROVE Power(base, width - k) \in Nat \ {0}
  <2>1. width - k \in Nat
    OBVIOUS
  <2> QED BY <2>1, PowerStep
<1> DEFINE S == {k \in Nat : k <= width => v[k] = q(k)}
<1>4. 0 \in S
  <2>1. PICK p \in Nat \ {0} : p = Power(base, width) /\ n < p
    BY PowerStep
  <2>2. n \div p = 0 /\ width - 0 = width
    <3>1. 0 * p + n = n /\ n \in 0..p - 1
      BY <2>1
    <3> QED BY <3>1, DivUnique
  <2> HIDE DEF v
  <2> QED BY <1>2, <2>1, <2>2
<1>5. ASSUME NEW k \in Nat, k \in S PROVE k + 1 \in S
  <2>1. CASE k + 1 <= width
    <3>1. k + 1 \in 1..width /\ (k + 1) - 1 = k /\ width - k \in Nat /\ width - (k + 1) \in Nat
          /\ width - k = (width - (k + 1)) + 1 /\ base \in Nat
      BY <2>1
    <3>2. PICK p \in Nat \ {0} : p = Power(base, width - (k + 1))
      BY <1>3, <3>1
    <3>3. Power(base, width - k) = base * p
      BY <3>1, <3>2, PowerStep
    <3>4. digits[k + 1] = (n \div p) % base
      BY <3>1, <3>2 DEF Digits
    <3>5. n \div p = (n \div (base * p)) * base + ((n \div p) % base)
      BY DivSteps
    <3>6. v[k] = n \div (base * p)
      BY <1>5, <2>1, <3>3
    <3> HIDE DEF v, digits
    <3>7. v[k + 1] = v[k] * base + digits[k + 1]
      BY <1>2, <3>1
    <3>8. v[k + 1] = q(k + 1)
      BY <3>2, <3>4, <3>5, <3>6, <3>7
    <3> QED BY <3>1, <3>8
  <2> QED BY <2>1
<1> HIDE DEF S
<1>6. width \in S
  BY <1>4, <1>5, InductionOverNat
<1> HIDE DEF v
<1>7. v[width] = q(width)
  BY <1>6 DEF S
<1>8. q(width) = n
  <2>1. width - width = 0 /\ n \div 1 = n
    OBVIOUS
  <2> QED BY <2>1, PowerStep
<1> QED BY <1>1, <1>7, <1>8 DEF Value, v
==============================================================================

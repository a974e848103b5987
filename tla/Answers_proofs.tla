------------------------- MODULE Answers_proofs -------------------------
(* What the client, the protobuf reader and the inspectors answer is exact,   *)
(* for every width of the numbers and fields, every reply, report and text.   *)
(* First a reply: what was received and what will still arrive is a beginning *)
(* of what the server sent (Ahead), field by field (AtStatus ... AtData) and  *)
(* packet by packet (InScript). Then a report: bytes that are read as some    *)
(* fields whatever follows them (Leads), and what of a beginning of a message *)
(* can be read at all (Yields, ReadOf). Last a text: what is found after each *)
(* of its lines (LinesRead) and sections (SectionedRead), which makes every   *)
(* report a device prints Faithful.                                           *)
EXTENDS MCKernel, Numerals_proofs, FiniteSetTheorems

(* The concatenation of the first i of some sequences, for every i, and what  *)
(* follows the first k of them in the whole.                                  *)
Joined(seqs) ==
    LET joined[i \in 0..Len(seqs)] == IF i = 0 THEN <<>> ELSE joined[i - 1] \o seqs[i] IN joined

Unparsed(seqs, k) ==
    SubSeq(Joined(seqs)[Len(seqs)], Len(Joined(seqs)[k]) + 1, Len(Joined(seqs)[Len(seqs)]))

(* The bytes read and the bytes still to arrive make a beginning of s:        *)
(* nothing of it is lost or reordered, but it may break off.                  *)
Ahead(g, u, s) == \E n \in 0..Len(s) : g \o u = SubSeq(s, 1, n)

(* The recursive equation of Joined.                                          *)
LEMMA JoinedDef ==
    ASSUME NEW S, NEW seqs \in Seq(Seq(S))
    PROVE  /\ Joined(seqs) \in [0..Len(seqs) -> Seq(S)]
           /\ Joined(seqs)[0] = <<>>
           /\ \A i \in 1..Len(seqs) : Joined(seqs)[i] = Joined(seqs)[i - 1] \o seqs[i]
<1> DEFINE n == Len(seqs)
           step == [x \in Seq(S) \X Nat |-> x[1] \o IF x[2] \in 1..n THEN seqs[x[2]] ELSE <<>>]
           Is(f) == f = [i \in 0..n |-> IF i = 0 THEN <<>> ELSE f[i - 1] \o seqs[i]]
<1>1. n \in Nat /\ <<>> \in Seq(S) /\ \A i \in 1..n : seqs[i] \in Seq(S)
  OBVIOUS
<1> HIDE DEF n
<1>2. PICK g \in [0..n -> Seq(S)] : g[0] = <<>> /\ \A i \in 1..n : g[i] = step[<<g[i - 1], i>>]
  <2>1. ASSUME NEW x \in Seq(S) \X Nat
        PROVE  x[1] \o (IF x[2] \in 1..n THEN seqs[x[2]] ELSE <<>>) \in Seq(S)
    <3>1. PICK a \in Seq(S), b \in Nat : x[1] = a /\ x[2] = b
      OBVIOUS
    <3>2. (IF b \in 1..n THEN seqs[b] ELSE <<>>) \in Seq(S)
      BY <1>1
    <3> QED BY <3>1, <3>2, ConcatProperties
  <2>2. step \in [Seq(S) \X Nat -> Seq(S)]
    BY <2>1
  <2> HIDE DEF step
  <2>3. \E g : UpTo(n, g, Seq(S), <<>>, step)
    BY <1>1, <2>2, RecursionUpTo
  <2> QED BY <2>3 DEF UpTo
<1>3. \A i \in 1..n : g[i - 1] \in Seq(S) /\ g[i] = g[i - 1] \o seqs[i]
  <2> SUFFICES ASSUME NEW i \in 1..n PROVE g[i - 1] \in Seq(S) /\ g[i] = g[i - 1] \o seqs[i]
    OBVIOUS
  <2>1. g[i - 1] \in Seq(S) /\ i \in Nat
    BY <1>1
  <2>2. g[i] = step[<<g[i - 1], i>>]
    <3> HIDE DEF step
    <3> QED BY <1>2
  <2> QED BY <2>1, <2>2
<1>4. Is(g)
  <2>1. g = [i \in 0..n |-> g[i]]
    BY <1>2
  <2>2. ASSUME NEW i \in 0..n PROVE g[i] = IF i = 0 THEN <<>> ELSE g[i - 1] \o seqs[i]
    <3>1. i # 0 => i \in 1..n
      BY <1>1
    <3> QED BY <1>2, <1>3, <3>1
  <2> QED BY <2>1, <2>2
<1>5. Is(Joined(seqs))
  <2>1. Joined(seqs) = CHOOSE f : Is(f)
    BY DEF Joined, n
  <2> HIDE DEF Is
  <2> QED BY <1>4, <2>1
<1> DEFINE j == Joined(seqs)
<1>6. j = [i \in 0..n |-> j[i]] /\ j[0] = <<>> /\ \A i \in 1..n : j[i] = j[i - 1] \o seqs[i]
  <2>1. \A i \in 0..n : j[i] = IF i = 0 THEN <<>> ELSE j[i - 1] \o seqs[i]
    BY <1>5
  <2>2. j = [i \in 0..n |-> j[i]]
    BY <1>5
  <2> HIDE DEF j
  <2>3. 0 \in 0..n /\ \A i \in 1..n : i \in 0..n /\ i # 0
    BY <1>1
  <2> QED BY <2>1, <2>2, <2>3
<1> HIDE DEF j
<1>7. \A i \in 0..n : j[i] \in Seq(S)
  <2> DEFINE T == {i \in Nat : i <= n => j[i] \in Seq(S)}
  <2>1. 0 \in T
    BY <1>1, <1>6
  <2>2. ASSUME NEW i \in Nat, i \in T PROVE i + 1 \in T
    <3>1. CASE i + 1 <= n
      <4>1. i + 1 \in 1..n /\ (i + 1) - 1 = i /\ i <= n
        BY <1>1, <3>1
      <4>2. j[i + 1] = j[i] \o seqs[i + 1] /\ j[i] \in Seq(S) /\ seqs[i + 1] \in Seq(S)
        BY <1>1, <1>6, <2>2, <4>1
      <4>3. j[i] \o seqs[i + 1] \in Seq(S)
        BY <4>2, ConcatProperties
      <4>4. j[i + 1] \in Seq(S)
        BY <4>2, <4>3, Zenon
      <4> QED BY <4>4
    <3> QED BY <3>1
  <2> HIDE DEF T
  <2>3. Nat \subseteq T
    BY <2>1, <2>2, InductionOverNat
  <2> QED BY <1>1, <2>3 DEF T
<1> QED BY <1>6, <1>7 DEF j, n

(* FlattenSeq is the last of them.                                            *)
LEMMA FlattenIsJoined ==
    ASSUME NEW S, NEW seqs \in Seq(Seq(S))
    PROVE  FlattenSeq(seqs) = Joined(seqs)[Len(seqs)]
<1> DEFINE n == Len(seqs)
           j == Joined(seqs)
           Is(f) == f = [i \in 1..n |-> IF i = 1 THEN seqs[i] ELSE f[i - 1] \o seqs[i]]
<1>1. n \in Nat /\ \A i \in 1..n : seqs[i] \in Seq(S)
  OBVIOUS
<1>2. j[0] = <<>> /\ \A i \in 1..n : j[i] = j[i - 1] \o seqs[i]
  BY JoinedDef
<1>3. CASE n = 0
  BY <1>2, <1>3 DEF FlattenSeq
<1>4. CASE n # 0
  <2> DEFINE f == CHOOSE g : Is(g)
  <2>1. FlattenSeq(seqs) = f[n]
    BY <1>4 DEF FlattenSeq
  <2> HIDE DEF n, j
  <2>2. Is([i \in 1..n |-> j[i]])
    <3>1. ASSUME NEW i \in 1..n
          PROVE  j[i] = IF i = 1 THEN seqs[i] ELSE [k \in 1..n |-> j[k]][i - 1] \o seqs[i]
      <4>1. CASE i = 1
        <5>1. j[1] = <<>> \o seqs[1] /\ seqs[1] \in Seq(S)
          <6>1. 1 \in 1..n /\ 1 - 1 = 0
            BY <1>1, <4>1
          <6> QED BY <1>1, <1>2, <6>1
        <5> QED BY <4>1, <5>1, ConcatEmptySeq
      <4>2. CASE i # 1
        <5>1. i - 1 \in 1..n
          BY <1>1, <4>2
        <5> QED BY <1>2, <4>2, <5>1
      <4> QED BY <4>1, <4>2
    <3> QED BY <3>1
  <2>3. Is(f)
    <3> HIDE DEF Is
    <3> QED BY <2>2
  <2>4. \A i \in 1..n : f[i] = IF i = 1 THEN seqs[i] ELSE f[i - 1] \o seqs[i]
    BY <2>3
  <2> HIDE DEF f
  <2> DEFINE T == {i \in Nat : i \in 1..n => f[i] = j[i]}
  <2>5. 0 \in T
    OBVIOUS
  <2>6. ASSUME NEW i \in Nat, i \in T PROVE i + 1 \in T
    <3>1. CASE i + 1 \in 1..n /\ i = 0
      <4>1. j[1] = <<>> \o seqs[1] /\ seqs[1] \in Seq(S) /\ f[1] = seqs[1]
        <5>1. 1 \in 1..n /\ 1 - 1 = 0
          BY <1>1, <3>1
        <5> QED BY <1>1, <1>2, <2>4, <5>1
      <4> QED BY <3>1, <4>1, ConcatEmptySeq
    <3>2. CASE i + 1 \in 1..n /\ i # 0
      <4>1. i \in 1..n /\ (i + 1) - 1 = i /\ i + 1 # 1
        BY <1>1, <3>2
      <4>2. j[i + 1] = j[i] \o seqs[i + 1] /\ f[i + 1] = f[i] \o seqs[i + 1] /\ f[i] = j[i]
        BY <1>2, <2>4, <2>6, <3>2, <4>1
      <4>3. f[i + 1] = j[i + 1]
        BY <4>2, Zenon
      <4> QED BY <4>3
    <3> QED BY <3>1, <3>2
  <2> HIDE DEF T
  <2>7. n \in T
    BY <1>1, <2>5, <2>6, InductionOverNat
  <2>8. f[n] = j[n]
    BY <1>1, <1>4, <2>7 DEF T
  <2> QED BY <2>1, <2>8 DEF j, n
<1> QED BY <1>3, <1>4

(* Each is a beginning of those after it.                                     *)
LEMMA JoinedGrows ==
    ASSUME NEW S, NEW seqs \in Seq(Seq(S)), NEW k \in 0..Len(seqs), NEW m \in k..Len(seqs)
    PROVE  /\ Len(Joined(seqs)[k]) <= Len(Joined(seqs)[m])
           /\ \A i \in 1..Len(Joined(seqs)[k]) : Joined(seqs)[m][i] = Joined(seqs)[k][i]
<1> DEFINE n == Len(seqs)
           j == Joined(seqs)
           Grown(h) == Len(j[k]) <= Len(j[h]) /\ \A i \in 1..Len(j[k]) : j[h][i] = j[k][i]
           T == {h \in Nat : h \in k..n => Grown(h)}
<1>1. n \in Nat /\ \A i \in 1..n : seqs[i] \in Seq(S)
  OBVIOUS
<1>2. j[0] = <<>> /\ (\A i \in 0..n : j[i] \in Seq(S)) /\ \A i \in 1..n : j[i] = j[i - 1] \o seqs[i]
  BY JoinedDef
<1> HIDE DEF n, j
<1>3. 0 \in T
  <2>1. 0 \in k..n => k = 0
    BY <1>1 DEF n
  <2>2. Len(j[0]) \in Nat
    BY <1>1, <1>2
  <2> QED BY <2>1, <2>2
<1>4. ASSUME NEW h \in Nat, h \in T PROVE h + 1 \in T
  <2>1. CASE h + 1 \in k..n /\ h + 1 = k
    <3>1. Len(j[k]) \in Nat
      BY <1>2, <2>1
    <3>2. Grown(h + 1)
      BY <2>1, <3>1
    <3> QED BY <3>2
  <2>2. CASE h + 1 \in k..n /\ h + 1 # k
    <3>1. h \in k..n /\ h + 1 \in 1..n /\ h \in 0..n /\ (h + 1) - 1 = h /\ k \in 0..n
      BY <1>1, <2>2 DEF n
    <3>2. PICK a \in Seq(S), b \in Seq(S), c \in Seq(S) : a = j[h] /\ b = seqs[h + 1] /\ c = j[k]
      BY <1>1, <1>2, <3>1
    <3>3. j[h + 1] = a \o b
      BY <1>2, <3>1, <3>2
    <3>4. Len(c) <= Len(a) /\ \A i \in 1..Len(c) : a[i] = c[i]
      BY <1>4, <3>1, <3>2
    <3>5. Len(a \o b) = Len(a) + Len(b) /\ \A i \in 1..Len(a) : (a \o b)[i] = a[i]
      <4>1. Len(a) \in Nat /\ Len(b) \in Nat
        OBVIOUS
      <4> QED BY <4>1, ConcatProperties
    <3>6. Len(a) \in Nat /\ Len(b) \in Nat /\ Len(c) \in Nat
      OBVIOUS
    <3>7. Len(c) <= Len(a \o b) /\ \A i \in 1..Len(c) : (a \o b)[i] = c[i]
      <4>1. \A i \in 1..Len(c) : i \in 1..Len(a)
        BY <3>4, <3>6
      <4> QED BY <3>4, <3>5, <3>6, <4>1
    <3>8. Grown(h + 1)
      BY <3>2, <3>3, <3>7
    <3> HIDE DEF Grown
    <3> QED BY <3>8
  <2> QED BY <2>1, <2>2
<1> HIDE DEF T, Grown
<1>5. m \in T
  <2>1. m \in Nat
    BY <1>1 DEF n
  <2> QED BY <2>1, <1>3, <1>4, InductionOverNat
<1>6. Grown(m)
  BY <1>5 DEF T, n
<1> QED BY <1>6 DEF Grown, j

(* What is left of a whole: all of it, then without its first part, at last   *)
(* nothing.                                                                   *)
LEMMA UnparsedSteps ==
    ASSUME NEW S, NEW seqs \in Seq(Seq(S))
    PROVE  /\ \A k \in 0..Len(seqs) : Unparsed(seqs, k) \in Seq(S)
           /\ Unparsed(seqs, 0) = FlattenSeq(seqs) /\ Unparsed(seqs, Len(seqs)) = <<>>
           /\ \A k \in 0..Len(seqs) - 1 :
                Unparsed(seqs, k) = seqs[k + 1] \o Unparsed(seqs, k + 1)
<1> DEFINE n == Len(seqs)
           j == Joined(seqs)
           all == j[n]
<1>1. n \in Nat /\ \A i \in 1..n : seqs[i] \in Seq(S)
  OBVIOUS
<1>2. j[0] = <<>> /\ (\A i \in 0..n : j[i] \in Seq(S)) /\ \A i \in 1..n : j[i] = j[i - 1] \o seqs[i]
  BY JoinedDef
<1>3. all \in Seq(S) /\ Len(all) \in Nat
  BY <1>1, <1>2
<1>4. \A k \in 0..n : Unparsed(seqs, k) = SubSeq(all, Len(j[k]) + 1, Len(all))
  BY DEF Unparsed
<1>5. \A k \in 0..n : Len(j[k]) \in 0..Len(all) /\ \A i \in 1..Len(j[k]) : all[i] = j[k][i]
  <2> SUFFICES ASSUME NEW k \in 0..n
               PROVE  Len(j[k]) \in 0..Len(all) /\ \A i \in 1..Len(j[k]) : all[i] = j[k][i]
    OBVIOUS
  <2>1. n \in k..n /\ Len(j[k]) \in Nat
    BY <1>1, <1>2
  <2>2. Len(j[k]) <= Len(all) /\ \A i \in 1..Len(j[k]) : all[i] = j[k][i]
    BY <2>1, JoinedGrows
  <2> HIDE DEF all, j
  <2> QED BY <1>3, <2>1, <2>2
<1>6. FlattenSeq(seqs) = all
  BY FlattenIsJoined
<1> HIDE DEF n, j, all
<1>7. \A k \in 0..n : SubSeq(all, Len(j[k]) + 1, Len(all)) \in Seq(S)
  <2> SUFFICES ASSUME NEW k \in 0..n PROVE SubSeq(all, Len(j[k]) + 1, Len(all)) \in Seq(S)
    OBVIOUS
  <2>1. Len(j[k]) + 1 \in Int /\ Len(all) \in Int
        /\ \A i \in Len(j[k]) + 1 .. Len(all) : i \in 1..Len(all)
    BY <1>3, <1>5
  <2>2. \A i \in Len(j[k]) + 1 .. Len(all) : all[i] \in S
    BY <1>3, <2>1, ElementOfSeq
  <2> QED BY <2>1, <2>2, SubSeqProperties
<1>8. SubSeq(all, Len(j[0]) + 1, Len(all)) = all
  <2>1. Len(j[0]) = 0
    BY <1>2
  <2> QED BY <1>3, <2>1, SubSeqFull
<1>9. SubSeq(all, Len(j[n]) + 1, Len(all)) = <<>>
  <2>1. Len(j[n]) = Len(all)
    BY DEF all
  <2> QED BY <1>3, <2>1, SubSeqEmpty
<1>10. ASSUME NEW k \in 0..n - 1
       PROVE  SubSeq(all, Len(j[k]) + 1, Len(all)) =
                  seqs[k + 1] \o SubSeq(all, Len(j[k + 1]) + 1, Len(all))
  <2>1. k \in 0..n /\ k + 1 \in 0..n /\ k + 1 \in 1..n /\ (k + 1) - 1 = k
    BY <1>1
  <2>2. PICK a \in Seq(S), b \in Seq(S) : a = j[k] /\ b = seqs[k + 1] /\ j[k + 1] = a \o b
    BY <1>1, <1>2, <2>1
  <2>3. Len(a) \in Nat /\ Len(b) \in Nat /\ Len(a \o b) = Len(a) + Len(b)
        /\ \A i \in 1..Len(b) : (a \o b)[Len(a) + i] = b[i]
    <3>1. Len(a) \in Nat /\ Len(b) \in Nat
      OBVIOUS
    <3>2. \A i \in 1..Len(b) : Len(a) + i \in 1..Len(a) + Len(b) /\ ~(Len(a) + i <= Len(a))
                               /\ (Len(a) + i) - Len(a) = i
      BY <3>1
    <3> QED BY <3>1, <3>2, ConcatProperties
  <2>4. Len(a) + Len(b) <= Len(all) /\ \A i \in 1..Len(b) : all[Len(a) + i] = b[i]
    <3>1. Len(j[k + 1]) \in 0..Len(all) /\ \A i \in 1..Len(j[k + 1]) : all[i] = j[k + 1][i]
      BY <1>5, <2>1
    <3>2. \A i \in 1..Len(b) : Len(a) + i \in 1..Len(a) + Len(b)
      BY <2>3
    <3>3. Len(j[k + 1]) = Len(a) + Len(b)
      BY <2>2, <2>3
    <3>4. \A i \in 1..Len(b) : all[Len(a) + i] = j[k + 1][Len(a) + i]
      BY <3>1, <3>2, <3>3
    <3>5. \A i \in 1..Len(b) : j[k + 1][Len(a) + i] = b[i]
      BY <2>2, <2>3
    <3> QED BY <3>1, <3>3, <3>4, <3>5
  <2>5. SubSeq(all, Len(a) + 1, Len(a) + Len(b)) = b
    <3> DEFINE t == SubSeq(all, Len(a) + 1, Len(a) + Len(b))
    <3>1. \A i \in Len(a) + 1 .. Len(a) + Len(b) : all[i] \in S
      <4>1. \A i \in Len(a) + 1 .. Len(a) + Len(b) : i \in 1..Len(all)
        BY <1>3, <2>3, <2>4
      <4> QED BY <1>3, <4>1, ElementOfSeq
    <3>2. t \in Seq(S) /\ Len(t) = Len(b) /\ \A i \in 1..Len(b) : t[i] = all[Len(a) + i]
      <4>1. /\ t \in Seq(S)
            /\ Len(t) = IF Len(a) + 1 <= Len(a) + Len(b) THEN (Len(a) + Len(b)) - (Len(a) + 1) + 1 ELSE 0
            /\ \A i \in 1..(Len(a) + Len(b)) - (Len(a) + 1) + 1 : t[i] = all[(Len(a) + 1) + i - 1]
        BY <2>3, <3>1, SubSeqProperties
      <4>2. \A i \in 1..Len(b) : i \in 1..(Len(a) + Len(b)) - (Len(a) + 1) + 1
                                 /\ (Len(a) + 1) + i - 1 = Len(a) + i
        BY <2>3
      <4> HIDE DEF t
      <4> QED BY <2>3, <4>1, <4>2
    <3> HIDE DEF t
    <3>3. t = b
      BY <2>4, <3>2, SeqEqual
    <3> QED BY <3>3 DEF t
  <2>6. SubSeq(all, Len(a) + 1, Len(a) + Len(b)) \o SubSeq(all, Len(a) + Len(b) + 1, Len(all))
            = SubSeq(all, Len(a) + 1, Len(all))
    <3>1. Len(a) + 1 \in 1..Len(all) + 1 /\ Len(a) + Len(b) \in (Len(a) + 1) - 1..Len(all)
          /\ Len(all) \in Len(a) + Len(b)..Len(all)
      BY <1>3, <2>3, <2>4
    <3> QED BY <1>3, <3>1, ConcatAdjacentSubSeq
  <2> QED BY <2>2, <2>3, <2>5, <2>6
<1> QED
  <2>1. \A k \in 0..n - 1 : k \in 0..n /\ k + 1 \in 0..n
    BY <1>1
  <2>2. 0 \in 0..n /\ n \in 0..n
    BY <1>1
  <2> QED BY <1>4, <1>6, <1>7, <1>8, <1>9, <1>10, <2>1, <2>2 DEF n

(* The first n elements of a sequence.                                        *)
LEMMA SubSeqStart ==
    ASSUME NEW S, NEW s \in Seq(S), NEW n \in 0..Len(s)
    PROVE  /\ SubSeq(s, 1, n) \in Seq(S) /\ Len(SubSeq(s, 1, n)) = n
           /\ \A i \in 1..n : SubSeq(s, 1, n)[i] = s[i]
<1>1. Len(s) \in Nat
  OBVIOUS
<1>2. \A i \in 1..n : i \in 1..Len(s)
  BY <1>1
<1>3. \A i \in 1..n : s[i] \in S
  BY <1>2, ElementOfSeq
<1> DEFINE t == SubSeq(s, 1, n)
<1>4. /\ t \in Seq(S) /\ Len(t) = IF 1 <= n THEN n - 1 + 1 ELSE 0
      /\ \A i \in 1..n - 1 + 1 : t[i] = s[1 + i - 1]
  BY <1>1, <1>3, SubSeqProperties
<1>5. n - 1 + 1 = n /\ \A i \in 1..n : 1 + i - 1 = i
  BY <1>1
<1> HIDE DEF t
<1>6. t \in Seq(S) /\ Len(t) = n /\ \A i \in 1..n : t[i] = s[i]
  BY <1>1, <1>4, <1>5
<1> QED BY <1>6 DEF t

(* What a server decides to let arrive is ahead of a parser that has read     *)
(* nothing.                                                                   *)
LEMMA Arriving ==
    ASSUME NEW S, NEW s \in Seq(S), NEW n \in 0..Len(s)
    PROVE  Ahead(<<>>, SubSeq(s, 1, n), s)
<1>1. SubSeq(s, 1, n) \in Seq(S)
  BY SubSeqStart
<1>2. <<>> \o SubSeq(s, 1, n) = SubSeq(s, 1, n)
  BY <1>1, ConcatEmptySeq
<1> QED BY <1>2 DEF Ahead

(* Receiving some of the bytes moves them, in their order.                    *)
LEMMA AheadRead ==
    ASSUME NEW S, NEW g \in Seq(S), NEW u \in Seq(S), NEW s \in Seq(S), NEW size \in 1..Len(u)
    PROVE  /\ g \o SubSeq(u, 1, size) \in Seq(S) /\ SubSeq(u, size + 1, Len(u)) \in Seq(S)
           /\ Len(g \o SubSeq(u, 1, size)) = Len(g) + size
           /\ Ahead(g, u, s) => Ahead(g \o SubSeq(u, 1, size), SubSeq(u, size + 1, Len(u)), s)
<1>1. size \in 0..Len(u) /\ Len(u) \in Nat /\ Len(g) \in Nat
  OBVIOUS
<1>2. PICK a \in Seq(S) : a = SubSeq(u, 1, size) /\ Len(a) = size
  BY <1>1, SubSeqStart
<1>3. PICK b \in Seq(S) : b = SubSeq(u, size + 1, Len(u))
  <2>1. \A i \in size + 1..Len(u) : i \in 1..Len(u)
    BY <1>1
  <2>2. \A i \in size + 1..Len(u) : u[i] \in S
    BY <2>1, ElementOfSeq
  <2>3. SubSeq(u, size + 1, Len(u)) \in Seq(S)
    BY <1>1, <2>2, SubSeqProperties, SMTT(30)
  <2> QED BY <2>3
<1>4. a \o b = u
  <2>1. 1 \in 1..Len(u) + 1 /\ size \in 1 - 1..Len(u) /\ Len(u) \in size..Len(u)
    BY <1>1
  <2>2. SubSeq(u, 1, size) \o SubSeq(u, size + 1, Len(u)) = SubSeq(u, 1, Len(u))
    BY <2>1, ConcatAdjacentSubSeq
  <2>3. SubSeq(u, 1, Len(u)) = u
    BY SubSeqFull
  <2> QED BY <1>2, <1>3, <2>2, <2>3
<1>5. (g \o a) \o b = g \o u
  <2>1. (g \o a) \o b = g \o (a \o b)
    OBVIOUS
  <2> QED BY <1>4, <2>1
<1>6. g \o a \in Seq(S) /\ Len(g \o a) = Len(g) + Len(a)
  BY ConcatProperties
<1> QED BY <1>2, <1>3, <1>5, <1>6 DEF Ahead

(* A field that was read whole is the field that was sent, and the rest of    *)
(* the reply is still ahead.                                                  *)
LEMMA AheadSplit ==
    ASSUME NEW S, NEW g \in Seq(S), NEW u \in Seq(S), NEW x \in Seq(S), NEW y \in Seq(S),
           Ahead(g, u, x \o y), Len(g) = Len(x)
    PROVE  g = x /\ Ahead(<<>>, u, y)
<1>1. Len(g) \in Nat /\ Len(u) \in Nat /\ Len(y) \in Nat
  OBVIOUS
<1>2. PICK n \in 0..Len(x \o y) : g \o u = SubSeq(x \o y, 1, n)
  BY DEF Ahead
<1>3. x \o y \in Seq(S) /\ Len(x \o y) = Len(x) + Len(y)
      /\ \A i \in 1..Len(x) + Len(y) : (x \o y)[i] = IF i <= Len(x) THEN x[i] ELSE y[i - Len(x)]
  BY ConcatProperties
<1>4. g \o u \in Seq(S) /\ Len(g \o u) = Len(g) + Len(u)
      /\ \A i \in 1..Len(g) + Len(u) : (g \o u)[i] = IF i <= Len(g) THEN g[i] ELSE u[i - Len(g)]
  BY ConcatProperties
<1>5. Len(g \o u) = n /\ \A i \in 1..n : (g \o u)[i] = (x \o y)[i]
  BY <1>2, <1>3, SubSeqStart
<1>6. n = Len(g) + Len(u) /\ Len(u) \in 0..Len(y)
  BY <1>1, <1>3, <1>4, <1>5
<1>7. \A i \in 1..Len(x) : g[i] = x[i]
  <2>1. \A i \in 1..Len(x) : i \in 1..n /\ i \in 1..Len(g) + Len(u) /\ i \in 1..Len(x) + Len(y)
                             /\ i <= Len(g) /\ i <= Len(x)
    BY <1>1, <1>6
  <2> QED BY <1>3, <1>4, <1>5, <2>1
<1>8. g = x
  BY <1>7, SeqEqual
<1>9. \A i \in 1..Len(u) : u[i] = y[i]
  <2> SUFFICES ASSUME NEW i \in 1..Len(u) PROVE u[i] = y[i]
    OBVIOUS
  <2>1. PICK k \in Nat : k = Len(g) + i
    BY <1>1
  <2>2. k \in 1..n /\ k \in 1..Len(g) + Len(u) /\ k \in 1..Len(x) + Len(y)
        /\ ~(k <= Len(g)) /\ ~(k <= Len(x)) /\ k - Len(g) = i /\ k - Len(x) = i
    BY <1>1, <1>6, <2>1
  <2>3. (g \o u)[k] = u[i] /\ (x \o y)[k] = y[i]
    BY <1>3, <1>4, <2>2
  <2> QED BY <1>5, <2>2, <2>3
<1>10. u = SubSeq(y, 1, Len(u))
  <2>1. SubSeq(y, 1, Len(u)) \in Seq(S) /\ Len(SubSeq(y, 1, Len(u))) = Len(u)
        /\ \A i \in 1..Len(u) : SubSeq(y, 1, Len(u))[i] = y[i]
    BY <1>6, SubSeqStart
  <2> QED BY <1>9, <2>1, SeqEqual
<1>11. <<>> \o u = u
  BY ConcatEmptySeq
<1> QED BY <1>6, <1>8, <1>10, <1>11 DEF Ahead

(* No more is read than was sent; with nothing still to arrive, what was read *)
(* is a beginning of it.                                                      *)
LEMMA AheadWhole ==
    ASSUME NEW S, NEW g \in Seq(S), NEW u \in Seq(S), NEW s \in Seq(S), Ahead(g, u, s)
    PROVE  /\ Len(g) <= Len(s)
           /\ Len(g) = Len(s) => g = s
           /\ u = <<>> => IsPrefix(g, s)
<1>1. PICK n \in 0..Len(s) : g \o u = SubSeq(s, 1, n)
  BY DEF Ahead
<1>2. Len(SubSeq(s, 1, n)) = n /\ Len(g \o u) = Len(g) + Len(u)
  BY SubSeqStart, ConcatProperties
<1>3. Len(g) \in Nat /\ Len(u) \in Nat /\ Len(s) \in Nat /\ Len(g) + Len(u) = n
  BY <1>1, <1>2
<1>4. Len(g) = Len(s) => g = s
  <2> SUFFICES ASSUME Len(g) = Len(s) PROVE g = s
    OBVIOUS
  <2>1. s \o <<>> = s /\ <<>> \in Seq(S)
    BY ConcatEmptySeq
  <2>2. Ahead(g, u, s \o <<>>)
    BY <2>1
  <2> QED BY <2>1, <2>2, AheadSplit
<1>5. u = <<>> => IsPrefix(g, s)
  <2> SUFFICES ASSUME u = <<>> PROVE IsPrefix(g, s)
    OBVIOUS
  <2>1. g \o u = g /\ Len(u) = 0
    BY ConcatEmptySeq
  <2>2. g = SubSeq(s, 1, Len(g))
    BY <1>1, <1>3, <2>1
  <2>3. SubSeq(g, 1, Len(g)) = g
    BY SubSeqFull
  <2> QED BY <1>3, <2>2, <2>3 DEF IsPrefix
<1> QED BY <1>3, <1>4, <1>5

(* The packets of a script as bytes, and what each of them prints.            *)
PacketsOf(script) == [i \in DOMAIN script |-> PacketBytes(script[i])]
TextsOf(script) == [i \in DOMAIN script |-> IF script[i][1] = Stdout THEN script[i][2] ELSE <<>>]

(* The bytes of s are what is being read, and size bytes are read or wanted.  *)
Coming(s) == Ahead(got, unread, s)
Counted(size) == want + Len(got) = size

(* Of the first k packets of a script: the exit code read is that of its      *)
(* first exit packet, if there is one, and what they print is the output so   *)
(* far.                                                                       *)
ExitRead(script, k, exit) ==
    \/ exit = <<>>
    \/ \E i \in 1..k : /\ script[i][1] = Exit /\ script[i][2] = exit /\ Len(exit) = 1
                       /\ \A j \in 1..i - 1 : script[j][1] # Exit
NoExit(script, k, exit) == exit = <<>> => \A j \in 1..k : script[j][1] # Exit
StreamsOf(streams, script, k) ==
    /\ streams.stdout = Joined(TextsOf(script))[k]
    /\ ExitRead(script, k, streams.exit) /\ NoExit(script, k, streams.exit)

(* A field with a length prefix, as the server sent it or not a number at     *)
(* all.                                                                       *)
PrefixOf(kind, texts) ==
    \/ reply.kind = kind /\ reply.value \in texts /\ Coming(Prefixed(reply.value))
    \/ reply.kind = "odd" /\ Coming(NotDigits)

(* What holds while a field of a reply is read, one definition per field:     *)
(* what the server meant, the bytes that are still ahead and how many of them *)
(* the field has.                                                             *)
AtStatus == field = "status" => reply \in Replies /\ Coming(reply.bytes) /\ Counted(Word)
AtLength == field = "length" => /\ phase = "request" /\ service = "query" /\ Counted(Word)
                                /\ PrefixOf("payload", Fitting(Payloads))
AtPayload == field = "payload" => /\ service = "query" /\ reply.kind = "payload"
                                  /\ reply.value \in Payloads /\ Coming(reply.value)
                                  /\ Counted(Len(reply.value))
AtRaw == field = "raw" => /\ service = "exec" /\ reply.kind = "payload"
                          /\ reply.value \in Payloads /\ Coming(reply.value)
AtRefusal == /\ field = "refusal_length" => Counted(Word) /\ PrefixOf("refused", Fitting(Details))
             /\ field = "refusal" => reply.kind = "refused"

(* The call runs a command and has taken k packets of its output; what is     *)
(* left of them; and while the packet after them is read.                     *)
InScript(k) == /\ service \in {"inspect", "attempt"} /\ Ran /\ reply.value \in Scripts
               /\ k \in 0..Len(reply.value) /\ StreamsOf(shell, reply.value, k)
Rest(k) == Unparsed(PacketsOf(reply.value), k)

(* The three fields of a packet.                                              *)
AtPacket == field = "packet" =>
    Counted(1) /\ \E k \in 0..Len(reply.value) : InScript(k) /\ Coming(Rest(k))
InPacket(k) == InScript(k) /\ k + 1 \in 1..Len(reply.value) /\ packet = reply.value[k + 1][1]
AtSize == field = "size" =>
    /\ Counted(Word)
    /\ \E k \in 0..Len(reply.value) :
         /\ InPacket(k)
         /\ Coming(SizeBytes(Len(reply.value[k + 1][2])) \o (reply.value[k + 1][2] \o Rest(k + 1)))
AtData == field = "data" =>
    \E k \in 0..Len(reply.value) : /\ InPacket(k) /\ Counted(Len(reply.value[k + 1][2]))
                                   /\ Coming(reply.value[k + 1][2] \o Rest(k + 1))

(* The types of the variables.                                                *)
ClientTypes ==
    /\ service \in {"query", "exec", "inspect", "attempt"}
    /\ phase \in {"connect", "select", "request"}
    /\ got \in Seq(Nat) /\ unread \in Seq(Nat) /\ want \in Nat
    /\ shell \in [stdout : Seq(Nat), stderr : Seq(Nat), exit : Seq(Nat)]

(* What is not yet begun is as it was: there is no field before there is a    *)
(* socket, and no output before its first packet.                             *)
Positions == /\ phase = "connect" => ~open /\ field = "none"
             /\ service = "query" => phase # "select"
             /\ field \in {"none", "status"} /\ answer = <<>> => shell = NoStreams

(* The inductive invariant: until the call is answered, the parser is where   *)
(* the reply says it is.                                                      *)
ParserInv ==
    answer = <<>> => AtStatus /\ AtLength /\ AtPayload /\ AtRaw /\ AtRefusal /\ AtPacket /\ AtSize /\ AtData
ClientInv == ClientTypes /\ Positions /\ ParserInv /\ ReplyComplete

(* A sequence reversed twice.                                                 *)
LEMMA ReverseTwice ==
    ASSUME NEW S, NEW s \in Seq(S)
    PROVE  Reverse(s) \in Seq(S) /\ Len(Reverse(s)) = Len(s) /\ Reverse(Reverse(s)) = s
<1>1. Len(s) \in Nat /\ \A i \in 1..Len(s) : Len(s) - i + 1 \in 1..Len(s) /\ s[i] \in S
                                              /\ Len(s) - (Len(s) - i + 1) + 1 = i
  OBVIOUS
<1> DEFINE r == Reverse(s)
<1>2. r \in Seq(S) /\ Len(r) = Len(s) /\ \A i \in 1..Len(s) : r[i] = s[Len(s) - i + 1]
  BY <1>1 DEF Reverse
<1> HIDE DEF r
<1>3. Reverse(r) \in Seq(S) /\ Len(Reverse(r)) = Len(s)
      /\ \A i \in 1..Len(s) : Reverse(r)[i] = s[i]
  <2>1. Reverse(r) = [i \in 1..Len(s) |-> r[Len(s) - i + 1]]
    BY <1>2 DEF Reverse
  <2>2. ASSUME NEW i \in 1..Len(s) PROVE r[Len(s) - i + 1] = s[i] /\ s[i] \in S
    <3>1. PICK k \in 1..Len(s) : k = Len(s) - i + 1 /\ Len(s) - k + 1 = i
      BY <1>1
    <3> QED BY <1>1, <1>2, <3>1
  <2>3. Reverse(r) = [i \in 1..Len(s) |-> s[i]]
    BY <2>1, <2>2
  <2> QED BY <1>1, <2>2, <2>3
<1>4. Reverse(r) = s
  BY <1>3, SeqEqual
<1> QED BY <1>2, <1>4 DEF r

(* The size of a packet is read as what it was.                               *)
LEMMA SizeRead ==
    ASSUME NEW n \in Nat, n < Power(ByteBase, Word)
    PROVE  /\ SizeBytes(n) \in Seq(Nat) /\ Len(SizeBytes(n)) = Word
           /\ Value(ByteBase, Reverse(SizeBytes(n))) = n
<1>1. ByteBase \in Nat \ {0} /\ Word \in Nat
  BY ClientAssumption
<1> DEFINE d == Digits(ByteBase, Word, n)
<1>2. d \in Seq(Nat) /\ Len(d) = Word
  BY <1>1, DigitsType
<1>3. Value(ByteBase, d) = n
  BY <1>1, ValueOfDigits
<1>4. SizeBytes(n) = Reverse(d)
  BY DEF SizeBytes
<1> HIDE DEF d
<1> QED BY <1>2, <1>3, <1>4, ReverseTwice

(* A length prefix is read as what it was.                                    *)
LEMMA PrefixRead ==
    ASSUME NEW n \in Nat, n < Power(Radix, Word)
    PROVE  /\ Digits(Radix, Word, n) \in Seq(Nat) /\ Len(Digits(Radix, Word, n)) = Word
           /\ ParseLength(Digits(Radix, Word, n)) = <<n>>
<1>1. Radix \in Nat \ {0} /\ Word \in Nat
  BY ClientAssumption
<1> DEFINE d == Digits(Radix, Word, n)
<1>2. d \in Seq(Nat) /\ Len(d) = Word /\ \A i \in 1..Word : d[i] < Radix
  BY <1>1, DigitsType
<1>3. Value(Radix, d) = n
  BY <1>1, ValueOfDigits
<1> HIDE DEF d
<1>4. ~ \E i \in 1..Word : d[i] >= Radix
  <2>1. \A i \in 1..Word : d[i] \in Nat
    BY <1>2
  <2> QED BY <1>1, <1>2, <2>1
<1> QED BY <1>2, <1>3, <1>4 DEF d, ParseLength

(* A prefix that is not a number is refused.                                  *)
LEMMA NotDigitsRead ==
    NotDigits \in Seq(Nat) /\ Len(NotDigits) = Word /\ ParseLength(NotDigits) = <<>>
<1>1. Radix \in Nat /\ Word \in Nat \ {0}
  BY ClientAssumption
<1>2. 1 \in 1..Word /\ NotDigits[1] >= Radix
  BY <1>1 DEF NotDigits
<1> QED BY <1>1, <1>2 DEF NotDigits, ParseLength

(* Concatenation is associative, here of bytes.                               *)
LEMMA BytesConcat ==
    ASSUME NEW s \in Seq(Nat), NEW t \in Seq(Nat), NEW u \in Seq(Nat)
    PROVE  (s \o t) \o u = s \o (t \o u)
BY ConcatAssociative, SMTT(30)

(* The fields of a packet, one after another.                                 *)
LEMMA PacketSplit ==
    ASSUME NEW id \in Nat, NEW size \in Seq(Nat), NEW data \in Seq(Nat), NEW rest \in Seq(Nat)
    PROVE  ((<<id>> \o size) \o data) \o rest = <<id>> \o (size \o (data \o rest))
<1>1. <<id>> \in Seq(Nat)
  OBVIOUS
<1>2. PICK first \in Seq(Nat) : first = <<id>>
  BY <1>1
<1>3. PICK head \in Seq(Nat) : head = first \o size
  BY ConcatProperties
<1>4. PICK tail \in Seq(Nat) : tail = data \o rest
  BY ConcatProperties
<1>5. (head \o data) \o rest = head \o (data \o rest)
  BY BytesConcat, ZenonT(30)
<1>6. (first \o size) \o tail = first \o (size \o tail)
  BY BytesConcat, ZenonT(30)
<1> QED BY <1>2, <1>3, <1>4, <1>5, <1>6

(* The bytes of a packet and of what follows it are its id, its size, its     *)
(* data and the rest.                                                         *)
LEMMA PacketBytesParts ==
    ASSUME NEW p \in Nat \X Seq(Nat), Len(p[2]) < Power(ByteBase, Word)
    PROVE  /\ PacketBytes(p) \in Seq(Nat) /\ SizeBytes(Len(p[2])) \in Seq(Nat)
           /\ \A rest \in Seq(Nat) :
                PacketBytes(p) \o rest = <<p[1]>> \o (SizeBytes(Len(p[2])) \o (p[2] \o rest))
<1>1. PICK id \in Nat, data \in Seq(Nat) : p[1] = id /\ p[2] = data
  OBVIOUS
<1>2. Len(data) \in Nat
  OBVIOUS
<1>3. PICK size \in Seq(Nat) : size = SizeBytes(Len(data))
  BY <1>1, <1>2, SizeRead
<1>4. <<id>> \in Seq(Nat)
  OBVIOUS
<1>5. PacketBytes(p) = (<<id>> \o size) \o data
  BY <1>1, <1>3 DEF PacketBytes
<1>6. <<id>> \o size \in Seq(Nat) /\ size \o data \in Seq(Nat)
  BY <1>4, ConcatProperties
<1>7. PacketBytes(p) \in Seq(Nat)
  BY <1>5, <1>6, ConcatProperties
<1>8. ASSUME NEW rest \in Seq(Nat)
      PROVE  PacketBytes(p) \o rest = <<id>> \o (size \o (data \o rest))
  <2>1. ((<<id>> \o size) \o data) \o rest = <<id>> \o (size \o (data \o rest))
    BY PacketSplit, ZenonT(30)
  <2> QED BY <1>5, <2>1
<1> QED BY <1>1, <1>3, <1>7, <1>8

(* The types of a script and of its parts.                                    *)
LEMMA ScriptParts ==
    ASSUME NEW script \in Scripts
    PROVE  /\ script \in Seq(Nat \X Seq(Nat)) /\ Len(script) \in Nat
           /\ \A i \in 1..Len(script) : script[i] \in Nat \X Seq(Nat)
                                        /\ Len(script[i][2]) < Power(ByteBase, Word)
           /\ PacketsOf(script) \in Seq(Seq(Nat)) /\ Len(PacketsOf(script)) = Len(script)
           /\ TextsOf(script) \in Seq(Seq(Nat)) /\ Len(TextsOf(script)) = Len(script)
<1>1. script \in Seq(Nat \X Seq(Nat))
  BY RepliesAssumption
<1>2. Len(script) \in Nat /\ DOMAIN script = 1..Len(script)
  BY <1>1, LenProperties
<1>3. ASSUME NEW i \in 1..Len(script)
      PROVE  script[i] \in Nat \X Seq(Nat) /\ Len(script[i][2]) < Power(ByteBase, Word)
  BY <1>1, <1>2, RepliesAssumption, ElementOfSeq
<1>4. ASSUME NEW i \in 1..Len(script) PROVE PacketBytes(script[i]) \in Seq(Nat)
  BY <1>3, PacketBytesParts
<1>5. PacketsOf(script) \in Seq(Seq(Nat)) /\ Len(PacketsOf(script)) = Len(script)
  BY <1>2, <1>4 DEF PacketsOf
<1>6. ASSUME NEW i \in 1..Len(script)
      PROVE  (IF script[i][1] = Stdout THEN script[i][2] ELSE <<>>) \in Seq(Nat)
  BY <1>3
<1>7. TextsOf(script) \in Seq(Seq(Nat)) /\ Len(TextsOf(script)) = Len(script)
  BY <1>2, <1>6 DEF TextsOf
<1> QED BY <1>1, <1>2, <1>3, <1>5, <1>7

(* The packets of a script that are left: all at first, then without the      *)
(* first of them, none at last.                                               *)
LEMMA ScriptRest ==
    ASSUME NEW script \in Scripts
    PROVE  /\ Unparsed(PacketsOf(script), 0) = Stream(script) /\ Stream(script) \in Seq(Nat)
           /\ Unparsed(PacketsOf(script), Len(script)) = <<>>
           /\ \A k \in 0..Len(script) : Unparsed(PacketsOf(script), k) \in Seq(Nat)
           /\ \A k \in 0..Len(script) - 1 :
                Unparsed(PacketsOf(script), k) =
                    <<script[k + 1][1]>> \o
                        (SizeBytes(Len(script[k + 1][2])) \o
                            (script[k + 1][2] \o Unparsed(PacketsOf(script), k + 1)))
<1> DEFINE packets == PacketsOf(script)
<1>1. /\ packets \in Seq(Seq(Nat)) /\ Len(packets) = Len(script) /\ Len(script) \in Nat
      /\ \A i \in 1..Len(script) : script[i] \in Nat \X Seq(Nat)
                                   /\ Len(script[i][2]) < Power(ByteBase, Word)
  BY ScriptParts
<1>2. \A i \in 1..Len(script) : packets[i] = PacketBytes(script[i])
  BY ScriptParts DEF PacketsOf
<1>3. Stream(script) = FlattenSeq(packets)
  BY DEF Stream, PacketsOf
<1> HIDE DEF packets
<1>4. /\ \A k \in 0..Len(packets) : Unparsed(packets, k) \in Seq(Nat)
      /\ Unparsed(packets, 0) = FlattenSeq(packets) /\ Unparsed(packets, Len(packets)) = <<>>
      /\ \A k \in 0..Len(packets) - 1 : Unparsed(packets, k) = packets[k + 1] \o Unparsed(packets, k + 1)
  BY <1>1, UnparsedSteps
<1>5. Unparsed(packets, 0) \in Seq(Nat)
  BY <1>1, <1>4
<1>6. ASSUME NEW k \in 0..Len(script) - 1
      PROVE  Unparsed(packets, k) =
                 <<script[k + 1][1]>> \o (SizeBytes(Len(script[k + 1][2])) \o
                                            (script[k + 1][2] \o Unparsed(packets, k + 1)))
  <2>1. k + 1 \in 1..Len(script) /\ k + 1 \in 0..Len(script)
    BY <1>1
  <2>2. PICK rest \in Seq(Nat) : rest = Unparsed(packets, k + 1)
    BY <1>1, <1>4, <2>1
  <2>3. PICK p \in Nat \X Seq(Nat) : p = script[k + 1] /\ Len(p[2]) < Power(ByteBase, Word)
    BY <1>1, <2>1
  <2>4. PacketBytes(p) \o rest = <<p[1]>> \o (SizeBytes(Len(p[2])) \o (p[2] \o rest))
    BY <2>3, PacketBytesParts
  <2>5. Unparsed(packets, k) = packets[k + 1] \o rest
    BY <1>1, <1>4, <2>2
  <2>6. packets[k + 1] = PacketBytes(p)
    BY <1>2, <2>1, <2>3
  <2> QED BY <2>2, <2>3, <2>4, <2>5, <2>6
<1> QED BY <1>1, <1>3, <1>4, <1>5, <1>6 DEF packets

(* What the script prints is all printed before its exit packet.              *)
LEMMA PrintedByExit ==
    ASSUME NEW script \in Scripts, NEW i \in 1..Len(script), script[i][1] = Exit,
           NEW k \in i..Len(script)
    PROVE  Joined(TextsOf(script))[k] = StdoutOf(script)
<1> DEFINE texts == TextsOf(script)
           j == Joined(texts)
           n == Len(script)
<1>1. texts \in Seq(Seq(Nat)) /\ Len(texts) = n /\ n \in Nat /\ DOMAIN script = 1..n
  BY ScriptParts, LenProperties
<1>2. StdoutOf(script) = FlattenSeq(texts)
  BY DEF StdoutOf, TextsOf
<1>3. \A h \in i + 1..n : texts[h] = <<>>
  <2> SUFFICES ASSUME NEW h \in i + 1..n PROVE texts[h] = <<>>
    OBVIOUS
  <2>1. h \in 1..n /\ i \in 1..n /\ ~(h < i)
    BY <1>1
  <2>2. script[h][1] # Stdout
    BY <1>1, <2>1, RepliesAssumption
  <2> QED BY <1>1, <2>1, <2>2 DEF TextsOf
<1> HIDE DEF texts
<1>4. FlattenSeq(texts) = j[n]
  BY <1>1, FlattenIsJoined
<1>5. (\A h \in 0..n : j[h] \in Seq(Nat)) /\ \A h \in 1..n : j[h] = j[h - 1] \o texts[h]
  BY <1>1, JoinedDef
<1> HIDE DEF j
<1> DEFINE T == {h \in Nat : k + h <= n => j[k + h] = j[k]}
<1>6. 0 \in T
  BY <1>1 DEF n
<1>7. ASSUME NEW h \in Nat, h \in T PROVE h + 1 \in T
  <2>1. CASE k + (h + 1) <= n
    <3>1. PICK m \in Nat : m = k + h
      BY <1>1
    <3>2. m + 1 \in 1..n /\ m \in 0..n /\ m + 1 \in i + 1..n /\ (m + 1) - 1 = m /\ k + (h + 1) = m + 1
          /\ k + h <= n
      BY <1>1, <2>1, <3>1
    <3>3. j[m + 1] = j[m] \o <<>> /\ j[m] \in Seq(Nat)
      BY <1>3, <1>5, <3>2
    <3>4. j[m + 1] = j[m]
      BY <3>3, ConcatEmptySeq
    <3>5. j[m] = j[k]
      BY <1>7, <3>1, <3>2
    <3>6. j[k + (h + 1)] = j[k]
      BY <3>2, <3>4, <3>5
    <3> QED BY <3>6
  <2> QED BY <2>1
<1> HIDE DEF T
<1>8. n - k \in T
  <2>1. n - k \in Nat
    BY <1>1
  <2> QED BY <2>1, <1>6, <1>7, InductionOverNat
<1>9. j[n] = j[k]
  <2>1. k + (n - k) = n
    BY <1>1
  <2> QED BY <1>1, <1>8, <2>1 DEF T
<1> QED BY <1>2, <1>4, <1>9 DEF j, texts

(* The fields of a text with its length before it.                            *)
LEMMA PrefixedParts ==
    ASSUME NEW text \in Seq(Nat), Len(text) < Power(Radix, Word)
    PROVE  /\ Prefixed(text) = Digits(Radix, Word, Len(text)) \o text /\ Prefixed(text) \in Seq(Nat)
           /\ Digits(Radix, Word, Len(text)) \in Seq(Nat) /\ Len(Digits(Radix, Word, Len(text))) = Word
           /\ ParseLength(Digits(Radix, Word, Len(text))) = <<Len(text)>>
<1>1. Len(text) \in Nat
  OBVIOUS
<1>2. PICK d \in Seq(Nat) : d = Digits(Radix, Word, Len(text)) /\ Len(d) = Word
                            /\ ParseLength(d) = <<Len(text)>>
  BY <1>1, PrefixRead
<1>3. d \o text \in Seq(Nat)
  BY ConcatProperties
<1> QED BY <1>2, <1>3 DEF Prefixed

(* What the assumptions say of the texts.                                     *)
LEMMA TextsAreBytes ==
    /\ \A text \in Fitting(Payloads) \cup Fitting(Details) :
         text \in Seq(Nat) /\ Len(text) < Power(Radix, Word)
    /\ \A text \in Payloads : text \in Seq(Nat)
    /\ Okay \in Seq(Nat) /\ Fail \in Seq(Nat) /\ Len(Okay) = Word /\ Len(Fail) = Word /\ Okay # Fail
    /\ NotDigits \notin {Okay, Fail} /\ Word \in Nat \ {0}
BY RepliesAssumption, ClientAssumption DEF Fitting

(* The replies of a server, case by case.                                     *)
ReplyCase(r) ==
    \/ r.kind = "refused" /\ r.value \in Fitting(Details) /\ r.bytes = Fail \o Prefixed(r.value)
    \/ r.kind = "odd" /\ r.bytes = NotDigits
    \/ r.kind = "odd" /\ r.bytes = Fail \o NotDigits
    \/ phase = "select" /\ r.bytes = Okay
    \/ /\ phase = "request" /\ service = "query"
       /\ \/ r.kind = "payload" /\ r.value \in Fitting(Payloads)
             /\ r.bytes = Okay \o Prefixed(r.value)
          \/ r.kind = "odd" /\ r.bytes = Okay \o NotDigits
    \/ /\ phase = "request" /\ service = "exec"
       /\ r.kind = "payload" /\ r.value \in Payloads /\ r.bytes = Okay \o r.value
    \/ /\ phase = "request" /\ service \in {"inspect", "attempt"}
       /\ r.kind = "script" /\ r.value \in Scripts /\ r.bytes = Okay \o Stream(r.value)

LEMMA ReplyFields ==
    ASSUME NEW kind, NEW value, NEW bytes, NEW r, r = Reply(kind, value, bytes)
    PROVE  r.kind = kind /\ r.value = value /\ r.bytes = bytes
BY DEF Reply

(* There are no others.                                                       *)
LEMMA RepliesCases ==
    ASSUME NEW r \in Replies, ClientTypes, phase # "connect", service = "query" => phase # "select"
    PROVE  ReplyCase(r) /\ r.bytes \in Seq(Nat)
<1>1. ReplyCase(r)
  <2>1. CASE r \in Refusals
    <3>1. \/ r \in {Reply("refused", text, Fail \o Prefixed(text)) : text \in Fitting(Details)}
          \/ r \in {Reply("odd", <<>>, NotDigits), Reply("odd", <<>>, Fail \o NotDigits)}
      BY <2>1 DEF Refusals
    <3>2. CASE r \in {Reply("refused", text, Fail \o Prefixed(text)) : text \in Fitting(Details)}
      <4>1. PICK text \in Fitting(Details) : r = Reply("refused", text, Fail \o Prefixed(text))
        BY <3>2
      <4>2. PICK bytes : bytes = Fail \o Prefixed(text)
        OBVIOUS
      <4>3. r = Reply("refused", text, bytes)
        BY <4>1, <4>2
      <4>4. r.kind = "refused" /\ r.value = text /\ r.bytes = bytes
        BY <4>3, ReplyFields
      <4> QED BY <4>2, <4>4 DEF ReplyCase
    <3>3. CASE r \in {Reply("odd", <<>>, NotDigits), Reply("odd", <<>>, Fail \o NotDigits)}
      <4>1. PICK bytes \in {NotDigits, Fail \o NotDigits} : r = Reply("odd", <<>>, bytes)
        BY <3>3
      <4>2. r.kind = "odd" /\ r.bytes = bytes
        BY <4>1, ReplyFields
      <4> QED BY <4>1, <4>2 DEF ReplyCase
    <3> QED BY <3>1, <3>2, <3>3
  <2>2. CASE r \notin Refusals
    <3>1. CASE phase = "select"
      BY <2>2, <3>1 DEF Replies, Reply, ReplyCase
    <3>2. CASE phase = "request"
      <4>1. CASE service = "query"
        BY <2>2, <3>2, <4>1, SMTT(30) DEF Replies, Reply, ReplyCase
      <4>2. CASE service = "exec"
        BY <2>2, <3>2, <4>2 DEF Replies, Reply, ReplyCase
      <4>3. CASE service \in {"inspect", "attempt"}
        <5>1. r \in {Reply("script", s, Okay \o Stream(s)) : s \in Scripts}
          BY <2>2, <3>2, <4>3 DEF Replies
        <5>2. PICK script \in Scripts : r = Reply("script", script, Okay \o Stream(script))
          BY <5>1
        <5>3. PICK bytes : bytes = Okay \o Stream(script)
          OBVIOUS
        <5>4. r = Reply("script", script, bytes)
          BY <5>2, <5>3
        <5>5. r.kind = "script" /\ r.value = script /\ r.bytes = bytes
          BY <5>4, ReplyFields
        <5> QED BY <3>2, <4>3, <5>2, <5>3, <5>5 DEF ReplyCase
      <4> QED BY <4>1, <4>2, <4>3 DEF ClientTypes
    <3> QED BY <3>1, <3>2 DEF ClientTypes
  <2> QED BY <2>1, <2>2
<1>2. \A text \in Fitting(Payloads) \cup Fitting(Details) : Prefixed(text) \in Seq(Nat)
  BY TextsAreBytes, PrefixedParts
<1>3. \A a, b \in Seq(Nat) : a \o b \in Seq(Nat)
  BY ConcatProperties
<1>4. r.bytes \in Seq(Nat)
  BY <1>1, <1>2, <1>3, TextsAreBytes, NotDigitsRead, ScriptRest DEF ReplyCase
<1> QED BY <1>1, <1>4

(* The bytes of s are what arrives next, or break off within it.              *)
Follows(s) == Ahead(<<>>, unread, s)
PrefixFollows(kind, texts) ==
    \/ reply.kind = kind /\ reply.value \in texts /\ Follows(Prefixed(reply.value))
    \/ reply.kind = "odd" /\ Follows(NotDigits)

(* What follows a status that was read: a known one was sent as such, so that *)
(* the rest of the reply is what belongs to it.                               *)
LEMMA StatusRead ==
    ASSUME ClientTypes, phase # "connect", service = "query" => phase # "select",
           reply \in Replies, Coming(reply.bytes), Len(got) = Word
    PROVE  /\ got = Fail => PrefixFollows("refused", Fitting(Details))
           /\ got = Okay =>
                \/ phase = "select"
                \/ service = "query" /\ PrefixFollows("payload", Fitting(Payloads))
                \/ service = "exec" /\ reply.kind = "payload" /\ reply.value \in Payloads
                   /\ Follows(reply.value)
                \/ service \in {"inspect", "attempt"} /\ Ran /\ reply.value \in Scripts
                   /\ Follows(Stream(reply.value))
<1>1. got \in Seq(Nat) /\ unread \in Seq(Nat)
  BY DEF ClientTypes
<1>2. ASSUME NEW status \in {Okay, Fail}, NEW s \in Seq(Nat), reply.bytes = status \o s
      PROVE  got = status /\ Follows(s)
  <2>1. status \in Seq(Nat) /\ Len(status) = Word
    BY TextsAreBytes
  <2>2. Ahead(got, unread, status \o s)
    BY <1>2 DEF Coming
  <2> QED BY <1>1, <2>1, <2>2, AheadSplit DEF Follows
<1>3. ReplyCase(reply)
  BY RepliesCases
<1>4. \A text \in Fitting(Payloads) \cup Fitting(Details) : Prefixed(text) \in Seq(Nat)
  BY TextsAreBytes, PrefixedParts
<1>5. CASE reply.kind = "refused" /\ reply.value \in Fitting(Details)
           /\ reply.bytes = Fail \o Prefixed(reply.value)
  <2>1. got = Fail /\ Follows(Prefixed(reply.value))
    BY <1>2, <1>4, <1>5
  <2> QED BY <1>5, <2>1, TextsAreBytes DEF PrefixFollows
<1>6. CASE reply.kind = "odd" /\ reply.bytes = NotDigits
  <2>1. got = NotDigits
    BY <1>1, <1>6, NotDigitsRead, AheadWhole DEF Coming
  <2> QED BY <2>1, TextsAreBytes
<1>7. CASE reply.kind = "odd" /\ reply.bytes = Fail \o NotDigits
  <2>1. got = Fail /\ Follows(NotDigits)
    BY <1>2, <1>7, NotDigitsRead
  <2> QED BY <1>7, <2>1, TextsAreBytes DEF PrefixFollows
<1>8. CASE phase = "select" /\ reply.bytes = Okay
  <2>1. got = Okay
    BY <1>1, <1>8, TextsAreBytes, AheadWhole DEF Coming
  <2> QED BY <1>8, <2>1, TextsAreBytes
<1>9. CASE /\ phase = "request" /\ service = "query"
           /\ \/ reply.kind = "payload" /\ reply.value \in Fitting(Payloads)
                 /\ reply.bytes = Okay \o Prefixed(reply.value)
              \/ reply.kind = "odd" /\ reply.bytes = Okay \o NotDigits
  <2>1. CASE reply.kind = "payload" /\ reply.value \in Fitting(Payloads)
             /\ reply.bytes = Okay \o Prefixed(reply.value)
    <3>1. got = Okay /\ Follows(Prefixed(reply.value))
      BY <1>2, <1>4, <2>1
    <3> QED BY <1>9, <2>1, <3>1, TextsAreBytes DEF PrefixFollows
  <2>2. CASE reply.kind = "odd" /\ reply.bytes = Okay \o NotDigits
    <3>1. got = Okay /\ Follows(NotDigits)
      BY <1>2, <2>2, NotDigitsRead
    <3> QED BY <1>9, <2>2, <3>1, TextsAreBytes DEF PrefixFollows
  <2> QED BY <1>9, <2>1, <2>2
<1>10. CASE /\ phase = "request" /\ service = "exec" /\ reply.kind = "payload"
            /\ reply.value \in Payloads /\ reply.bytes = Okay \o reply.value
  <2>1. got = Okay /\ Follows(reply.value)
    BY <1>2, <1>10, TextsAreBytes
  <2> QED BY <1>10, <2>1, TextsAreBytes
<1>11. CASE /\ phase = "request" /\ service \in {"inspect", "attempt"} /\ reply.kind = "script"
            /\ reply.value \in Scripts /\ reply.bytes = Okay \o Stream(reply.value)
  <2>1. got = Okay /\ Follows(Stream(reply.value))
    BY <1>2, <1>11, ScriptRest
  <2> QED BY <1>11, <2>1, TextsAreBytes DEF Ran
<1> QED BY <1>3, <1>5, <1>6, <1>7, <1>8, <1>9, <1>10, <1>11 DEF ReplyCase

(* An error claims nothing but a refusal, which must have been sent.          *)
LEMMA RaiseComplete ==
    ASSUME NEW error, answer' = <<RaiseTo(error)>>,
           error \in {"AdbServiceError", "AdbTransportAmbiguousError", "AdbTransportNotFoundError"}
               => reply'.kind = "refused"
    PROVE  ReplyComplete'
<1> DEFINE a == RaiseTo(error)
<1>1. /\ a.status \notin {"returned", "succeeded"} /\ a.scope = "none"
      /\ a.error = error \/ a.error = "none"
  BY DEF RaiseTo, Raised, Attempted
<1>2. \A i \in DOMAIN answer' : answer'[i] = a
  OBVIOUS
<1> HIDE DEF a
<1> QED BY <1>1, <1>2 DEF ReplyComplete

(* The steps of a call, one by one.                                           *)
LEMMA ConnectStep == ASSUME ClientInv, Connect PROVE ClientInv'
<1> USE DEF ClientInv
<1>1. ClientTypes'
  BY DEF Connect, Raise, Answer, ClientTypes
<1>2. Positions'
  BY DEF Connect, Raise, Answer, ClientTypes, Positions
<1>3. field' = "none"
  BY DEF Connect, Raise, Answer, Positions
<1>4. ParserInv'
  BY <1>3 DEF ParserInv, AtStatus, AtLength, AtPayload, AtRaw, AtRefusal, AtPacket, AtSize, AtData
<1>5. ReplyComplete'
  <2>1. CASE answer' = answer
    <3>1. answer' = <<>>
      BY <2>1 DEF Connect
    <3> QED BY <3>1 DEF ReplyComplete
  <2>2. CASE \E error \in {"AdbTimeoutError", "AdbServerConnectionError"} : Raise(error)
    BY <2>2, RaiseComplete DEF Raise, Answer
  <2> QED BY <2>1, <2>2 DEF Connect
<1> QED BY <1>1, <1>2, <1>4, <1>5

(* A request is sent when nothing was received yet, so all of the reply is    *)
(* ahead.                                                                     *)
LEMMA SendStep == ASSUME ClientInv, Send PROVE ClientInv'
<1> USE DEF ClientInv
<1>1. CASE \E error \in {"AdbTimeoutError", "AdbServerConnectionError"} :
             Raise(error) /\ UNCHANGED <<got, want, unread, ending, reply>>
  <2>1. ClientTypes' /\ Positions'
    BY <1>1 DEF Send, Raise, Answer, ClientTypes, Positions
  <2>2. ReplyComplete'
    BY <1>1, RaiseComplete DEF Raise, Answer
  <2>3. ParserInv'
    BY <1>1 DEF Raise, Answer, ParserInv
  <2> QED BY <2>1, <2>2, <2>3
<1>2. CASE \E r \in Replies : \E arriving \in 0..Len(r.bytes) :
             /\ unread' = SubSeq(r.bytes, 1, arriving) /\ reply' = r
             /\ ending' \in {"eof", "silence", "reset"}
             /\ Expect("status", Word) /\ UNCHANGED <<open, answer>>
  <2>1. PICK r \in Replies : /\ \E n \in 0..Len(r.bytes) : unread' = SubSeq(r.bytes, 1, n)
                            /\ reply' = r
    BY <1>2
  <2>2. field' = "status" /\ got' = <<>> /\ want' = Word /\ UNCHANGED <<open, answer, service, phase, packet, shell>>
    BY <1>2 DEF Send, Expect
  <2>3. phase # "connect" /\ answer = <<>>
    BY DEF Send, Running, Positions
  <2>4. r.bytes \in Seq(Nat)
    BY <2>1, <2>3, RepliesCases DEF Positions
  <2>5. unread' \in Seq(Nat) /\ Ahead(<<>>, unread', r.bytes)
    BY <2>1, <2>4, SubSeqStart, Arriving
  <2>6. ClientTypes'
    BY <2>2, <2>5, TextsAreBytes DEF ClientTypes
  <2>7. Positions'
    BY <2>2, <2>3 DEF Positions, Send
  <2>8. Replies' = Replies
    BY <2>2 DEF Replies, Refusals
  <2>9. AtStatus'
    <3>1. want' + Len(got') = Word
      BY <2>2, TextsAreBytes
    <3> QED BY <2>1, <2>2, <2>5, <2>8, <3>1 DEF AtStatus, Coming, Counted
  <2>10. ParserInv'
    BY <2>2, <2>9 DEF ParserInv, AtLength, AtPayload, AtRaw, AtRefusal, AtPacket, AtSize, AtData
  <2>11. ReplyComplete'
    BY <2>2, <2>3 DEF ReplyComplete
  <2> QED BY <2>6, <2>7, <2>10, <2>11
<1> QED BY <1>1, <1>2 DEF Send

(* recv: what was ahead still is, and the count of a field holds.             *)
LEMMA Received ==
    ASSUME ClientTypes, Receive
    PROVE  /\ got' \in Seq(Nat) /\ unread' \in Seq(Nat) /\ want' \in Nat
           /\ \A s \in Seq(Nat) : Coming(s) => Ahead(got', unread', s)
           /\ field # "raw" => \A n : Counted(n) => want' + Len(got') = n
           /\ UNCHANGED <<service, phase, field, packet, shell, open, answer, ending, reply>>
           /\ answer = <<>> /\ open /\ want > 0
<1>1. got \in Seq(Nat) /\ unread \in Seq(Nat) /\ want \in Nat /\ Len(got) \in Nat /\ Len(unread) \in Nat
  BY DEF ClientTypes
<1>2. PICK size \in 1..(IF want <= Len(unread) THEN want ELSE Len(unread)) :
         /\ got' = got \o SubSeq(unread, 1, size)
         /\ unread' = SubSeq(unread, size + 1, Len(unread))
         /\ want' = IF field = "raw" THEN want ELSE want - size
  BY DEF Receive
<1>3. size \in 1..Len(unread) /\ size <= want
  BY <1>1
<1>4. ASSUME NEW s \in Seq(Nat)
      PROVE  /\ got' \in Seq(Nat) /\ unread' \in Seq(Nat) /\ Len(got') = Len(got) + size
             /\ Coming(s) => Ahead(got', unread', s)
  <2>1. /\ got \o SubSeq(unread, 1, size) \in Seq(Nat)
        /\ SubSeq(unread, size + 1, Len(unread)) \in Seq(Nat)
        /\ Len(got \o SubSeq(unread, 1, size)) = Len(got) + size
        /\ Ahead(got, unread, s) => Ahead(got \o SubSeq(unread, 1, size), SubSeq(unread, size + 1, Len(unread)), s)
    BY <1>1, <1>3, AheadRead
  <2> QED BY <1>2, <2>1 DEF Coming
<1>5. got' \in Seq(Nat) /\ unread' \in Seq(Nat) /\ Len(got') = Len(got) + size
  BY <1>1, <1>4
<1>6. want' \in Nat /\ (field # "raw" => \A n : Counted(n) => want' + Len(got') = n)
  BY <1>1, <1>2, <1>3, <1>5 DEF Counted
<1> QED BY <1>4, <1>5, <1>6 DEF Receive, Running

(* The fields of the packet that is read next.                                *)
LEMMA RestIsBytes ==
    ASSUME NEW script \in Scripts
    PROVE  /\ \A k \in 0..Len(script) : Unparsed(PacketsOf(script), k) \in Seq(Nat)
           /\ \A k \in 0..Len(script) : k + 1 \in 1..Len(script) =>
                LET p == script[k + 1]
                    rest == Unparsed(PacketsOf(script), k + 1)
                IN  /\ p[1] \in Nat /\ p[2] \in Seq(Nat) /\ Len(p[2]) < Power(ByteBase, Word)
                    /\ SizeBytes(Len(p[2])) \in Seq(Nat) /\ Len(SizeBytes(Len(p[2]))) = Word
                    /\ Value(ByteBase, Reverse(SizeBytes(Len(p[2])))) = Len(p[2])
                    /\ p[2] \o rest \in Seq(Nat) /\ SizeBytes(Len(p[2])) \o (p[2] \o rest) \in Seq(Nat)
                    /\ rest \in Seq(Nat)
<1>1. \A k \in 0..Len(script) : Unparsed(PacketsOf(script), k) \in Seq(Nat)
  BY ScriptRest
<1>2. ASSUME NEW k \in 0..Len(script), k + 1 \in 1..Len(script), NEW p, p = script[k + 1],
             NEW rest, rest = Unparsed(PacketsOf(script), k + 1)
      PROVE  /\ p[1] \in Nat /\ p[2] \in Seq(Nat) /\ Len(p[2]) < Power(ByteBase, Word)
             /\ SizeBytes(Len(p[2])) \in Seq(Nat) /\ Len(SizeBytes(Len(p[2]))) = Word
             /\ Value(ByteBase, Reverse(SizeBytes(Len(p[2])))) = Len(p[2])
             /\ p[2] \o rest \in Seq(Nat) /\ SizeBytes(Len(p[2])) \o (p[2] \o rest) \in Seq(Nat)
             /\ rest \in Seq(Nat)
  <2>1. k + 1 \in 0..Len(script)
    BY <1>2, ScriptParts
  <2>2. rest \in Seq(Nat)
    BY <1>1, <1>2, <2>1
  <2>3. p \in Nat \X Seq(Nat) /\ Len(p[2]) < Power(ByteBase, Word)
    BY <1>2, ScriptParts
  <2>4. PICK data \in Seq(Nat) : data = p[2]
    BY <2>3
  <2>5. Len(data) \in Nat
    OBVIOUS
  <2>6. PICK size \in Seq(Nat) : size = SizeBytes(Len(data)) /\ Len(size) = Word
                                 /\ Value(ByteBase, Reverse(size)) = Len(data)
    BY <2>3, <2>4, <2>5, SizeRead
  <2>7. data \o rest \in Seq(Nat)
    BY <2>2, ConcatProperties
  <2>8. size \o (data \o rest) \in Seq(Nat)
    BY <2>7, ConcatProperties
  <2> QED BY <2>2, <2>3, <2>4, <2>6, <2>7, <2>8
<1> QED BY <1>1, <1>2

(* A chunk moves from what will arrive to what was received, and their        *)
(* concatenation stays the same.                                              *)
LEMMA ReceiveStep == ASSUME ClientInv, Receive PROVE ClientInv'
<1> USE DEF ClientInv
<1>1. /\ got' \in Seq(Nat) /\ unread' \in Seq(Nat) /\ want' \in Nat
      /\ \A s \in Seq(Nat) : Coming(s) => Ahead(got', unread', s)
      /\ field # "raw" => \A n : Counted(n) => want' + Len(got') = n
      /\ UNCHANGED <<service, phase, field, packet, shell, open, answer, ending, reply>>
      /\ answer = <<>> /\ open /\ want > 0
  BY Received
<1>2. ClientTypes'
  BY <1>1 DEF ClientTypes
<1>3. Positions'
  BY <1>1 DEF Positions
<1>4. ReplyComplete'
  BY <1>1 DEF ReplyComplete
<1>5. AtStatus'
  <2>1. CASE field = "status"
    <3>1. reply \in Replies /\ Coming(reply.bytes) /\ Counted(Word)
      BY <1>1, <2>1 DEF ParserInv, AtStatus
    <3>2. Replies' = Replies
      BY <1>1 DEF Replies, Refusals
    <3>3. reply.bytes \in Seq(Nat)
      BY <1>1, <3>1, RepliesCases DEF Positions
    <3> QED BY <1>1, <2>1, <3>1, <3>2, <3>3 DEF AtStatus, Coming, Counted
  <2> QED BY <1>1, <2>1 DEF AtStatus
<1>6. ASSUME NEW kind, NEW texts, texts \in {Fitting(Payloads), Fitting(Details)}, PrefixOf(kind, texts)
      PROVE  PrefixOf(kind, texts)'
  <2>1. \A text \in texts : Prefixed(text) \in Seq(Nat)
    BY <1>6, TextsAreBytes, PrefixedParts
  <2> QED BY <1>1, <1>6, <2>1, NotDigitsRead DEF PrefixOf, Coming
<1>7. AtLength' /\ AtRefusal'
  BY <1>1, <1>6 DEF ParserInv, AtLength, AtRefusal, Counted
<1>8. AtPayload' /\ AtRaw'
  BY <1>1, TextsAreBytes DEF ParserInv, AtPayload, AtRaw, Coming, Counted
<1>9. ASSUME NEW k, InScript(k) PROVE InScript(k)'
  BY <1>1, <1>9 DEF InScript, Ran
<1>10. ASSUME NEW k PROVE Rest(k)' = Rest(k)
  BY <1>1 DEF Rest
<1>11. AtPacket'
  <2>1. CASE field = "packet"
    <3>1. PICK k \in 0..Len(reply.value) : Counted(1) /\ InScript(k) /\ Coming(Rest(k))
      BY <1>1, <2>1 DEF ParserInv, AtPacket
    <3>2. Rest(k) \in Seq(Nat)
      BY <3>1, RestIsBytes DEF Rest, InScript
    <3>3. Coming(Rest(k))'
      BY <1>1, <1>10, <3>1, <3>2 DEF Coming
    <3>4. Counted(1)'
      BY <1>1, <2>1, <3>1 DEF Counted
    <3> QED BY <1>1, <1>9, <3>1, <3>3, <3>4 DEF AtPacket
  <2> QED BY <1>1, <2>1 DEF AtPacket
<1>12. ASSUME NEW k, InPacket(k) PROVE InPacket(k)'
  BY <1>1, <1>9, <1>12 DEF InPacket
<1>13. AtSize'
  <2>1. CASE field = "size"
    <3> DEFINE s(k) == SizeBytes(Len(reply.value[k + 1][2])) \o (reply.value[k + 1][2] \o Rest(k + 1))
    <3>1. PICK k \in 0..Len(reply.value) : Counted(Word) /\ InPacket(k) /\ Coming(s(k))
      BY <1>1, <2>1 DEF ParserInv, AtSize
    <3>2. s(k) \in Seq(Nat)
      BY <3>1, RestIsBytes DEF Rest, InPacket, InScript
    <3>3. s(k)' = s(k)
      BY <1>1, <1>10
    <3> HIDE DEF s
    <3>4. Coming(s(k))'
      BY <1>1, <3>1, <3>2, <3>3 DEF Coming
    <3>5. Counted(Word)'
      BY <1>1, <2>1, <3>1 DEF Counted
    <3> QED BY <1>1, <1>12, <3>1, <3>4, <3>5 DEF AtSize, s
  <2> QED BY <1>1, <2>1 DEF AtSize
<1>14. AtData'
  <2>1. CASE field = "data"
    <3> DEFINE s(k) == reply.value[k + 1][2] \o Rest(k + 1)
    <3>1. PICK k \in 0..Len(reply.value) :
             InPacket(k) /\ Counted(Len(reply.value[k + 1][2])) /\ Coming(s(k))
      BY <1>1, <2>1 DEF ParserInv, AtData
    <3>2. s(k) \in Seq(Nat)
      BY <3>1, RestIsBytes DEF Rest, InPacket, InScript
    <3>3. s(k)' = s(k)
      BY <1>1, <1>10
    <3> HIDE DEF s
    <3>4. Coming(s(k))'
      BY <1>1, <3>1, <3>2, <3>3 DEF Coming
    <3>5. Counted(Len(reply.value[k + 1][2]))'
      BY <1>1, <2>1, <3>1 DEF Counted
    <3> QED BY <1>1, <1>12, <3>1, <3>4, <3>5 DEF AtData, s
  <2> QED BY <1>1, <2>1 DEF AtData
<1> QED BY <1>2, <1>3, <1>4, <1>5, <1>7, <1>8, <1>11, <1>13, <1>14 DEF ParserInv

(* With the call answered nothing is said of the parser any more.             *)
LEMMA AnsweredStep ==
    ASSUME ClientInv, answer' # <<>>, ReplyComplete', phase # "connect",
           UNCHANGED <<service, unread, shell>>, got' = got, want' = want, phase' = phase
    PROVE  ClientInv'
<1>1. ClientTypes' /\ Positions'
  BY DEF ClientInv, ClientTypes, Positions
<1> QED BY <1>1 DEF ClientInv, ParserInv

(* Once an exit code was read it is that of the script, and all its output    *)
(* has been read.                                                             *)
LEMMA ExitCodeRead ==
    ASSUME NEW script \in Scripts, NEW k \in 0..Len(script), NEW exit \in Seq(Nat), exit # <<>>,
           ExitRead(script, k, exit)
    PROVE  /\ ExitCodes(script) = {exit} /\ (exit[1] = 0 <=> exit = <<0>>)
           /\ Joined(TextsOf(script))[k] = StdoutOf(script)
<1>1. PICK i \in 1..k : /\ script[i][1] = Exit /\ script[i][2] = exit /\ Len(exit) = 1
                        /\ \A j \in 1..i - 1 : script[j][1] # Exit
  BY DEF ExitRead
<1>2. DOMAIN script = 1..Len(script) /\ Len(script) \in Nat
  BY ScriptParts, LenProperties
<1>3. ASSUME NEW h \in DOMAIN script, script[h][1] = Exit, \A j \in 1..h - 1 : script[j][1] # Exit
      PROVE  h = i
  <2>1. h \in Nat /\ i \in Nat /\ (h < i => h \in 1..i - 1) /\ (i < h => i \in 1..h - 1)
    BY <1>2
  <2> QED BY <1>1, <1>3, <2>1
<1>4. i \in DOMAIN script
  BY <1>2
<1>5. ExitCodes(script) = {exit}
  BY <1>1, <1>3, <1>4 DEF ExitCodes
<1>6. exit[1] = 0 <=> exit = <<0>>
  <2>1. exit = <<exit[1]>>
    BY <1>1
  <2> QED BY <2>1
<1>7. Joined(TextsOf(script))[k] = StdoutOf(script)
  <2>1. i \in 1..Len(script) /\ k \in i..Len(script)
    BY <1>2
  <2> QED BY <1>1, <2>1, PrintedByExit
<1> QED BY <1>5, <1>6, <1>7

(* What a command is said to have done when its stream ends between two       *)
(* packets.                                                                   *)
LEMMA EndOfShellComplete ==
    ASSUME ClientTypes, NEW k, InScript(k), answer' = <<EndOfShell(shell)>>,
           UNCHANGED <<service, reply>>
    PROVE  ReplyComplete'
<1>1. reply.value \in Scripts /\ k \in 0..Len(reply.value) /\ service \in {"inspect", "attempt"}
  BY DEF InScript
<1>2. CASE shell.exit = <<>>
  <2>1. answer' = <<RaiseTo("AdbProtocolError")>>
    BY <1>2 DEF EndOfShell
  <2> QED BY <2>1, RaiseComplete
<1>3. CASE shell.exit # <<>>
  <2> DEFINE a == ShellAnswer(shell)
  <2>1. answer' = <<a>>
    BY <1>3 DEF EndOfShell
  <2>2. shell.exit \in Seq(Nat)
    BY DEF ClientTypes
  <2>3. /\ ExitCodes(reply.value) = {shell.exit} /\ (shell.exit[1] = 0 <=> shell.exit = <<0>>)
        /\ shell.stdout = StdoutOf(reply.value)
    BY <1>1, <1>3, <2>2, ExitCodeRead DEF InScript, StreamsOf
  <2>4. \/ a = Attempted(IF shell.exit[1] = 0 THEN "succeeded" ELSE "failed", "process_exit")
        \/ a = Raised("AdbRemoteCommandError") \/ a = Raised("AdbProtocolError")
        \/ shell.exit[1] = 0 /\ a = Returned(shell.stdout)
    BY DEF ShellAnswer
  <2> HIDE DEF a
  <2>5. /\ a.status = "returned" => a.value = StdoutOf(reply.value) /\ ExitCodes(reply.value) = {<<0>>}
        /\ a.scope = "process_exit" =>
             \E code \in ExitCodes(reply.value) : a.status = "succeeded" <=> code = <<0>>
        /\ a.status = "succeeded" => a.scope = "process_exit"
        /\ a.error \notin {"AdbServiceError", "AdbTransportAmbiguousError", "AdbTransportNotFoundError"}
    BY <2>3, <2>4 DEF Attempted, Raised, Returned
  <2>6. \A i \in DOMAIN answer' : answer'[i] = a
    BY <2>1
  <2> QED BY <1>1, <2>5, <2>6 DEF ReplyComplete, InScript, Ran
<1> QED BY <1>2, <1>3

(* The end of the stream cuts what will still arrive, so a beginning of the   *)
(* reply remains.                                                             *)
LEMMA ReceiveEndStep == ASSUME ClientInv, ReceiveEnd PROVE ClientInv'
<1>1. /\ open /\ answer = <<>> /\ unread = <<>> /\ answer' # <<>>
      /\ UNCHANGED <<service, phase, got, want, packet, shell, unread, ending, reply>>
  BY DEF ReceiveEnd, Running, Answer
<1>2. phase # "connect"
  BY <1>1 DEF ClientInv, Positions
<1>3. CASE \E error \in {"AdbTimeoutError", "AdbServerConnectionError"} : answer' = <<RaiseTo(error)>>
  <2>1. ReplyComplete'
    BY <1>3, RaiseComplete
  <2> QED BY <1>1, <1>2, <2>1, AnsweredStep
<1>4. CASE field = "raw" /\ answer' = <<Returned(got)>>
  <2>1. service = "exec" /\ reply.kind = "payload" /\ reply.value \in Payloads /\ Coming(reply.value)
    BY <1>1, <1>4 DEF ClientInv, ParserInv, AtRaw
  <2>2. IsPrefix(got, reply.value)
    BY <1>1, <2>1, TextsAreBytes, AheadWhole DEF Coming, ClientInv, ClientTypes
  <2>3. ReplyComplete'
    BY <1>1, <1>4, <2>1, <2>2 DEF ReplyComplete, Returned
  <2> QED BY <1>1, <1>2, <2>3, AnsweredStep
<1>5. CASE field = "packet" /\ answer' = <<EndOfShell(shell)>>
  <2>1. PICK k : InScript(k)
    BY <1>1, <1>5 DEF ClientInv, ParserInv, AtPacket
  <2>2. ReplyComplete'
    BY <1>1, <1>5, <2>1, EndOfShellComplete DEF ClientInv
  <2> QED BY <1>1, <1>2, <2>2, AnsweredStep
<1> QED BY <1>3, <1>4, <1>5 DEF ReceiveEnd, Answer

(* A length-prefixed payload is returned only when all its bytes are there,   *)
(* and they are those the server sent.                                        *)
LEMMA PayloadStep == ASSUME ClientInv, Payload PROVE ClientInv'
<1>1. /\ answer' = <<Returned(got)>> /\ answer = <<>> /\ want = 0 /\ field = "payload" /\ open
      /\ UNCHANGED <<service, unread, reply, phase, got, want, packet, shell>>
  BY DEF Payload, Whole, Running, Answer, wire
<1>2. service = "query" /\ reply.kind = "payload" /\ reply.value \in Payloads /\ Coming(reply.value)
      /\ want + Len(got) = Len(reply.value)
  BY <1>1 DEF ClientInv, ParserInv, AtPayload, Counted
<1>3. got = reply.value
  <2>1. got \in Seq(Nat) /\ unread \in Seq(Nat) /\ reply.value \in Seq(Nat)
    BY <1>2, TextsAreBytes DEF ClientInv, ClientTypes
  <2>2. Len(got) \in Nat
    BY <2>1
  <2> QED BY <1>1, <1>2, <2>1, <2>2, AheadWhole DEF Coming
<1>4. ReplyComplete'
  BY <1>1, <1>2, <1>3 DEF ReplyComplete, Returned
<1>5. phase # "connect"
  BY <1>1 DEF ClientInv, Positions
<1> QED BY <1>1, <1>4, <1>5, AnsweredStep

(* The message of a FAIL is taken the same way, and is never an answer.       *)
LEMMA RefusalStep == ASSUME ClientInv, Refusal PROVE ClientInv'
<1>1. /\ \E error : answer' = <<RaiseTo(error)>>
      /\ answer = <<>> /\ field = "refusal" /\ open
      /\ UNCHANGED <<service, unread, reply, phase, got, want, packet, shell>>
  BY DEF Refusal, Whole, Running, Raise, Answer, wire
<1>2. reply.kind = "refused" /\ reply' = reply
  BY <1>1 DEF ClientInv, ParserInv, AtRefusal
<1>3. ReplyComplete'
  BY <1>1, <1>2, RaiseComplete
<1>4. phase # "connect"
  BY <1>1 DEF ClientInv, Positions
<1> QED BY <1>1, <1>3, <1>4, AnsweredStep

(* Of a status both markers have one word: OKAY leads to what the service     *)
(* sends next, FAIL to its message.                                           *)
LEMMA StatusStep == ASSUME ClientInv, Status PROVE ClientInv'
<1>1. /\ open /\ answer = <<>> /\ field = "status" /\ want = 0
      /\ UNCHANGED <<service, unread, ending, reply, packet, shell>>
  BY DEF Status, Whole, Running, wire
<1>2. phase # "connect" /\ shell = NoStreams /\ ClientTypes
      /\ (service = "query" => phase # "select")
  BY <1>1 DEF ClientInv, Positions
<1>3. reply \in Replies /\ Coming(reply.bytes) /\ Len(got) = Word
  <2>1. reply \in Replies /\ Coming(reply.bytes) /\ want + Len(got) = Word
    BY <1>1 DEF ClientInv, ParserInv, AtStatus, Counted
  <2>2. Len(got) \in Nat
    BY <1>2 DEF ClientTypes
  <2> QED BY <1>1, <2>1, <2>2
<1>4. /\ got = Fail => PrefixFollows("refused", Fitting(Details))
      /\ got = Okay =>
           \/ phase = "select"
           \/ service = "query" /\ PrefixFollows("payload", Fitting(Payloads))
           \/ service = "exec" /\ reply.kind = "payload" /\ reply.value \in Payloads
              /\ Follows(reply.value)
           \/ service \in {"inspect", "attempt"} /\ Ran /\ reply.value \in Scripts
              /\ Follows(Stream(reply.value))
  BY <1>2, <1>3, StatusRead
<1>5. CASE got \notin {Okay, Fail} /\ Raise("AdbProtocolError") /\ UNCHANGED <<phase, got, want>>
  <2>1. ReplyComplete'
    BY <1>5, RaiseComplete DEF Raise, Answer
  <2> QED BY <1>1, <1>2, <1>5, <2>1, AnsweredStep DEF Raise, Answer
<1>6. CASE got = Fail /\ Expect("refusal_length", Word) /\ UNCHANGED <<phase, open, answer>>
  <2>1. field' = "refusal_length" /\ got' = <<>> /\ want' = Word /\ answer' = <<>>
    BY <1>1, <1>6 DEF Expect
  <2>2. ClientTypes' /\ Positions'
    BY <1>1, <1>2, <1>6, <2>1, TextsAreBytes DEF ClientTypes, Positions
  <2>3. PrefixOf("refused", Fitting(Details))'
    BY <1>1, <1>4, <1>6, <2>1 DEF PrefixFollows, PrefixOf, Follows, Coming
  <2>4. Counted(Word)'
    BY <2>1, TextsAreBytes DEF Counted
  <2>5. ParserInv'
    BY <2>1, <2>3, <2>4 DEF ParserInv, AtStatus, AtLength, AtPayload, AtRaw, AtRefusal, AtPacket, AtSize, AtData
  <2>6. ReplyComplete'
    BY <2>1 DEF ReplyComplete
  <2> QED BY <2>2, <2>5, <2>6 DEF ClientInv
<1>7. CASE /\ got = Okay /\ phase' = "request"
           /\ IF phase = "select" THEN Pause
              ELSE CASE service = "query" -> Expect("length", Word)
                     [] service = "exec" -> Expect("raw", Word)
                     [] OTHER -> Expect("packet", 1)
           /\ UNCHANGED <<open, answer>>
  <2>1. got' = <<>> /\ want' \in {0, 1, Word} /\ answer' = <<>> /\ phase' = "request"
        /\ field' \in {"none", "length", "raw", "packet"}
    BY <1>1, <1>7 DEF Expect, Pause
  <2>2. ClientTypes' /\ Positions'
    BY <1>1, <1>2, <1>7, <2>1, TextsAreBytes DEF ClientTypes, Positions
  <2>3. ReplyComplete'
    BY <2>1 DEF ReplyComplete
  <2>4. CASE phase = "select"
    <3>1. field' = "none"
      BY <1>7, <2>4 DEF Pause
    <3>2. ParserInv'
      BY <3>1 DEF ParserInv, AtStatus, AtLength, AtPayload, AtRaw, AtRefusal, AtPacket, AtSize, AtData
    <3> QED BY <2>2, <2>3, <3>2 DEF ClientInv
  <2>5. CASE phase # "select" /\ service = "query"
    <3>1. field' = "length" /\ want' = Word
      BY <1>7, <2>5 DEF Expect
    <3>2. PrefixOf("payload", Fitting(Payloads))'
      BY <1>1, <1>4, <1>7, <2>1, <2>5 DEF PrefixFollows, PrefixOf, Follows, Coming
    <3>3. Counted(Word)'
      BY <2>1, <3>1, TextsAreBytes DEF Counted
    <3>4. ParserInv'
      BY <1>1, <2>1, <2>5, <3>1, <3>2, <3>3 DEF ParserInv, AtStatus, AtLength, AtPayload, AtRaw, AtRefusal, AtPacket, AtSize, AtData
    <3> QED BY <2>2, <2>3, <3>4 DEF ClientInv
  <2>6. CASE phase # "select" /\ service = "exec"
    <3>1. field' = "raw"
      BY <1>7, <2>6 DEF Expect
    <3>2. AtRaw'
      BY <1>1, <1>4, <1>7, <2>1, <2>6 DEF AtRaw, Follows, Coming
    <3>3. ParserInv'
      BY <3>1, <3>2 DEF ParserInv, AtStatus, AtLength, AtPayload, AtRefusal, AtPacket, AtSize, AtData
    <3> QED BY <2>2, <2>3, <3>3 DEF ClientInv
  <2>7. CASE phase # "select" /\ service \in {"inspect", "attempt"}
    <3>1. field' = "packet" /\ want' = 1
      BY <1>7, <2>7 DEF Expect
    <3>2. Ran /\ reply.value \in Scripts /\ Follows(Stream(reply.value))
      BY <1>4, <1>7, <2>7
    <3>3. Rest(0) = Stream(reply.value) /\ Len(reply.value) \in Nat
      BY <3>2, ScriptRest, ScriptParts DEF Rest
    <3>4. StreamsOf(NoStreams, reply.value, 0)
      <4>1. Joined(TextsOf(reply.value))[0] = <<>>
        BY <3>2, ScriptParts, JoinedDef
      <4>2. NoStreams.stdout = <<>> /\ NoStreams.exit = <<>>
        BY DEF NoStreams
      <4> QED BY <4>1, <4>2 DEF StreamsOf, ExitRead, NoExit
    <3>5. InScript(0)'
      BY <1>1, <1>2, <2>7, <3>2, <3>3, <3>4 DEF InScript, Ran
    <3>6. Coming(Rest(0))'
      <4>1. Rest(0)' = Rest(0)
        BY <1>1 DEF Rest
      <4> QED BY <1>1, <2>1, <3>2, <3>3, <4>1 DEF Coming, Follows
    <3>7. Counted(1)'
      BY <2>1, <3>1 DEF Counted
    <3>8. AtPacket'
      BY <1>1, <3>3, <3>5, <3>6, <3>7 DEF AtPacket
    <3>9. ParserInv'
      BY <3>1, <3>8 DEF ParserInv, AtStatus, AtLength, AtPayload, AtRaw, AtRefusal, AtSize, AtData
    <3> QED BY <2>2, <2>3, <3>9 DEF ClientInv
  <2> QED BY <1>2, <2>4, <2>5, <2>6, <2>7 DEF ClientTypes
<1> QED BY <1>5, <1>6, <1>7 DEF Status

(* A length is read where the server wrote one, and counts the bytes that     *)
(* follow it.                                                                 *)
LEMMA LengthStep == ASSUME ClientInv, Length PROVE ClientInv'
<1>1. /\ open /\ answer = <<>> /\ field \in {"length", "refusal_length"} /\ want = 0
      /\ UNCHANGED <<service, unread, ending, reply, phase, packet, shell>>
      /\ got \in Seq(Nat) /\ unread \in Seq(Nat)
  BY DEF Length, Whole, Running, wire, ClientInv, ClientTypes
<1>2. phase # "connect" /\ Len(got) = Word
  <2>1. want + Len(got) = Word
    BY <1>1 DEF ClientInv, ParserInv, AtLength, AtRefusal, Counted
  <2>2. Len(got) \in Nat
    BY <1>1
  <2> QED BY <1>1, <2>1, <2>2 DEF ClientInv, Positions
<1>3. CASE ParseLength(got) = <<>>
  <2>1. answer' = <<RaiseTo("AdbProtocolError")>> /\ UNCHANGED <<got, want>>
    BY <1>3 DEF Length, Raise, Answer
  <2>2. ReplyComplete'
    BY <2>1, RaiseComplete
  <2> QED BY <1>1, <1>2, <2>1, <2>2, AnsweredStep
<1>4. CASE ParseLength(got) # <<>>
  <2>1. /\ field' = IF field = "length" THEN "payload" ELSE "refusal"
        /\ got' = <<>> /\ want' = ParseLength(got)[1] /\ answer' = <<>> /\ open' = open
    BY <1>1, <1>4 DEF Length, Expect
  <2>2. ASSUME NEW texts, texts \in {Fitting(Payloads), Fitting(Details)}, NEW kind, PrefixOf(kind, texts)
        PROVE  /\ reply.kind = kind /\ reply.value \in texts /\ reply.value \in Seq(Nat)
               /\ ParseLength(got) = <<Len(reply.value)>>
               /\ Follows(reply.value)
    <3>1. CASE reply.kind = kind /\ reply.value \in texts /\ Coming(Prefixed(reply.value))
      <4>1. PICK text \in Seq(Nat) : text = reply.value /\ Len(text) < Power(Radix, Word)
        BY <2>2, <3>1, TextsAreBytes
      <4>2. PICK d \in Seq(Nat) : /\ d = Digits(Radix, Word, Len(text)) /\ Prefixed(text) = d \o text
                                  /\ Len(d) = Word /\ ParseLength(d) = <<Len(text)>>
        BY <4>1, PrefixedParts
      <4>3. Ahead(got, unread, d \o text)
        BY <3>1, <4>1, <4>2 DEF Coming
      <4>4. got = d /\ Ahead(<<>>, unread, text)
        BY <1>1, <1>2, <4>2, <4>3, AheadSplit
      <4> QED BY <3>1, <4>1, <4>2, <4>4 DEF Follows
    <3>2. CASE reply.kind = "odd" /\ Coming(NotDigits)
      <4>1. got = NotDigits
        BY <1>1, <1>2, <3>2, NotDigitsRead, AheadWhole DEF Coming
      <4> QED BY <1>4, <4>1, NotDigitsRead
    <3> QED BY <2>2, <3>1, <3>2 DEF PrefixOf
  <2>3. CASE field = "length"
    <3>1. service = "query" /\ PrefixOf("payload", Fitting(Payloads))
      BY <1>1, <2>3 DEF ClientInv, ParserInv, AtLength
    <3>2. /\ reply.kind = "payload" /\ reply.value \in Fitting(Payloads) /\ reply.value \in Seq(Nat)
          /\ ParseLength(got) = <<Len(reply.value)>> /\ Follows(reply.value)
      BY <2>2, <3>1
    <3>3. want' = Len(reply.value) /\ Len(reply.value) \in Nat /\ Len(got') = 0 /\ got' \in Seq(Nat)
      BY <2>1, <3>2
    <3>4. AtPayload'
      BY <1>1, <2>1, <3>1, <3>2, <3>3 DEF AtPayload, Follows, Coming, Counted, Fitting
    <3>5. ParserInv'
      BY <2>1, <2>3, <3>4 DEF ParserInv, AtStatus, AtLength, AtRaw, AtRefusal, AtPacket, AtSize, AtData
    <3>6. ClientTypes' /\ Positions'
      BY <1>1, <1>2, <2>1, <2>3, <3>3 DEF ClientInv, ClientTypes, Positions
    <3>7. ReplyComplete'
      BY <2>1 DEF ReplyComplete
    <3> QED BY <3>5, <3>6, <3>7 DEF ClientInv
  <2>4. CASE field = "refusal_length"
    <3>1. PrefixOf("refused", Fitting(Details))
      BY <1>1, <2>4 DEF ClientInv, ParserInv, AtRefusal
    <3>2. /\ reply.kind = "refused" /\ reply.value \in Seq(Nat)
          /\ ParseLength(got) = <<Len(reply.value)>>
      BY <2>2, <3>1
    <3>3. want' \in Nat /\ got' \in Seq(Nat)
      BY <2>1, <3>2
    <3>4. ParserInv'
      BY <1>1, <2>1, <2>4, <3>2 DEF ParserInv, AtStatus, AtLength, AtPayload, AtRaw, AtRefusal, AtPacket, AtSize, AtData
    <3>5. ClientTypes' /\ Positions'
      BY <1>1, <1>2, <2>1, <2>4, <3>3 DEF ClientInv, ClientTypes, Positions
    <3>6. ReplyComplete'
      BY <2>1 DEF ReplyComplete
    <3> QED BY <3>4, <3>5, <3>6 DEF ClientInv
  <2> QED BY <1>1, <2>3, <2>4
<1> QED BY <1>3, <1>4

(* A header of a shell packet is read where a packet of the script begins.    *)
LEMMA PacketHeaderStep == ASSUME ClientInv, PacketHeader PROVE ClientInv'
<1>1. /\ open /\ answer = <<>> /\ field \in {"packet", "size"} /\ want = 0
      /\ UNCHANGED <<service, unread, ending, reply, phase, shell, open, answer>>
      /\ got \in Seq(Nat) /\ unread \in Seq(Nat) /\ Len(got) \in Nat /\ phase # "connect"
      /\ got' = <<>> /\ got' \in Seq(Nat) /\ Len(got') = 0
  <2>1. open /\ answer = <<>> /\ field \in {"packet", "size"} /\ want = 0 /\ got' = <<>>
        /\ UNCHANGED <<service, unread, ending, reply, phase, shell, open, answer>>
    BY DEF PacketHeader, Whole, Running, wire, Expect
  <2>2. got \in Seq(Nat) /\ unread \in Seq(Nat) /\ phase # "connect"
    BY <2>1 DEF ClientInv, ClientTypes, Positions
  <2> QED BY <2>1, <2>2
<1>2. \A k : Rest(k)' = Rest(k) /\ (InScript(k) => InScript(k)')
  BY <1>1 DEF Rest, InScript, Ran
<1>3. ReplyComplete'
  BY <1>1 DEF ReplyComplete
<1>4. CASE field = "packet"
  <2>1. packet' = got[1] /\ field' = "size" /\ want' = Word
    BY <1>4 DEF PacketHeader, Whole, Expect
  <2>2. PICK k \in 0..Len(reply.value) : want + Len(got) = 1 /\ InScript(k) /\ Coming(Rest(k))
    BY <1>1, <1>4 DEF ClientInv, ParserInv, AtPacket, Counted
  <2>3. reply.value \in Scripts /\ Len(got) = 1
    BY <1>1, <2>2 DEF InScript
  <2>4. k \in 0..Len(reply.value) - 1 /\ k + 1 \in 1..Len(reply.value)
    <3>1. Len(reply.value) \in Nat
      BY <2>3, ScriptParts
    <3>2. Rest(k) \in Seq(Nat) /\ (k = Len(reply.value) => Rest(k) = <<>>)
      BY <2>3, ScriptRest DEF Rest
    <3>3. Len(got) <= Len(Rest(k))
      BY <1>1, <2>2, <3>2, AheadWhole DEF Coming
    <3>4. k # Len(reply.value)
      BY <2>3, <3>2, <3>3
    <3> QED BY <3>1, <3>4
  <2> DEFINE p == reply.value[k + 1]
             more == SizeBytes(Len(p[2])) \o (p[2] \o Rest(k + 1))
  <2>5. p[1] \in Nat /\ more \in Seq(Nat)
    BY <2>3, <2>4, RestIsBytes DEF Rest
  <2>6. Rest(k) = <<p[1]>> \o more
    BY <2>3, <2>4, ScriptRest DEF Rest
  <2>7. got[1] = p[1] /\ Follows(more)
    <3> HIDE DEF p, more
    <3>1. PICK id \in Nat : id = p[1]
      BY <2>5
    <3>2. <<id>> \in Seq(Nat) /\ Len(<<id>>) = 1 /\ <<id>>[1] = id
      OBVIOUS
    <3>3. PICK first \in Seq(Nat) : first = <<id>> /\ Len(first) = 1 /\ first[1] = id
      BY <3>2
    <3>4. PICK later \in Seq(Nat) : later = more
      BY <2>5
    <3>5. Ahead(got, unread, first \o later)
      BY <2>2, <2>6, <3>1, <3>3, <3>4 DEF Coming
    <3>6. got = first /\ Ahead(<<>>, unread, later)
      BY <1>1, <2>3, <3>3, <3>5, AheadSplit
    <3> QED BY <3>1, <3>3, <3>4, <3>6 DEF Follows
  <2>8. more' = more
    BY <1>1, <1>2
  <2> HIDE DEF more
  <2>9. InPacket(k)'
    BY <1>1, <1>2, <2>1, <2>2, <2>4, <2>7 DEF InPacket
  <2>10. Coming(more)'
    BY <1>1, <2>7, <2>8 DEF Coming, Follows
  <2>11. Counted(Word)'
    BY <1>1, <2>1, TextsAreBytes DEF Counted
  <2>12. AtSize'
    BY <1>1, <2>4, <2>9, <2>10, <2>11 DEF AtSize, more
  <2>13. ParserInv'
    BY <2>1, <2>12 DEF ParserInv, AtStatus, AtLength, AtPayload, AtRaw, AtRefusal, AtPacket, AtData
  <2>14. ClientTypes' /\ Positions'
    BY <1>1, <2>1, TextsAreBytes DEF ClientInv, ClientTypes, Positions
  <2> QED BY <1>3, <2>13, <2>14 DEF ClientInv
<1>5. CASE field = "size"
  <2>1. packet' = packet /\ field' = "data" /\ want' = Value(ByteBase, Reverse(got))
    BY <1>5 DEF PacketHeader, Whole, Expect
  <2>2. PICK k \in 0..Len(reply.value) :
           /\ want + Len(got) = Word /\ InPacket(k)
           /\ Coming(SizeBytes(Len(reply.value[k + 1][2])) \o (reply.value[k + 1][2] \o Rest(k + 1)))
    BY <1>1, <1>5 DEF ClientInv, ParserInv, AtSize, Counted
  <2>3. reply.value \in Scripts /\ Len(got) = Word /\ k + 1 \in 1..Len(reply.value)
    BY <1>1, <2>2 DEF InPacket, InScript
  <2> DEFINE p == reply.value[k + 1]
             more == p[2] \o Rest(k + 1)
             size == SizeBytes(Len(p[2]))
  <2>4. /\ size \in Seq(Nat) /\ Len(size) = Word /\ Value(ByteBase, Reverse(size)) = Len(p[2])
        /\ more \in Seq(Nat) /\ p[2] \in Seq(Nat)
    BY <2>3, RestIsBytes DEF Rest
  <2>5. more' = more
    BY <1>1, <1>2
  <2>6. Ahead(got, unread, size \o more)
    BY <2>2 DEF Coming
  <2>7. got = size /\ Follows(more)
    <3> HIDE DEF size, more
    <3> QED BY <1>1, <2>3, <2>4, <2>6, AheadSplit DEF Follows
  <2>8. want' = Len(p[2]) /\ Len(p[2]) \in Nat
    BY <2>1, <2>4, <2>7
  <2> HIDE DEF more
  <2>9. InPacket(k)'
    BY <1>1, <1>2, <2>1, <2>2 DEF InPacket
  <2>10. Coming(more)'
    BY <1>1, <2>5, <2>7 DEF Coming, Follows
  <2>11. Counted(Len(p[2]))'
    BY <1>1, <2>8 DEF Counted
  <2>12. AtData'
    BY <1>1, <2>9, <2>10, <2>11 DEF AtData, more
  <2>13. ParserInv'
    BY <2>1, <2>12 DEF ParserInv, AtStatus, AtLength, AtPayload, AtRaw, AtRefusal, AtPacket, AtSize
  <2>14. ClientTypes' /\ Positions'
    BY <1>1, <2>1, <2>8 DEF ClientInv, ClientTypes, Positions
  <2> QED BY <1>3, <2>13, <2>14 DEF ClientInv
<1> QED BY <1>1, <1>4, <1>5

(* One more packet is read into the streams.                                  *)
LEMMA PacketRead ==
    ASSUME NEW script \in Scripts, NEW k \in 0..Len(script), k + 1 \in 1..Len(script),
           NEW streams, StreamsOf(streams, script, k), NEW id, id = script[k + 1][1],
           NEW data, data = script[k + 1][2], NEW next,
           id = Exit => Len(data) = 1 /\ streams.exit = <<>>,
           next.stdout = IF id = Stdout THEN streams.stdout \o data ELSE streams.stdout,
           next.exit = IF id = Exit THEN data ELSE streams.exit
    PROVE  StreamsOf(next, script, k + 1)
<1>1. /\ TextsOf(script) \in Seq(Seq(Nat)) /\ Len(TextsOf(script)) = Len(script)
      /\ Len(script) \in Nat /\ DOMAIN script = 1..Len(script)
  BY ScriptParts, LenProperties
<1> DEFINE j == Joined(TextsOf(script))
<1>2. j[k + 1] = next.stdout
  <2>1. j[k] \in Seq(Nat) /\ j[k + 1] = j[k] \o TextsOf(script)[k + 1]
    <3>1. (k + 1) - 1 = k
      BY <1>1
    <3> QED BY <1>1, <3>1, JoinedDef
  <2>2. TextsOf(script)[k + 1] = IF id = Stdout THEN data ELSE <<>>
    BY <1>1 DEF TextsOf
  <2>3. j[k] \o <<>> = j[k]
    BY <2>1, ConcatEmptySeq
  <2>4. streams.stdout = j[k]
    BY DEF StreamsOf
  <2> HIDE DEF j
  <2> QED BY <2>1, <2>2, <2>3, <2>4
<1>3. k + 1 \in Nat /\ \A i \in 1..k + 1 : i \in 1..k \/ i = k + 1
  BY <1>1
<1>4. CASE id = Exit
  <2>1. \A i \in 1..k : script[i][1] # Exit
    BY <1>4 DEF StreamsOf, NoExit
  <2>2. k + 1 \in 1..k + 1 /\ (k + 1) - 1 = k
    BY <1>3
  <2>3. next.exit = data /\ Len(data) = 1
    BY <1>4
  <2>4. ExitRead(script, k + 1, next.exit)
    BY <1>4, <2>1, <2>2, <2>3 DEF ExitRead
  <2>5. next.exit # <<>>
    <3> SUFFICES ASSUME next.exit = <<>> PROVE FALSE
      OBVIOUS
    <3>1. data = <<>>
      BY <2>3
    <3>2. Len(<<>>) = 0
      OBVIOUS
    <3>3. Len(data) = 0
      BY <3>1, <3>2, Zenon
    <3>4. Len(data) = 1
      BY <2>3
    <3>5. 0 = 1
      BY <3>3, <3>4, Zenon
    <3> QED BY <3>5
  <2> QED BY <1>2, <2>4, <2>5 DEF StreamsOf, NoExit
<1>5. CASE id # Exit
  <2>1. next.exit = streams.exit /\ ExitRead(script, k, next.exit) /\ NoExit(script, k, next.exit)
    BY <1>5 DEF StreamsOf
  <2>2. ExitRead(script, k + 1, next.exit)
    <3>1. \A i \in 1..k : i \in 1..k + 1
      BY <1>1
    <3> QED BY <2>1, <3>1 DEF ExitRead
  <2>3. NoExit(script, k + 1, next.exit)
    BY <1>3, <1>5, <2>1 DEF NoExit
  <2> QED BY <1>2, <2>2, <2>3 DEF StreamsOf
<1> QED BY <1>4, <1>5

(* The data of a packet are those of the packet of the script that was        *)
(* begun, and the exit packet ends the call.                                  *)
LEMMA PacketDataStep == ASSUME ClientInv, PacketData PROVE ClientInv'
<1>1. /\ open /\ answer = <<>> /\ field = "data" /\ want = 0
      /\ UNCHANGED <<service, unread, ending, reply, phase, packet>>
  BY DEF PacketData, Whole, Running, wire
<1>2. /\ got \in Seq(Nat) /\ unread \in Seq(Nat) /\ Len(got) \in Nat /\ phase # "connect"
      /\ shell \in [stdout : Seq(Nat), stderr : Seq(Nat), exit : Seq(Nat)]
  BY <1>1 DEF ClientInv, ClientTypes, Positions
<1>3. PICK k \in 0..Len(reply.value) :
         /\ InPacket(k) /\ want + Len(got) = Len(reply.value[k + 1][2])
         /\ Coming(reply.value[k + 1][2] \o Rest(k + 1))
  BY <1>1 DEF ClientInv, ParserInv, AtData, Counted
<1>4. /\ reply.value \in Scripts /\ k + 1 \in 1..Len(reply.value) /\ Ran
      /\ packet = reply.value[k + 1][1] /\ StreamsOf(shell, reply.value, k)
      /\ service \in {"inspect", "attempt"}
  BY <1>3 DEF InPacket, InScript
<1>5. got = reply.value[k + 1][2] /\ Follows(Rest(k + 1)) /\ packet \in Nat
  <2>1. PICK data \in Seq(Nat) : data = reply.value[k + 1][2] /\ packet \in Nat
    BY <1>4, RestIsBytes
  <2>2. PICK rest \in Seq(Nat) : rest = Rest(k + 1)
    BY <1>4, RestIsBytes DEF Rest
  <2>3. Len(got) = Len(data) /\ Ahead(got, unread, data \o rest)
    BY <1>1, <1>2, <1>3, <2>1, <2>2 DEF Coming
  <2>4. got = data /\ Ahead(<<>>, unread, rest)
    BY <1>2, <2>3, AheadSplit
  <2> QED BY <2>1, <2>2, <2>4 DEF Follows
<1>6. CASE packet = Exit /\ (Len(got) # 1 \/ shell.exit # <<>>)
  <2>1. answer' = <<RaiseTo("AdbProtocolError")>> /\ UNCHANGED <<got, want, shell>>
    BY <1>6 DEF PacketData, Raise, Answer
  <2>2. ReplyComplete'
    BY <2>1, RaiseComplete
  <2> QED BY <1>1, <1>2, <2>1, <2>2, AnsweredStep
<1>7. CASE ~(packet = Exit /\ (Len(got) # 1 \/ shell.exit # <<>>))
  <2>1. /\ shell' = CASE packet = Stdout -> [shell EXCEPT !.stdout = @ \o got]
                      [] packet = Stderr -> [shell EXCEPT !.stderr = @ \o got]
                      [] packet = Exit -> [shell EXCEPT !.exit = got]
                      [] OTHER -> shell
        /\ field' = "packet" /\ got' = <<>> /\ want' = 1 /\ answer' = <<>> /\ open' = open
    BY <1>1, <1>7 DEF PacketData, Expect
  <2>2. /\ shell.stdout \o got \in Seq(Nat) /\ shell.stderr \o got \in Seq(Nat)
        /\ Stdout # Stderr /\ Stdout # Exit /\ Stderr # Exit
    BY <1>2, ConcatProperties DEF Stdout, Stderr, Exit
  <2>3. /\ shell' \in [stdout : Seq(Nat), stderr : Seq(Nat), exit : Seq(Nat)]
        /\ shell'.stdout = IF packet = Stdout THEN shell.stdout \o got ELSE shell.stdout
        /\ shell'.exit = IF packet = Exit THEN got ELSE shell.exit
    <3>1. CASE packet = Stdout
      BY <1>2, <2>1, <2>2, <3>1
    <3>2. CASE packet = Stderr
      BY <1>2, <2>1, <2>2, <3>2
    <3>3. CASE packet = Exit
      BY <1>2, <2>1, <2>2, <3>3
    <3>4. CASE packet \notin {Stdout, Stderr, Exit}
      BY <1>2, <2>1, <3>4
    <3> QED BY <3>1, <3>2, <3>3, <3>4
  <2>4. StreamsOf(shell', reply.value, k + 1)
    BY <1>4, <1>5, <1>7, <2>3, PacketRead
  <2>5. Len(reply.value) \in Nat
    BY <1>4, ScriptParts
  <2>6. InScript(k + 1)'
    BY <1>1, <1>4, <2>4, <2>5 DEF InScript, Ran
  <2>7. Coming(Rest(k + 1))'
    <3>1. Rest(k + 1)' = Rest(k + 1)
      BY <1>1 DEF Rest
    <3> QED BY <1>1, <1>5, <2>1, <3>1 DEF Coming, Follows
  <2>8. Counted(1)'
    BY <2>1 DEF Counted
  <2>9. AtPacket'
    BY <1>1, <1>4, <2>5, <2>6, <2>7, <2>8 DEF AtPacket
  <2>10. ParserInv'
    BY <2>1, <2>9 DEF ParserInv, AtStatus, AtLength, AtPayload, AtRaw, AtRefusal, AtSize, AtData
  <2>11. ClientTypes' /\ Positions'
    BY <1>1, <1>2, <2>1, <2>3 DEF ClientInv, ClientTypes, Positions
  <2>12. ReplyComplete'
    BY <2>1 DEF ReplyComplete
  <2> QED BY <2>10, <2>11, <2>12 DEF ClientInv
<1> QED BY <1>6, <1>7

(* Every state of a call satisfies the invariant.                             *)
LEMMA ClientInvHolds == ClientSpec => []ClientInv
<1>1. ClientInit => ClientInv
  <2> SUFFICES ASSUME ClientInit PROVE ClientInv
    OBVIOUS
  <2>1. ClientTypes
    BY ClientAssumption DEF ClientInit, ClientTypes, NoStreams
  <2>2. Positions /\ ParserInv /\ ReplyComplete
    BY DEF ClientInit, Positions, ParserInv, ReplyComplete, AtStatus, AtLength, AtPayload, AtRaw,
           AtRefusal, AtPacket, AtSize, AtData
  <2> QED BY <2>1, <2>2 DEF ClientInv
<1>2. ClientInv /\ [ClientNext]_clientVars => ClientInv'
  <2> SUFFICES ASSUME ClientInv, [ClientNext]_clientVars PROVE ClientInv'
    OBVIOUS
  <2>1. CASE UNCHANGED clientVars
    <3>1. ClientTypes' /\ Positions'
      BY <2>1 DEF clientVars, ClientInv, ClientTypes, Positions
    <3>2. ReplyComplete'
      BY <2>1 DEF clientVars, ClientInv, ReplyComplete, Ran
    <3>3. ParserInv'
      BY <2>1 DEF clientVars, ClientInv, ParserInv, AtStatus, AtLength, AtPayload, AtRaw, AtRefusal,
                  AtPacket, AtSize, AtData, Coming, Counted, PrefixOf, InScript, InPacket, Rest, Ran,
                  Replies, Refusals
    <3> QED BY <3>1, <3>2, <3>3 DEF ClientInv
  <2> QED BY <2>1, ConnectStep, SendStep, ReceiveStep, ReceiveEndStep, StatusStep, LengthStep,
             PayloadStep, RefusalStep, PacketHeaderStep, PacketDataStep DEF ClientNext
<1> QED BY <1>1, <1>2, PTL DEF ClientSpec

(* Whatever pieces a reply arrives in, for any field width, base, texts and   *)
(* scripts, what a call returns or raises is what the server sent in full     *)
(* (client.py 88-149, _attempt.py 20-61, query.py 61-75).                     *)
THEOREM RepliesAreComplete == ClientSpec => []ReplyComplete
<1>1. ClientInv => ReplyComplete
  BY DEF ClientInv
<1> QED BY <1>1, ClientInvHolds, PTL

--------------------------------------------------------------------------------
(* Varints and the numbers they stand for, read at any offset of a payload.   *)

(* The bytes w stand at an offset of a payload; the payload ends within them. *)
Has(p, o, w) == Len(w) <= Len(p) - o + 1 /\ \A i \in 1..Len(w) : p[o + i - 1] = w[i]
Cut(p, o, w) == Len(p) - o + 1 < Len(w) /\ \A i \in 1..Len(p) - o + 1 : p[o + i - 1] = w[i]

(* The number a varint stands for.                                            *)
NumberIn(w) == Value(Continued, [i \in 1..Len(w) |-> w[Len(w) + 1 - i] % Continued])

(* The bases of the numerals a varint is made of; the sign bit is below what  *)
(* the longest varint holds.                                                  *)
LEMMA VarintConstants ==
    /\ Continued \in Nat \ {0, 1} /\ SignBit \in Nat \ {0} /\ MaxBytes \in Nat \ {0, 1}
    /\ 2 * SignBit <= Power(Continued, MaxBytes)
    /\ \A k \in Nat : Power(Continued, k) \in Nat \ {0} /\ Power(Continued, k + 1) = Continued * Power(Continued, k)
<1>1. GroupBits \in Nat \ {0} /\ MaxBytes \in Nat \ {0, 1}
  BY ProtoAssumption
<1>2. \A k \in Nat : Power(2, k) \in Nat \ {0} /\ Power(2, k + 1) = 2 * Power(2, k)
  BY PowerStep
<1>3. Continued \in Nat \ {0, 1}
  <2>1. PICK g \in Nat : GroupBits = g + 1
    <3>1. GroupBits - 1 \in Nat /\ GroupBits = (GroupBits - 1) + 1
      BY <1>1
    <3> QED BY <3>1
  <2>2. Power(2, g + 1) = 2 * Power(2, g) /\ Power(2, g) \in Nat \ {0}
    BY <1>2
  <2> QED BY <2>1, <2>2 DEF Continued
<1>4. \A k \in Nat : Power(Continued, k) \in Nat \ {0}
                     /\ Power(Continued, k + 1) = Continued * Power(Continued, k)
  BY <1>3, PowerStep
<1>5. SignBit \in Nat \ {0} /\ 2 * SignBit <= Power(Continued, MaxBytes)
  <2>1. PICK m \in Nat : MaxBytes = m + 1 /\ MaxBytes - 1 = m
    BY <1>1
  <2>2. PICK s \in Nat \ {0}, c \in Nat \ {0, 1} : s = Power(Continued, m) /\ c = Continued
    BY <1>3, <1>4
  <2>3. 2 * s <= c * s
    <3>1. PICK d \in Nat : c = d + 2
      <4>1. c - 2 \in Nat /\ c = (c - 2) + 2
        OBVIOUS
      <4> QED BY <4>1
    <3>2. (d + 2) * s = d * s + 2 * s /\ d * s \in Nat
      OBVIOUS
    <3> QED BY <3>1, <3>2
  <2>4. Power(Continued, m + 1) = c * s
    BY <1>4, <2>2
  <2> QED BY <2>1, <2>2, <2>3, <2>4 DEF SignBit
<1> QED BY <1>1, <1>3, <1>4, <1>5

(* The least of a set of numbers is the one that no other is below.           *)
LEMMA MinIs ==
    ASSUME NEW T, T \subseteq Nat, NEW n \in T, \A m \in T : n <= m
    PROVE  Min(T) = n
<1> DEFINE Least(x) == \A m \in T : x <= m
<1>1. Min(T) = CHOOSE x \in T : Least(x)
  BY DEF Min
<1>2. Least(n)
  OBVIOUS
<1> HIDE DEF Least
<1>3. Min(T) \in T /\ Least(Min(T))
  BY <1>1, <1>2
<1>4. PICK x \in T : x = Min(T) /\ \A m \in T : x <= m
  BY <1>3 DEF Least
<1>5. x \in Nat /\ n \in Nat /\ x <= n /\ n <= x
  BY <1>4
<1> QED BY <1>4, <1>5

(* What is left of a payload from an offset on.                               *)
LEMMA FromOffset ==
    ASSUME NEW p \in Seq(Nat), NEW o \in 1..Len(p) + 1
    PROVE  /\ SubSeq(p, o, Len(p)) \in Seq(Nat) /\ Len(SubSeq(p, o, Len(p))) = Len(p) - o + 1
           /\ \A i \in 1..Len(p) - o + 1 : SubSeq(p, o, Len(p))[i] = p[o + i - 1]
<1>1. Len(p) \in Nat
  OBVIOUS
<1>2. \A i \in o..Len(p) : p[i] \in Nat
  <2>1. \A i \in o..Len(p) : i \in 1..Len(p)
    BY <1>1
  <2> QED BY <2>1, ElementOfSeq
<1> DEFINE t == SubSeq(p, o, Len(p))
<1>3. /\ t \in Seq(Nat) /\ Len(t) = IF o <= Len(p) THEN Len(p) - o + 1 ELSE 0
      /\ \A i \in 1..Len(p) - o + 1 : t[i] = p[o + i - 1]
  BY <1>1, <1>2, SubSeqProperties
<1> HIDE DEF t
<1>4. Len(t) = Len(p) - o + 1
  <2>1. CASE o <= Len(p)
    BY <1>3, <2>1
  <2>2. CASE ~(o <= Len(p))
    <3>1. o = Len(p) + 1
      BY <1>1, <2>2
    <3> QED BY <1>1, <1>3, <2>2, <3>1
  <2> QED BY <2>1, <2>2
<1> QED BY <1>3, <1>4, Zenon DEF t

(* A varint that is there is read, whatever follows it.                       *)
LEMMA VarintRead ==
    ASSUME NEW p \in Seq(Nat), NEW o \in 1..Len(p) + 1, NEW w, IsVarint(w), Has(p, o, w)
    PROVE  ReadVarint(p, o) = At(o + Len(w), NumberIn(w))
<1>1. PICK bytes \in Seq(Nat) :
         /\ bytes = SubSeq(p, o, Len(p)) /\ Len(bytes) = Len(p) - o + 1
         /\ \A i \in 1..Len(p) - o + 1 : bytes[i] = p[o + i - 1]
  BY FromOffset
<1>2. PICK n \in 1..MaxBytes : n = Len(w)
  BY DEF IsVarint
<1>3. w \in Seq(Nat) /\ ~Overflows(w, n) /\ \A i \in 1..n : w[i] < Continued <=> i = n
  <2>1. w \in Seq(Nat) /\ ~Overflows(w, n) /\ \A i \in DOMAIN w : w[i] < Continued <=> i = n
    BY <1>2 DEF IsVarint
  <2>2. DOMAIN w = 1..n
    BY <1>2, <2>1
  <2> QED BY <2>1, <2>2
<1>4. n <= Len(bytes) /\ (\A i \in 1..n : bytes[i] = w[i]) /\ n \in Nat /\ MaxBytes \in Nat
  <2>1. n <= Len(p) - o + 1 /\ \A i \in 1..n : p[o + i - 1] = w[i]
    BY <1>2 DEF Has
  <2>2. MaxBytes \in Nat /\ Len(p) \in Nat
    BY VarintConstants
  <2> QED BY <1>1, <2>1, <2>2
<1> DEFINE T == {i \in DOMAIN bytes : i <= MaxBytes /\ bytes[i] < Continued} \cup {MaxBytes + 1}
<1>5. T \subseteq Nat /\ n \in T
  BY <1>3, <1>4, SMTT(30)
<1>6. \A m \in T : n <= m
  <2> SUFFICES ASSUME NEW m \in T, m < n PROVE FALSE
    BY <1>4, <1>5
  <2>1. m \in 1..n /\ m # n
    BY <1>4
  <2>2. w[m] < Continued
    BY <1>4, <2>1
  <2> QED BY <1>3, <2>1, <2>2
<1>7. VarintLength(bytes) = n
  <2> HIDE DEF T
  <2>1. Min(T) = n
    BY <1>5, <1>6, MinIs
  <2> QED BY <2>1 DEF VarintLength, T
<1>8. ~Overflows(bytes, n) /\ ~(n > MaxBytes)
  BY <1>3, <1>4 DEF Overflows
<1>9. [i \in 1..n |-> bytes[n + 1 - i] % Continued] = [i \in 1..n |-> w[n + 1 - i] % Continued]
  <2>1. \A i \in 1..n : n + 1 - i \in 1..n
    BY <1>4
  <2> QED BY <1>4, <2>1
<1>10. VarintOf(bytes, o, n) = At(o + n, NumberIn(w))
  BY <1>2, <1>8, <1>9 DEF VarintOf, NumberIn
<1> QED BY <1>1, <1>2, <1>7, <1>10 DEF ReadVarint, Varint

(* A varint that is cut is not.                                               *)
LEMMA VarintCut ==
    ASSUME NEW p \in Seq(Nat), NEW o \in 1..Len(p) + 1, NEW w, IsVarint(w), Cut(p, o, w)
    PROVE  ReadVarint(p, o) = Failed
<1>1. PICK bytes \in Seq(Nat) :
         /\ bytes = SubSeq(p, o, Len(p)) /\ Len(bytes) = Len(p) - o + 1
         /\ \A i \in 1..Len(p) - o + 1 : bytes[i] = p[o + i - 1]
  BY FromOffset
<1>2. \A i \in DOMAIN bytes : ~(bytes[i] < Continued)
  <2> SUFFICES ASSUME NEW i \in DOMAIN bytes PROVE ~(bytes[i] < Continued)
    OBVIOUS
  <2>1. i \in 1..Len(p) - o + 1 /\ Len(p) \in Nat
    BY <1>1
  <2>2. bytes[i] = w[i] /\ i \in 1..Len(w) /\ i # Len(w)
    <3>1. w \in Seq(Nat) /\ Len(w) \in Nat
      BY DEF IsVarint
    <3>2. Len(p) - o + 1 < Len(w) /\ p[o + i - 1] = w[i]
      BY <2>1 DEF Cut
    <3> QED BY <1>1, <2>1, <3>1, <3>2, SMTT(30)
  <2>3. DOMAIN w = 1..Len(w) /\ \A j \in DOMAIN w : w[j] < Continued <=> j = Len(w)
    <3>1. w \in Seq(Nat) /\ \A j \in DOMAIN w : w[j] < Continued <=> j = Len(w)
      BY DEF IsVarint
    <3> QED BY <3>1
  <2> QED BY <2>2, <2>3
<1>3. VarintLength(bytes) = MaxBytes + 1
  <2> DEFINE T == {i \in DOMAIN bytes : i <= MaxBytes /\ bytes[i] < Continued} \cup {MaxBytes + 1}
  <2>1. T = {MaxBytes + 1}
    BY <1>2
  <2>2. PICK n \in Nat : n = MaxBytes + 1
    BY VarintConstants
  <2> HIDE DEF T
  <2>3. T \subseteq Nat /\ n \in T /\ \A m \in T : n <= m
    BY <2>1, <2>2
  <2>4. Min(T) = MaxBytes + 1
    BY <2>2, <2>3, MinIs
  <2> QED BY <2>4 DEF VarintLength, T
<1>4. VarintOf(bytes, o, MaxBytes + 1) = Failed
  BY VarintConstants DEF VarintOf
<1> QED BY <1>1, <1>3, <1>4 DEF ReadVarint, Varint

(* What the server writes for a number is a varint, and stands for it.        *)
LEMMA EncodedIsVarint ==
    ASSUME NEW raw \in Varints
    PROVE  IsVarint(EncodedRaw(raw)) /\ NumberIn(EncodedRaw(raw)) = raw
<1>1. raw \in Nat /\ raw < 2 * SignBit
  BY VarintConstants DEF Varints
<1>2. PICK c \in Nat \ {0, 1} : c = Continued
  BY VarintConstants
<1> DEFINE P(k) == Power(c, k)
           K == {k \in 1..MaxBytes : raw < P(k)}
<1>3. \A k \in Nat : P(k) \in Nat \ {0} /\ P(k + 1) = c * P(k)
  BY <1>2, VarintConstants
<1>4. MaxBytes \in Nat /\ MaxBytes \in K
  <2>1. raw < P(MaxBytes)
    BY <1>1, <1>2, <1>3, VarintConstants
  <2> QED BY <2>1, VarintConstants
<1>5. PICK k \in K : \A m \in K : k <= m
  <2> HIDE DEF P
  <2>1. K \subseteq Nat /\ K # {}
    BY <1>4
  <2> QED BY <2>1, LeastElement
<1>6. SizeOf(raw) \in 1..MaxBytes /\ raw < P(SizeOf(raw))
      /\ (SizeOf(raw) > 1 => raw >= P(SizeOf(raw) - 1))
  <2> DEFINE Fits(i) == raw < P(i) /\ (i > 1 => raw >= P(i - 1))
  <2>1. Fits(k)
    <3>1. CASE k > 1
      <4>1. k - 1 \in 1..MaxBytes /\ k - 1 < k /\ k - 1 \in Nat
        BY <1>4, <3>1
      <4>2. ~(raw < P(k - 1))
        BY <1>5, <4>1
      <4>3. P(k - 1) \in Nat
        BY <1>3, <4>1
      <4> HIDE DEF P
      <4> QED BY <1>1, <4>2, <4>3
    <3>2. CASE ~(k > 1)
      BY <3>2
    <3> QED BY <3>1, <3>2
  <2>2. SizeOf(raw) = CHOOSE i \in 1..MaxBytes : Fits(i)
    BY <1>2 DEF SizeOf
  <2> HIDE DEF Fits
  <2>3. SizeOf(raw) \in 1..MaxBytes /\ Fits(SizeOf(raw))
    BY <2>1, <2>2
  <2> QED BY <2>3 DEF Fits
<1>7. PICK n \in 1..MaxBytes : n = SizeOf(raw) /\ raw < P(n) /\ n \in Nat
  BY <1>4, <1>6
<1> DEFINE d == Digits(c, n, raw)
           w == [i \in 1..n |-> d[n + 1 - i] + (IF i < n THEN c ELSE 0)]
<1>8. d \in Seq(Nat) /\ Len(d) = n /\ \A i \in 1..n : d[i] < c
  BY <1>1, <1>7, DigitsType
<1>9. d[1] = raw \div P(n - 1)
  <2>1. d[1] = (raw \div P(n - 1)) % c
    BY <1>7 DEF Digits
  <2>2. PICK q \in Nat \ {0} : q = P(n - 1) /\ raw < c * q
    <3>1. n - 1 \in Nat /\ (n - 1) + 1 = n
      BY <1>7
    <3> QED BY <1>3, <1>7, <3>1
  <2>3. raw \div q \in 0..c - 1
    <3>1. PICK m \in Nat, r \in 0..q - 1 : m = raw \div q /\ raw = m * q + r
      <4>1. raw \div q \in Nat /\ raw % q \in 0..q - 1 /\ raw = (raw \div q) * q + (raw % q)
        BY <1>1
      <4> QED BY <4>1
    <3>2. CASE m >= c
      <4>1. PICK e \in Nat : m = c + e
        <5>1. m - c \in Nat /\ m = c + (m - c)
          BY <3>2
        <5> QED BY <5>1
      <4>2. (c + e) * q = c * q + e * q /\ e * q \in Nat /\ c * q \in Nat
        OBVIOUS
      <4> QED BY <2>2, <3>1, <4>1, <4>2
    <3> QED BY <3>1, <3>2
  <2>4. \A x \in 0..c - 1 : x % c = x
    OBVIOUS
  <2> QED BY <2>1, <2>2, <2>3, <2>4
<1> HIDE DEF d
<1>10. EncodedRaw(raw) = w
  BY <1>2, <1>7 DEF EncodedRaw, EncodedIn, d
<1>11. \A i \in 1..n : /\ n + 1 - i \in 1..n /\ d[n + 1 - i] \in Nat /\ d[n + 1 - i] < c
                       /\ w[i] \in Nat /\ (w[i] < c <=> i = n) /\ w[i] % c = d[n + 1 - i]
  <2> SUFFICES ASSUME NEW i \in 1..n
               PROVE  /\ n + 1 - i \in 1..n /\ d[n + 1 - i] \in Nat /\ d[n + 1 - i] < c
                      /\ w[i] \in Nat /\ (w[i] < c <=> i = n) /\ w[i] % c = d[n + 1 - i]
    OBVIOUS
  <2>1. n + 1 - i \in 1..n
    BY <1>7
  <2>2. PICK x \in Nat : x = d[n + 1 - i] /\ x < c
    BY <1>8, <2>1
  <2>3. w[i] = x + (IF i < n THEN c ELSE 0)
    BY <2>2
  <2> HIDE DEF w
  <2>4. CASE i < n
    <3>1. w[i] = x + c /\ i # n
      BY <1>7, <2>3, <2>4
    <3>2. (x + c) % c = x
      BY <2>2
    <3> QED BY <2>1, <2>2, <3>1, <3>2
  <2>5. CASE i = n
    <3>1. w[i] = x
      BY <1>7, <2>3, <2>5
    <3>2. x % c = x
      BY <2>2
    <3> QED BY <2>1, <2>2, <2>5, <3>1, <3>2
  <2> QED BY <1>7, <2>4, <2>5
<1>12. w \in Seq(Nat) /\ Len(w) = n /\ DOMAIN w = 1..n
  <2>1. w \in [1..n -> Nat]
    BY <1>11
  <2> HIDE DEF w
  <2> QED BY <1>7, <2>1
<1>13. ~Overflows(w, n)
  <2>1. CASE n = MaxBytes
    <3>1. w[n] = d[1]
      BY <1>7, <1>8
    <3>2. P(n - 1) = SignBit
      BY <1>2, <2>1 DEF SignBit
    <3>3. raw \div SignBit <= 1
      <4>1. PICK s \in Nat \ {0} : s = SignBit
        BY VarintConstants
      <4>2. PICK m \in Nat, r \in 0..s - 1 : m = raw \div s /\ raw = m * s + r
        <5>1. raw \div s \in Nat /\ raw % s \in 0..s - 1 /\ raw = (raw \div s) * s + (raw % s)
          BY <1>1
        <5> QED BY <5>1
      <4>3. CASE m >= 2
        <5>1. PICK e \in Nat : m = 2 + e
          <6>1. m - 2 \in Nat /\ m = 2 + (m - 2)
            BY <4>3
          <6> QED BY <6>1
        <5>2. (2 + e) * s = 2 * s + e * s /\ e * s \in Nat
          OBVIOUS
        <5> QED BY <1>1, <4>1, <4>2, <5>1, <5>2
      <4> QED BY <4>1, <4>2, <4>3
    <3> HIDE DEF w
    <3>4. raw \div SignBit \in Nat
      <4>1. PICK s \in Nat \ {0} : s = SignBit
        BY VarintConstants
      <4> QED BY <1>1, <4>1
    <3> QED BY <1>9, <3>1, <3>2, <3>3, <3>4 DEF Overflows
  <2>2. CASE n # MaxBytes
    BY <2>2 DEF Overflows
  <2> QED BY <2>1, <2>2
<1> HIDE DEF w
<1>14. IsVarint(w)
  BY <1>2, <1>7, <1>11, <1>12, <1>13 DEF IsVarint
<1>15. NumberIn(w) = raw
  <2>1. ASSUME NEW i \in 1..n PROVE w[n + 1 - i] % c = d[i]
    <3>1. n + 1 - i \in 1..n /\ n + 1 - (n + 1 - i) = i
      BY <1>7
    <3> QED BY <1>11, <3>1
  <2>2. [i \in 1..n |-> w[n + 1 - i] % c] = d
    <3>1. d = [i \in 1..n |-> d[i]]
      BY <1>8
    <3> QED BY <2>1, <3>1
  <2>3. Value(c, d) = raw
    BY <1>1, <1>7, ValueOfDigits DEF d
  <2> QED BY <1>2, <1>12, <2>2, <2>3 DEF NumberIn
<1> QED BY <1>10, <1>14, <1>15

--------------------------------------------------------------------------------
(* Fields: a key and a value of its wire type, all there or cut.              *)

(* If a payload has two runs of bytes at an offset, it has each of them at    *)
(* its own.                                                                   *)
LEMMA HasConcat ==
    ASSUME NEW p \in Seq(Nat), NEW o \in 1..Len(p) + 1, NEW a \in Seq(Nat), NEW b \in Seq(Nat),
           Has(p, o, a \o b)
    PROVE  Has(p, o, a) /\ Has(p, o + Len(a), b) /\ o + Len(a) \in 1..Len(p) + 1
<1>1. PICK la \in Nat, lb \in Nat, lp \in Nat : la = Len(a) /\ lb = Len(b) /\ lp = Len(p)
  OBVIOUS
<1>2. Len(a \o b) = la + lb /\ \A i \in 1..la + lb : (a \o b)[i] = IF i <= la THEN a[i] ELSE b[i - la]
  BY <1>1, ConcatProperties
<1>3. la + lb <= lp - o + 1 /\ \A i \in 1..la + lb : p[o + i - 1] = (a \o b)[i]
  BY <1>1, <1>2 DEF Has
<1>4. \A i \in 1..la : p[o + i - 1] = a[i]
  <2>1. \A i \in 1..la : i \in 1..la + lb /\ i <= la
    BY <1>1
  <2> QED BY <1>2, <1>3, <2>1
<1>5. \A i \in 1..lb : p[o + la + i - 1] = b[i]
  <2> SUFFICES ASSUME NEW i \in 1..lb PROVE p[o + la + i - 1] = b[i]
    OBVIOUS
  <2>1. la + i \in 1..la + lb /\ ~(la + i <= la) /\ (la + i) - la = i /\ o + (la + i) - 1 = o + la + i - 1
    BY <1>1
  <2>2. p[o + (la + i) - 1] = b[i]
    BY <1>2, <1>3, <2>1
  <2> QED BY <2>1, <2>2
<1>6. la <= lp - o + 1 /\ lb <= lp - (o + la) + 1 /\ o + la \in 1..lp + 1
  BY <1>1, <1>3
<1> QED BY <1>1, <1>4, <1>5, <1>6 DEF Has

(* A payload that ends within two runs of bytes ends within the first, or     *)
(* has it and ends within the second.                                         *)
LEMMA CutConcat ==
    ASSUME NEW p \in Seq(Nat), NEW o \in 1..Len(p) + 1, NEW a \in Seq(Nat), NEW b \in Seq(Nat),
           Cut(p, o, a \o b)
    PROVE  \/ Cut(p, o, a)
           \/ Has(p, o, a) /\ Cut(p, o + Len(a), b) /\ o + Len(a) \in 1..Len(p) + 1
<1>1. PICK la \in Nat, lb \in Nat, lp \in Nat : la = Len(a) /\ lb = Len(b) /\ lp = Len(p)
  OBVIOUS
<1>2. Len(a \o b) = la + lb /\ \A i \in 1..la + lb : (a \o b)[i] = IF i <= la THEN a[i] ELSE b[i - la]
  BY <1>1, ConcatProperties
<1>3. lp - o + 1 < la + lb /\ \A i \in 1..lp - o + 1 : p[o + i - 1] = (a \o b)[i]
  BY <1>1, <1>2 DEF Cut
<1>4. CASE lp - o + 1 < la
  <2>1. \A i \in 1..lp - o + 1 : i \in 1..la + lb /\ i <= la
    BY <1>1, <1>4
  <2>2. \A i \in 1..lp - o + 1 : p[o + i - 1] = a[i]
    BY <1>2, <1>3, <2>1
  <2> QED BY <1>1, <1>4, <2>2 DEF Cut
<1>5. CASE la <= lp - o + 1
  <2>1. \A i \in 1..la : p[o + i - 1] = a[i]
    <3>1. \A i \in 1..la : i \in 1..la + lb /\ i <= la /\ i \in 1..lp - o + 1
      BY <1>1, <1>5
    <3> QED BY <1>2, <1>3, <3>1
  <2>2. \A i \in 1..lp - (o + la) + 1 : p[o + la + i - 1] = b[i]
    <3> SUFFICES ASSUME NEW i \in 1..lp - (o + la) + 1 PROVE p[o + la + i - 1] = b[i]
      OBVIOUS
    <3>1. la + i \in 1..la + lb /\ ~(la + i <= la) /\ (la + i) - la = i /\ o + (la + i) - 1 = o + la + i - 1
          /\ la + i \in 1..lp - o + 1
      BY <1>1, <1>3
    <3>2. p[o + (la + i) - 1] = b[i]
      BY <1>2, <1>3, <3>1
    <3> QED BY <3>1, <3>2
  <2>3. lp - (o + la) + 1 < lb /\ o + la \in 1..lp + 1
    BY <1>1, <1>3, <1>5
  <2> QED BY <1>1, <1>5, <2>1, <2>2, <2>3 DEF Cut, Has
<1>6. (lp - o + 1 < la) \/ (la <= lp - o + 1)
  BY <1>1
<1> QED BY <1>4, <1>5, <1>6

(* What may follow a key: a value of its wire type.                           *)
IsBody(type, body, value) ==
    \/ type = 0 /\ IsVarint(body) /\ value = NumberIn(body)
    \/ type \in {1, 5} /\ body \in Seq(Nat) /\ Len(body) = Fixed[type] /\ value = body
    \/ type = 2 /\ value \in Seq(Nat) /\ Len(value) \in Varints /\ body = Sized(value)

(* What is written of a number is a varint of at least one byte.              *)
LEMMA EncodedNat ==
    ASSUME NEW n \in Varints
    PROVE  /\ IsVarint(Encoded(n)) /\ NumberIn(Encoded(n)) = n
           /\ Encoded(n) \in Seq(Nat) /\ Len(Encoded(n)) \in Nat \ {0}
<1>1. ~(n < 0)
  BY VarintConstants DEF Varints
<1>2. Encoded(n) = EncodedRaw(n)
  BY <1>1 DEF Encoded
<1>3. IsVarint(Encoded(n)) /\ NumberIn(Encoded(n)) = n
  BY <1>2, EncodedIsVarint
<1>4. Encoded(n) \in Seq(Nat) /\ Len(Encoded(n)) \in 1..MaxBytes
  BY <1>3 DEF IsVarint
<1>5. MaxBytes \in Nat
  BY VarintConstants
<1> QED BY <1>3, <1>4, <1>5

(* The body of a field is a sequence of bytes.                                *)
LEMMA BodyType ==
    ASSUME NEW type, NEW body, NEW value, IsBody(type, body, value)
    PROVE  body \in Seq(Nat)
<1>1. CASE type = 2 /\ value \in Seq(Nat) /\ Len(value) \in Varints /\ body = Sized(value)
  <2>1. Encoded(Len(value)) \in Seq(Nat)
    BY <1>1, EncodedNat
  <2>2. Encoded(Len(value)) \o value \in Seq(Nat)
    BY <1>1, <2>1, ConcatProperties
  <2> QED BY <1>1, <2>2 DEF Sized
<1> QED BY <1>1 DEF IsBody, IsVarint

(* Bytes of which the payload has all, or not all.                            *)
LEMMA BytesRead ==
    ASSUME NEW p \in Seq(Nat), NEW o \in 1..Len(p) + 1, NEW b \in Seq(Nat)
    PROVE  /\ Has(p, o, b) => ReadBytes(p, o, Len(b)) = At(o + Len(b), b)
           /\ Cut(p, o, b) => ReadBytes(p, o, Len(b)) = Failed
<1>1. PICK lb \in Nat, lp \in Nat : lb = Len(b) /\ lp = Len(p)
  OBVIOUS
<1>2. ASSUME Has(p, o, b) PROVE ReadBytes(p, o, lb) = At(o + lb, b)
  <2>1. lb <= lp - o + 1 /\ \A i \in 1..lb : p[o + i - 1] = b[i]
    BY <1>1, <1>2 DEF Has
  <2>2. o + lb - 1 \in Int /\ o \in Int /\ (\A i \in o..o + lb - 1 : i \in 1..lp)
        /\ (o + lb - 1) - o + 1 = lb /\ ~(o + lb - 1 > lp)
    BY <1>1, <2>1, SMTT(30)
  <2> DEFINE t == SubSeq(p, o, o + lb - 1)
  <2>3. \A i \in o..o + lb - 1 : p[i] \in Nat
    BY <1>1, <2>2, ElementOfSeq
  <2>4. /\ t \in Seq(Nat) /\ Len(t) = IF o <= o + lb - 1 THEN (o + lb - 1) - o + 1 ELSE 0
        /\ \A i \in 1..(o + lb - 1) - o + 1 : t[i] = p[o + i - 1]
    BY <2>2, <2>3, SubSeqProperties
  <2> HIDE DEF t
  <2>5. Len(t) = lb /\ \A i \in 1..lb : t[i] = b[i]
    BY <1>1, <2>1, <2>2, <2>4
  <2>6. t = b
    BY <1>1, <2>4, <2>5, SeqEqual
  <2> QED BY <1>1, <2>2, <2>6 DEF ReadBytes, t
<1>3. ASSUME Cut(p, o, b) PROVE ReadBytes(p, o, lb) = Failed
  <2>1. o + lb - 1 > lp
    BY <1>1, <1>3 DEF Cut
  <2> QED BY <1>1, <2>1 DEF ReadBytes
<1> QED BY <1>1, <1>2, <1>3

(* The value of a field that is all there is read whatever follows it         *)
(* (proto.py, the value by wire type).                                        *)
LEMMA ValueRead ==
    ASSUME NEW p \in Seq(Nat), NEW o \in 1..Len(p) + 1, NEW type, NEW body, NEW value,
           IsBody(type, body, value), Has(p, o, body)
    PROVE  ReadValue(p, o, type) = At(o + Len(body), value)
<1>1. CASE type = 0 /\ IsVarint(body) /\ value = NumberIn(body)
  BY <1>1, VarintRead DEF ReadValue
<1>2. CASE type \in {1, 5} /\ body \in Seq(Nat) /\ Len(body) = Fixed[type] /\ value = body
  <2>1. ReadBytes(p, o, Len(body)) = At(o + Len(body), body)
    BY <1>2, BytesRead
  <2> QED BY <1>2, <2>1 DEF ReadValue
<1>3. CASE type = 2 /\ value \in Seq(Nat) /\ Len(value) \in Varints /\ body = Sized(value)
  <2>1. PICK e \in Seq(Nat) : e = Encoded(Len(value)) /\ IsVarint(e) /\ NumberIn(e) = Len(value)
    BY <1>3, EncodedNat
  <2>2. body = e \o value
    BY <1>3, <2>1 DEF Sized
  <2>3. Has(p, o, e) /\ Has(p, o + Len(e), value) /\ o + Len(e) \in 1..Len(p) + 1
    BY <1>3, <2>2, HasConcat
  <2>4. ReadVarint(p, o) = At(o + Len(e), Len(value))
    BY <2>1, <2>3, VarintRead
  <2>5. ReadBytes(p, o + Len(e), Len(value)) = At(o + Len(e) + Len(value), value)
    BY <1>3, <2>3, BytesRead
  <2>6. ReadDelimited(p, ReadVarint(p, o)) = ReadBytes(p, o + Len(e), Len(value))
    BY <2>3, <2>4 DEF ReadDelimited, At
  <2>7. Len(body) = Len(e) + Len(value) /\ o + Len(e) + Len(value) = o + Len(body)
    <3>1. Len(e) \in Nat /\ Len(value) \in Nat
      BY <1>3
    <3>2. Len(body) = Len(e) + Len(value)
      BY <1>3, <2>2, ConcatProperties
    <3> QED BY <3>1, <3>2
  <2> QED BY <1>3, <2>5, <2>6, <2>7 DEF ReadValue
<1> QED BY <1>1, <1>2, <1>3 DEF IsBody

(* The value of a field that is cut is not read.                              *)
LEMMA ValueCut ==
    ASSUME NEW p \in Seq(Nat), NEW o \in 1..Len(p) + 1, NEW type, NEW body, NEW value,
           IsBody(type, body, value), Cut(p, o, body)
    PROVE  ReadValue(p, o, type) = Failed
<1>1. CASE type = 0 /\ IsVarint(body) /\ value = NumberIn(body)
  BY <1>1, VarintCut DEF ReadValue
<1>2. CASE type \in {1, 5} /\ body \in Seq(Nat) /\ Len(body) = Fixed[type] /\ value = body
  <2>1. ReadBytes(p, o, Len(body)) = Failed
    BY <1>2, BytesRead
  <2> QED BY <1>2, <2>1 DEF ReadValue
<1>3. CASE type = 2 /\ value \in Seq(Nat) /\ Len(value) \in Varints /\ body = Sized(value)
  <2>1. PICK e \in Seq(Nat) : e = Encoded(Len(value)) /\ IsVarint(e) /\ NumberIn(e) = Len(value)
    BY <1>3, EncodedNat
  <2>2. body = e \o value
    BY <1>3, <2>1 DEF Sized
  <2>3. CASE Cut(p, o, e)
    <3>1. ReadVarint(p, o) = Failed
      BY <2>1, <2>3, VarintCut
    <3>2. ReadDelimited(p, ReadVarint(p, o)) = Failed
      BY <3>1 DEF ReadDelimited, Failed
    <3> QED BY <1>3, <3>2 DEF ReadValue
  <2>4. CASE Has(p, o, e) /\ Cut(p, o + Len(e), value) /\ o + Len(e) \in 1..Len(p) + 1
    <3>1. ReadVarint(p, o) = At(o + Len(e), Len(value))
      BY <2>1, <2>4, VarintRead
    <3>2. ReadBytes(p, o + Len(e), Len(value)) = Failed
      BY <1>3, <2>4, BytesRead
    <3>3. ReadDelimited(p, ReadVarint(p, o)) = ReadBytes(p, o + Len(e), Len(value))
      BY <2>4, <3>1 DEF ReadDelimited, At
    <3> QED BY <1>3, <3>2, <3>3 DEF ReadValue
  <2> QED BY <1>3, <2>1, <2>2, <2>3, <2>4, CutConcat
<1> QED BY <1>1, <1>2, <1>3 DEF IsBody

(* A key is taken apart into the number of the field and its wire type.       *)
LEMMA NumberAndWire ==
    ASSUME NEW n \in Nat, NEW w \in 0..7
    PROVE  (n * 8 + w) \div 8 = n /\ (n * 8 + w) % 8 = w
<1>1. PICK m \in Nat \ {0} : m = 8 /\ w \in 0..m - 1
  OBVIOUS
<1>2. (n * m + w) \div m = n
  BY <1>1, DivUnique
<1>3. PICK x \in Nat : x = n * m + w
  BY <1>1
<1>4. x % m \in 0..m - 1 /\ x = (x \div m) * m + (x % m)
  OBVIOUS
<1>5. x % m = w
  BY <1>1, <1>2, <1>3, <1>4
<1> QED BY <1>1, <1>2, <1>3, <1>5

(* The key of a field, and what reading the field then comes to.              *)
LEMMA KeyRead ==
    ASSUME NEW p \in Seq(Nat), NEW o \in 1..Len(p) + 1, NEW number \in Nat \ {0}, NEW type \in 0..7,
           number * 8 + type \in Varints, Has(p, o, Encoded(number * 8 + type))
    PROVE  LET value == ReadValue(p, o + Len(Encoded(number * 8 + type)), type) IN
           ReadField(p, ReadVarint(p, o)) =
               IF value.at = 0 THEN Unreadable ELSE At(value.at, <<number, type, value.value>>)
<1>1. PICK k \in Varints : k = number * 8 + type
  OBVIOUS
<1>2. PICK e \in Seq(Nat) : e = Encoded(k) /\ IsVarint(e) /\ NumberIn(e) = k
  BY EncodedNat
<1>3. ReadVarint(p, o) = At(o + Len(e), k)
  BY <1>1, <1>2, VarintRead
<1>4. k \div 8 = number /\ k % 8 = type
  <2> QED BY <1>1, NumberAndWire
<1>5. o + Len(e) # 0
  BY <1>2
<1> DEFINE value == ReadValue(p, o + Len(e), type)
<1>6. ReadField(p, ReadVarint(p, o)) = FieldOf(At(o + Len(e), k), value)
  BY <1>3, <1>4 DEF ReadField, At
<1> HIDE DEF value
<1>7. FieldOf(At(o + Len(e), k), value) = IF value.at = 0 THEN Unreadable ELSE At(value.at, <<number, type, value.value>>)
  BY <1>4, <1>5 DEF FieldOf, At
<1> QED BY <1>1, <1>2, <1>6, <1>7 DEF value

(* A field that is all there is read as it was written, and one that is cut   *)
(* is unreadable.                                                             *)
LEMMA FieldRead ==
    ASSUME NEW p \in Seq(Nat), NEW o \in 1..Len(p) + 1, NEW number \in Nat \ {0}, NEW type \in 0..7,
           number * 8 + type \in Varints, NEW body \in Seq(Nat), NEW v, IsBody(type, body, v)
    PROVE  /\ Has(p, o, Field(number, type, body)) =>
                ReadField(p, ReadVarint(p, o)) = At(o + Len(Field(number, type, body)), <<number, type, v>>)
           /\ Cut(p, o, Field(number, type, body)) => ReadField(p, ReadVarint(p, o)) = Unreadable
<1>1. PICK e \in Seq(Nat) : e = Encoded(number * 8 + type) /\ IsVarint(e) /\ Len(e) \in Nat \ {0}
  BY EncodedNat
<1>2. Field(number, type, body) = e \o body /\ Len(e \o body) = Len(e) + Len(body)
  BY <1>1, ConcatProperties DEF Field
<1> DEFINE value(q) == ReadValue(p, q, type)
           taken == ReadField(p, ReadVarint(p, o))
<1>3. Has(p, o, e) => taken = IF value(o + Len(e)).at = 0 THEN Unreadable
                            ELSE At(value(o + Len(e)).at, <<number, type, value(o + Len(e)).value>>)
  BY <1>1, KeyRead, ZenonT(30)
<1>4. ASSUME Has(p, o, e \o body)
      PROVE  taken = At(o + Len(e \o body), <<number, type, v>>)
  <2>0. e \in Seq(Nat)
    BY <1>1
  <2>1. Has(p, o, e) /\ Has(p, o + Len(e), body) /\ o + Len(e) \in 1..Len(p) + 1
    <3> HIDE DEF value, taken
    <3> QED BY <2>0, <1>4, HasConcat
  <2>2. value(o + Len(e)) = At(o + Len(e) + Len(body), v)
    BY <2>1, ValueRead
  <2>3. o + Len(e) + Len(body) # 0 /\ o + Len(e) + Len(body) = o + Len(e \o body)
    <3>1. Len(body) \in Nat
      OBVIOUS
    <3> QED BY <1>1, <1>2, <3>1
  <2> HIDE DEF value, taken
  <2> QED BY <1>3, <2>1, <2>2, <2>3 DEF At
<1>5. ASSUME Cut(p, o, e \o body) PROVE taken = Unreadable
  <2>1. CASE Cut(p, o, e)
    <3>1. ReadVarint(p, o) = Failed
      BY <1>1, <2>1, VarintCut
    <3>2. ReadField(p, Failed) = Unreadable
      BY DEF ReadField, FieldOf, Failed
    <3> QED BY <3>1, <3>2
  <2>2. CASE Has(p, o, e) /\ Cut(p, o + Len(e), body) /\ o + Len(e) \in 1..Len(p) + 1
    <3>1. value(o + Len(e)) = Failed
      BY <2>2, ValueCut
    <3> HIDE DEF value, taken
    <3> QED BY <1>3, <2>2, <3>1 DEF Failed
  <2> HIDE DEF taken
  <2> QED BY <1>1, <1>5, <2>1, <2>2, CutConcat
<1> HIDE DEF value, taken
<1>6. /\ Has(p, o, Field(number, type, body)) => taken = At(o + Len(Field(number, type, body)), <<number, type, v>>)
      /\ Cut(p, o, Field(number, type, body)) => taken = Unreadable
  BY <1>2, <1>4, <1>5
<1> QED BY <1>6 DEF taken

(* A field of a wire type that is not one of the four is unreadable,          *)
(* whatever of it is there.                                                   *)
LEMMA FieldUnknown ==
    ASSUME NEW p \in Seq(Nat), NEW o \in 1..Len(p) + 1, NEW number \in Nat \ {0}, NEW type \in 0..7,
           number * 8 + type \in Varints, NEW body \in Seq(Nat), type \notin {0, 1, 2, 5},
           Has(p, o, Field(number, type, body)) \/ Cut(p, o, Field(number, type, body))
    PROVE  ReadField(p, ReadVarint(p, o)) = Unreadable
<1>1. PICK e \in Seq(Nat) : e = Encoded(number * 8 + type) /\ IsVarint(e)
  BY EncodedNat
<1>2. Field(number, type, body) = e \o body
  BY <1>1 DEF Field
<1>3. \A q : ReadValue(p, q, type) = Failed
  BY DEF ReadValue
<1>4. CASE Has(p, o, e)
  <2>1. ReadValue(p, o + Len(e), type).at = 0
    BY <1>3 DEF Failed
  <2> QED BY <1>1, <1>4, <2>1, KeyRead, ZenonT(30)
<1>5. CASE Cut(p, o, e)
  <2>1. ReadVarint(p, o) = Failed
    BY <1>1, <1>5, VarintCut
  <2>2. ReadField(p, Failed) = Unreadable
    BY DEF ReadField, FieldOf, Failed
  <2> QED BY <2>1, <2>2
<1>6. Has(p, o, e) \/ Cut(p, o, e)
  <2>1. Has(p, o, e \o body) => Has(p, o, e)
    BY <1>1, HasConcat
  <2>2. Cut(p, o, e \o body) => Has(p, o, e) \/ Cut(p, o, e)
    BY <1>1, CutConcat
  <2> QED BY <1>2, <2>1, <2>2
<1> QED BY <1>4, <1>5, <1>6

--------------------------------------------------------------------------------
(* The fields of a payload, read one after the other.                         *)

(* Reading p from offset o to its end, or to what cannot be read, gives the   *)
(* fields fs: at[i] is where the i-th of them ends.                           *)
Gives(p, o, fs) ==
    \E ends \in [0..Len(fs) -> 0..Len(p) + 1] :
      /\ Len(fs) <= Len(p) + 1 - o /\ ends[0] = o /\ ends[Len(fs)] \in {0, Len(p) + 1}
      /\ \A i \in 1..Len(fs) : /\ ends[i - 1] \notin {0, Len(p) + 1}
                               /\ ReadField(p, ReadVarint(p, ends[i - 1])) = At(ends[i], fs[i])

Broken == <<0, 0, 0>>

(* At the end of a payload there are no more fields.                          *)
LEMMA GivesNothing ==
    ASSUME NEW p \in Seq(Nat)
    PROVE  Gives(p, Len(p) + 1, <<>>)
<1>1. PICK lp \in Nat : lp = Len(p)
  OBVIOUS
<1> DEFINE ends == [i \in 0..0 |-> lp + 1]
<1>2. ends \in [0..0 -> 0..lp + 1] /\ ends[0] = lp + 1 /\ Len(<<>>) = 0 /\ 0 <= lp + 1 - (lp + 1)
  BY <1>1
<1> HIDE DEF ends
<1>3. \A i \in 1..0 : FALSE
  OBVIOUS
<1> QED BY <1>1, <1>2, <1>3 DEF Gives

(* From an offset where no field can be read, reading gives one broken field  *)
(* and ends.                                                                  *)
LEMMA GivesBroken ==
    ASSUME NEW p \in Seq(Nat), NEW o \in 1..Len(p), ReadField(p, ReadVarint(p, o)) = Unreadable
    PROVE  Gives(p, o, <<Broken>>)
<1>1. PICK lp \in Nat : lp = Len(p)
  OBVIOUS
<1> DEFINE ends == [i \in 0..1 |-> IF i = 0 THEN o ELSE 0]
<1>2. ends \in [0..1 -> 0..lp + 1] /\ ends[0] = o /\ ends[1] = 0 /\ 1 <= lp + 1 - o /\ o \notin {0, lp + 1}
  BY <1>1
<1>3. Len(<<Broken>>) = 1 /\ <<Broken>>[1] = Broken
  OBVIOUS
<1>4. Unreadable = At(0, Broken)
  BY DEF Unreadable, Broken
<1> HIDE DEF ends
<1>5. \A i \in 1..1 : i = 1 /\ i - 1 = 0
  OBVIOUS
<1> QED BY <1>1, <1>2, <1>3, <1>4, <1>5 DEF Gives

(* A field that is read comes before the fields that are read from where it   *)
(* ends.                                                                      *)
LEMMA GivesMore ==
    ASSUME NEW S, NEW p \in Seq(Nat), NEW o \in 1..Len(p), NEW f \in S, NEW fs \in Seq(S),
           NEW next \in o + 1..Len(p) + 1, ReadField(p, ReadVarint(p, o)) = At(next, f),
           Gives(p, next, fs)
    PROVE  Gives(p, o, <<f>> \o fs)
<1>1. PICK lp \in Nat, n \in Nat : lp = Len(p) /\ n = Len(fs)
  OBVIOUS
<1>2. PICK ends \in [0..n -> 0..lp + 1] :
         /\ n <= lp + 1 - next /\ ends[0] = next /\ ends[n] \in {0, lp + 1}
         /\ \A i \in 1..n : ends[i - 1] \notin {0, lp + 1} /\ ReadField(p, ReadVarint(p, ends[i - 1])) = At(ends[i], fs[i])
  BY <1>1 DEF Gives
<1>3. PICK gs \in Seq(S) : gs = <<f>> \o fs /\ Len(gs) = n + 1 /\ gs[1] = f /\ \A i \in 1..n : gs[i + 1] = fs[i]
  <2>1. <<f>> \in Seq(S) /\ Len(<<f>>) = 1 /\ <<f>>[1] = f
    OBVIOUS
  <2>2. /\ <<f>> \o fs \in Seq(S) /\ Len(<<f>> \o fs) = 1 + n
        /\ \A i \in 1..1 + n : (<<f>> \o fs)[i] = IF i <= 1 THEN <<f>>[i] ELSE fs[i - 1]
    BY <1>1, <2>1, ConcatProperties
  <2>3. 1 \in 1..1 + n /\ \A i \in 1..n : i + 1 \in 1..1 + n /\ ~(i + 1 <= 1) /\ (i + 1) - 1 = i
    BY <1>1
  <2>4. 1 + n = n + 1
    BY <1>1
  <2>5. PICK gs \in Seq(S) : gs = <<f>> \o fs
    BY <2>2
  <2>6. Len(gs) = n + 1 /\ \A i \in 1..1 + n : gs[i] = IF i <= 1 THEN f ELSE fs[i - 1]
    BY <2>1, <2>2, <2>4, <2>5
  <2>7. gs[1] = f /\ \A i \in 1..n : gs[i + 1] = fs[i]
    BY <2>3, <2>6
  <2> QED BY <2>5, <2>6, <2>7
<1> DEFINE bt == [i \in 0..n + 1 |-> IF i = 0 THEN o ELSE ends[i - 1]]
<1>4. /\ bt \in [0..n + 1 -> 0..lp + 1] /\ bt[0] = o /\ bt[n + 1] = ends[n]
      /\ \A i \in 1..n + 1 : bt[i] = ends[i - 1]
  <2>1. \A i \in 1..n + 1 : i - 1 \in 0..n /\ i # 0 /\ i \in 0..n + 1
    BY <1>1
  <2>2. o \in 0..lp + 1 /\ 0 \in 0..n + 1 /\ n + 1 \in 1..n + 1 /\ (n + 1) - 1 = n
    BY <1>1
  <2>3. \A i \in 0..n + 1 : (IF i = 0 THEN o ELSE ends[i - 1]) \in 0..lp + 1
    <3>1. \A i \in 0..n + 1 : i = 0 \/ i \in 1..n + 1
      BY <1>1
    <3> QED BY <1>2, <2>1, <2>2, <3>1
  <2> QED BY <2>1, <2>2, <2>3
<1> HIDE DEF bt
<1>5. ASSUME NEW i \in 1..n + 1
      PROVE  bt[i - 1] \notin {0, lp + 1} /\ ReadField(p, ReadVarint(p, bt[i - 1])) = At(bt[i], gs[i])
  <2>1. CASE i = 1
    <3>1. i - 1 = 0 /\ o \notin {0, lp + 1} /\ 1 \in 1..n + 1 /\ 1 - 1 = 0
      BY <1>1, <2>1
    <3>2. bt[i - 1] = o /\ bt[i] = next /\ gs[i] = f
      BY <1>2, <1>3, <1>4, <2>1, <3>1
    <3> QED BY <3>1, <3>2
  <2>2. CASE i # 1
    <3>1. PICK j \in 1..n : i = j + 1
      <4>1. i - 1 \in 1..n /\ i = (i - 1) + 1
        BY <1>1, <2>2
      <4> QED BY <4>1
    <3>2. i - 1 = j /\ j \in 1..n + 1
      BY <1>1, <3>1
    <3>3. bt[i - 1] = ends[j - 1] /\ bt[i] = ends[j] /\ gs[i] = fs[j]
      BY <1>3, <1>4, <3>1, <3>2
    <3> QED BY <1>2, <3>3
  <2> QED BY <2>1, <2>2
<1>6. n + 1 <= lp + 1 - o
  BY <1>1, <1>2
<1>7. Gives(p, o, gs)
  <2>1. Len(gs) = n + 1 /\ Len(p) = lp
    BY <1>1, <1>3
  <2>2. /\ bt \in [0..Len(gs) -> 0..Len(p) + 1]
        /\ Len(gs) <= Len(p) + 1 - o /\ bt[0] = o /\ bt[Len(gs)] \in {0, Len(p) + 1}
        /\ \A i \in 1..Len(gs) : /\ bt[i - 1] \notin {0, Len(p) + 1}
                                 /\ ReadField(p, ReadVarint(p, bt[i - 1])) = At(bt[i], gs[i])
    BY <1>1, <1>2, <1>4, <1>5, <1>6, <2>1
  <2> QED BY <2>2 DEF Gives
<1> QED BY <1>3, <1>7

(* The fields of a payload are what reading from its first byte gives.        *)
LEMMA GivenFields ==
    ASSUME NEW S, NEW p \in Seq(Nat), NEW fs \in Seq(S), Gives(p, 1, fs)
    PROVE  FieldsOf(p) = fs
<1>1. PICK lp \in Nat, n \in Nat : lp = Len(p) /\ n = Len(fs)
  OBVIOUS
<1>2. PICK ends \in [0..n -> 0..lp + 1] :
         /\ n <= lp + 1 - 1 /\ ends[0] = 1 /\ ends[n] \in {0, lp + 1}
         /\ \A i \in 1..n : ends[i - 1] \notin {0, lp + 1} /\ ReadField(p, ReadVarint(p, ends[i - 1])) = At(ends[i], fs[i])
  BY <1>1 DEF Gives
<1>3. n \in 0..lp
  BY <1>1, <1>2
<1> DEFINE State(k) == [at |-> ends[k], fields |-> SubSeq(fs, 1, k)]
           g == [k \in 0..lp |-> State(IF k <= n THEN k ELSE n)]
           Is(f) == f = [k \in 0..lp |-> IF k = 0 THEN [at |-> 1, fields |-> <<>>] ELSE Further(p, f[k - 1])]
<1>4. State(0) = [at |-> 1, fields |-> <<>>] /\ State(n) = [at |-> ends[n], fields |-> fs]
  <2>1. SubSeq(fs, 1, 0) = <<>>
    BY SubSeqEmpty
  <2>2. SubSeq(fs, 1, n) = fs
    BY <1>1, SubSeqFull
  <2> QED BY <1>2, <2>1, <2>2
<1>5. ASSUME NEW k \in 1..n PROVE Further(p, State(k - 1)) = State(k)
  <2>1. ends[k - 1] \notin {0, lp + 1} /\ ReadField(p, ReadVarint(p, ends[k - 1])) = At(ends[k], fs[k])
    BY <1>2
  <2>2. Append(SubSeq(fs, 1, k - 1), fs[k]) = SubSeq(fs, 1, k)
    <3>1. 1 \in 1..Len(fs) /\ k \in 1..Len(fs)
      BY <1>1
    <3>2. SubSeq(fs, 1, k) = SubSeq(fs, 1, k - 1) \o <<fs[k]>>
      BY <3>1, SubSeqRecursiveSecond
    <3>3. SubSeq(fs, 1, k - 1) \in Seq(S) /\ fs[k] \in S
      <4>1. k - 1 \in 0..Len(fs)
        BY <1>1
      <4> QED BY <3>1, <4>1, SubSeqStart, ElementOfSeq
    <3>4. Append(SubSeq(fs, 1, k - 1), fs[k]) = SubSeq(fs, 1, k - 1) \o <<fs[k]>>
      BY <3>3, AppendIsConcat
    <3> QED BY <3>2, <3>4
  <2>3. State(k - 1).at = ends[k - 1] /\ State(k - 1).fields = SubSeq(fs, 1, k - 1)
    OBVIOUS
  <2>4. State(k) = [at |-> ends[k], fields |-> SubSeq(fs, 1, k)]
    OBVIOUS
  <2> HIDE DEF State
  <2>5. Further(p, State(k - 1)) = Onwards(At(ends[k], fs[k]), State(k - 1))
    BY <1>1, <2>1, <2>3 DEF Further
  <2>6. Onwards(At(ends[k], fs[k]), State(k - 1)) = [at |-> ends[k], fields |-> Append(SubSeq(fs, 1, k - 1), fs[k])]
    BY <2>3 DEF Onwards, At
  <2> QED BY <2>2, <2>4, <2>5, <2>6
<1>6. Further(p, State(n)) = State(n)
  BY <1>1, <1>2 DEF Further
<1> HIDE DEF State
<1>7. Is(g)
  <2>1. ASSUME NEW k \in 0..lp
        PROVE  g[k] = IF k = 0 THEN [at |-> 1, fields |-> <<>>] ELSE Further(p, g[k - 1])
    <3>1. CASE k = 0
      <4>1. g[k] = State(0)
        BY <1>1, <3>1
      <4> QED BY <1>4, <3>1, <4>1
    <3>2. CASE k # 0 /\ k <= n
      <4>1. k \in 1..n /\ k - 1 \in 0..lp /\ k - 1 <= n
        BY <1>1, <3>2
      <4>2. g[k] = State(k) /\ g[k - 1] = State(k - 1)
        BY <3>2, <4>1
      <4> HIDE DEF g
      <4> QED BY <1>5, <3>2, <4>1, <4>2
    <3>3. CASE k # 0 /\ ~(k <= n)
      <4>1. k - 1 \in 0..lp /\ (k - 1 <= n => k - 1 = n)
        BY <1>1, <3>3
      <4>2. g[k] = State(n) /\ g[k - 1] = State(n)
        BY <3>3, <4>1
      <4> HIDE DEF g
      <4> QED BY <1>6, <3>3, <4>2
    <3> QED BY <3>1, <3>2, <3>3
  <2>2. g = [k \in 0..lp |-> g[k]]
    OBVIOUS
  <2> HIDE DEF g
  <2> QED BY <2>1, <2>2
<1> DEFINE f == CHOOSE h : Is(h)
<1>8. Is(f)
  <2> HIDE DEF Is
  <2> QED BY <1>7
<1>9. FieldsOf(p) = f[lp].fields
  BY <1>1 DEF FieldsOf
<1>10. \A k \in 0..lp : f[k] = IF k = 0 THEN [at |-> 1, fields |-> <<>>] ELSE Further(p, f[k - 1])
  BY <1>8
<1>11. \A k \in 0..lp : g[k] = IF k = 0 THEN [at |-> 1, fields |-> <<>>] ELSE Further(p, g[k - 1])
  <2> HIDE DEF g
  <2> QED BY <1>7
<1>12. g[lp] = State(n)
  <2>1. lp \in 0..lp /\ (lp <= n => lp = n)
    BY <1>1, <1>3
  <2> QED BY <2>1
<1> HIDE DEF f, g
<1> DEFINE T == {k \in Nat : k <= lp => f[k] = g[k]}
<1>13. 0 \in T
  BY <1>1, <1>10, <1>11
<1>14. ASSUME NEW k \in Nat, k \in T PROVE k + 1 \in T
  <2>1. CASE k + 1 <= lp
    <3>1. k + 1 \in 0..lp /\ k + 1 # 0 /\ (k + 1) - 1 = k /\ k <= lp
      BY <1>1, <2>1
    <3>2. f[k] = g[k]
      BY <1>14, <3>1
    <3>3. f[k + 1] = Further(p, f[k]) /\ g[k + 1] = Further(p, g[k])
      BY <1>10, <1>11, <3>1
    <3>4. f[k + 1] = g[k + 1]
      BY <3>2, <3>3, Zenon
    <3> QED BY <3>4
  <2> QED BY <2>1
<1> HIDE DEF T
<1>15. lp \in T
  BY <1>1, <1>13, <1>14, InductionOverNat
<1>16. f[lp] = g[lp]
  BY <1>1, <1>15 DEF T
<1> QED BY <1>4, <1>9, <1>12, <1>16

--------------------------------------------------------------------------------
(* What is read of a message, or of a beginning of it.                        *)

AnyField == Nat \X Nat \X (Nat \cup Seq(Nat))
IsBroken(fs) == \E i \in 1..Len(fs) : fs[i] = Broken

(* The payload from o on is a beginning of u.                                 *)
Within(p, o, u) == Len(p) - o + 1 <= Len(u) /\ \A i \in 1..Len(p) - o + 1 : p[o + i - 1] = u[i]

(* The bytes of one field, and what they are read as; Broken if the reader    *)
(* cannot skip it.                                                            *)
Token(b, f) ==
    /\ b \in Seq(Nat) /\ Len(b) \in Nat \ {0} /\ f \in AnyField
    /\ \A p \in Seq(Nat) : \A o \in 1..Len(p) + 1 :
         /\ Has(p, o, b) => ReadField(p, ReadVarint(p, o)) =
                                IF f = Broken THEN Unreadable ELSE At(o + Len(b), f)
         /\ Cut(p, o, b) => ReadField(p, ReadVarint(p, o)) = Unreadable

(* What is read of a beginning of some fields: those that are whole, and then *)
(* at most one more that cannot be read.                                      *)
ReadOf(taken, all, whole) ==
    /\ taken \in Seq(AnyField)
    /\ \A i \in 1..Len(taken) : taken[i] = Broken \/ (i <= Len(all) /\ taken[i] = all[i])
    /\ whole => /\ IsBroken(taken) <=> IsBroken(all)
                /\ ~IsBroken(taken) => Len(taken) = Len(all)

Yields(u, all) ==
    /\ u \in Seq(Nat) /\ all \in Seq(AnyField)
    /\ \A p \in Seq(Nat) : \A o \in 1..Len(p) + 1 :
         Within(p, o, u) => \E taken : Gives(p, o, taken) /\ ReadOf(taken, all, Len(p) - o + 1 = Len(u))

(* The broken field has the type of a field.                                  *)
LEMMA BrokenType == Broken \in AnyField
  BY DEF Broken, AnyField

(* No bytes are read as no fields.                                            *)
LEMMA YieldsNothing == Yields(<<>>, <<>>)
<1>1. ASSUME NEW p \in Seq(Nat), NEW o \in 1..Len(p) + 1, Within(p, o, <<>>)
      PROVE  Gives(p, o, <<>>) /\ ReadOf(<<>>, <<>>, Len(p) - o + 1 = Len(<<>>))
  <2>1. Len(p) - o + 1 <= 0
    BY <1>1 DEF Within
  <2>2. Len(p) \in Nat /\ o = Len(p) + 1
    BY <2>1
  <2>3. ReadOf(<<>>, <<>>, TRUE) /\ ReadOf(<<>>, <<>>, FALSE)
    BY DEF ReadOf, IsBroken
  <2> QED BY <2>2, <2>3, GivesNothing
<1> QED BY <1>1 DEF Yields

(* A payload that is a beginning of two runs of bytes ends within the first,  *)
(* or goes on with the second.                                                *)
LEMMA WithinConcat ==
    ASSUME NEW p \in Seq(Nat), NEW o \in 1..Len(p) + 1, NEW a \in Seq(Nat), NEW b \in Seq(Nat),
           Within(p, o, a \o b)
    PROVE  \/ Cut(p, o, a)
           \/ /\ Has(p, o, a) /\ Within(p, o + Len(a), b) /\ o + Len(a) \in 1..Len(p) + 1
              /\ Len(p) - o + 1 = Len(a \o b) <=> Len(p) - (o + Len(a)) + 1 = Len(b)
<1>1. PICK la \in Nat, lb \in Nat, lp \in Nat : la = Len(a) /\ lb = Len(b) /\ lp = Len(p)
  OBVIOUS
<1>2. Len(a \o b) = la + lb /\ \A i \in 1..la + lb : (a \o b)[i] = IF i <= la THEN a[i] ELSE b[i - la]
  BY <1>1, ConcatProperties
<1>3. lp - o + 1 <= la + lb /\ \A i \in 1..lp - o + 1 : p[o + i - 1] = (a \o b)[i]
  BY <1>1, <1>2 DEF Within
<1>4. CASE lp - o + 1 < la
  <2>1. \A i \in 1..lp - o + 1 : i \in 1..la + lb /\ i <= la
    BY <1>1, <1>4
  <2>2. \A i \in 1..lp - o + 1 : p[o + i - 1] = a[i]
    BY <1>2, <1>3, <2>1
  <2> QED BY <1>1, <1>4, <2>2 DEF Cut
<1>5. CASE la <= lp - o + 1
  <2>1. \A i \in 1..la : p[o + i - 1] = a[i]
    <3>1. \A i \in 1..la : i \in 1..la + lb /\ i <= la /\ i \in 1..lp - o + 1
      BY <1>1, <1>5
    <3> QED BY <1>2, <1>3, <3>1
  <2>2. \A i \in 1..lp - (o + la) + 1 : p[o + la + i - 1] = b[i]
    <3> SUFFICES ASSUME NEW i \in 1..lp - (o + la) + 1 PROVE p[o + la + i - 1] = b[i]
      OBVIOUS
    <3>1. la + i \in 1..la + lb /\ ~(la + i <= la) /\ (la + i) - la = i /\ o + (la + i) - 1 = o + la + i - 1
          /\ la + i \in 1..lp - o + 1
      BY <1>1, <1>3
    <3>2. p[o + (la + i) - 1] = b[i]
      BY <1>2, <1>3, <3>1
    <3> QED BY <3>1, <3>2
  <2>3. lp - (o + la) + 1 <= lb /\ o + la \in 1..lp + 1 /\ (lp - o + 1 = la + lb <=> lp - (o + la) + 1 = lb)
    BY <1>1, <1>3, <1>5
  <2> QED BY <1>1, <1>2, <1>5, <2>1, <2>2, <2>3 DEF Within, Has
<1>6. (lp - o + 1 < la) \/ (la <= lp - o + 1)
  BY <1>1
<1> QED BY <1>4, <1>5, <1>6

(* A sequence with one more element before it.                                *)
LEMMA ConsProperties ==
    ASSUME NEW S, NEW x \in S, NEW s \in Seq(S)
    PROVE  /\ <<x>> \o s \in Seq(S) /\ Len(<<x>> \o s) = Len(s) + 1 /\ (<<x>> \o s)[1] = x
           /\ \A i \in 1..Len(s) : (<<x>> \o s)[i + 1] = s[i]
<1>1. <<x>> \in Seq(S) /\ Len(<<x>>) = 1 /\ <<x>>[1] = x /\ Len(s) \in Nat
  OBVIOUS
<1>2. /\ <<x>> \o s \in Seq(S) /\ Len(<<x>> \o s) = 1 + Len(s)
      /\ \A i \in 1..1 + Len(s) : (<<x>> \o s)[i] = IF i <= 1 THEN <<x>>[i] ELSE s[i - 1]
  BY <1>1, ConcatProperties
<1>3. PICK t : t = <<x>> \o s
  OBVIOUS
<1>4. 1 \in 1..1 + Len(s) /\ \A i \in 1..Len(s) : i + 1 \in 1..1 + Len(s) /\ ~(i + 1 <= 1) /\ (i + 1) - 1 = i
  BY <1>1
<1>5. t \in Seq(S) /\ Len(t) = Len(s) + 1 /\ t[1] = x /\ \A i \in 1..Len(s) : t[i + 1] = s[i]
  BY <1>1, <1>2, <1>3, <1>4
<1> QED BY <1>3, <1>5

(* A field before others.                                                     *)
LEMMA ReadOfMore ==
    ASSUME NEW f \in AnyField, NEW taken, NEW all \in Seq(AnyField), NEW whole \in BOOLEAN,
           f # Broken, ReadOf(taken, all, whole)
    PROVE  ReadOf(<<f>> \o taken, <<f>> \o all, whole)
<1>1. taken \in Seq(AnyField)
  BY DEF ReadOf
<1>0. /\ <<f>> \o taken \in Seq(AnyField) /\ Len(<<f>> \o taken) = Len(taken) + 1 /\ (<<f>> \o taken)[1] = f
      /\ \A i \in 1..Len(taken) : (<<f>> \o taken)[i + 1] = taken[i]
  BY <1>1, ConsProperties
<1>00. /\ <<f>> \o all \in Seq(AnyField) /\ Len(<<f>> \o all) = Len(all) + 1 /\ (<<f>> \o all)[1] = f
      /\ \A i \in 1..Len(all) : (<<f>> \o all)[i + 1] = all[i]
  BY ConsProperties
<1>2. PICK g \in Seq(AnyField) :
         g = <<f>> \o taken /\ Len(g) = Len(taken) + 1 /\ g[1] = f /\ \A i \in 1..Len(taken) : g[i + 1] = taken[i]
  BY <1>0, Zenon
<1>3. PICK a \in Seq(AnyField) :
         a = <<f>> \o all /\ Len(a) = Len(all) + 1 /\ a[1] = f /\ \A i \in 1..Len(all) : a[i + 1] = all[i]
  BY <1>00, Zenon
<1>4. PICK lg \in Nat, la \in Nat : lg = Len(taken) /\ la = Len(all)
  BY <1>1
<1>5. \A n \in Nat : \A i \in 1..n + 1 : i = 1 \/ \E j \in 1..n : i = j + 1
  <2> SUFFICES ASSUME NEW n \in Nat, NEW i \in 1..n + 1, i # 1 PROVE \E j \in 1..n : i = j + 1
    OBVIOUS
  <2>1. i - 1 \in 1..n /\ i = (i - 1) + 1
    OBVIOUS
  <2> QED BY <2>1
<1>6. \A n \in Nat : \A j \in 1..n : j + 1 \in 1..n + 1
  OBVIOUS
<1>7. IsBroken(g) <=> IsBroken(taken)
  BY <1>2, <1>4, <1>5, <1>6 DEF IsBroken
<1>8. IsBroken(a) <=> IsBroken(all)
  BY <1>3, <1>4, <1>5, <1>6 DEF IsBroken
<1>9. ASSUME NEW i \in 1..lg + 1 PROVE g[i] = Broken \/ (i <= la + 1 /\ g[i] = a[i])
  <2>1. CASE i = 1
    BY <1>2, <1>3, <1>4, <2>1
  <2>2. CASE i # 1
    <3>1. PICK j \in 1..lg : i = j + 1
      BY <1>4, <1>5, <2>2
    <3>2. taken[j] = Broken \/ (j <= la /\ taken[j] = all[j])
      BY <1>4 DEF ReadOf
    <3>3. CASE j <= la /\ taken[j] = all[j]
      <4>1. j \in 1..la /\ i <= la + 1
        BY <1>4, <3>1, <3>3
      <4> QED BY <1>2, <1>3, <1>4, <3>1, <3>3, <4>1
    <3>4. CASE taken[j] = Broken
      BY <1>2, <1>4, <3>1, <3>4
    <3> QED BY <3>2, <3>3, <3>4
  <2> QED BY <2>1, <2>2
<1>10. whole => (IsBroken(taken) <=> IsBroken(all)) /\ (~IsBroken(taken) => lg = la)
  BY <1>4 DEF ReadOf
<1>11. Len(g) = lg + 1 /\ Len(a) = la + 1
  BY <1>2, <1>3, <1>4
<1>12. ReadOf(g, a, whole)
  BY <1>7, <1>8, <1>9, <1>10, <1>11 DEF ReadOf
<1> QED BY <1>2, <1>3, <1>12

(* A broken field is all that is read of a field that is not whole.           *)
LEMMA ReadOfBroken ==
    ASSUME NEW f \in AnyField, NEW all \in Seq(AnyField), NEW whole \in BOOLEAN, whole => f = Broken
    PROVE  ReadOf(<<Broken>>, <<f>> \o all, whole)
<1>1. PICK a \in Seq(AnyField) : a = <<f>> \o all /\ Len(a) = Len(all) + 1 /\ a[1] = f
  BY ConsProperties, ZenonT(30)
<1>2. <<Broken>> \in Seq(AnyField) /\ Len(<<Broken>>) = 1 /\ <<Broken>>[1] = Broken
  BY BrokenType
<1>3. IsBroken(<<Broken>>)
  BY <1>2 DEF IsBroken
<1>4. f = Broken => IsBroken(a)
  <2>1. 1 \in 1..Len(a)
    BY <1>1
  <2> QED BY <1>1, <2>1 DEF IsBroken
<1>5. \A i \in 1..1 : <<Broken>>[i] = Broken
  BY <1>2
<1>6. ReadOf(<<Broken>>, a, whole)
  BY <1>2, <1>3, <1>4, <1>5 DEF ReadOf
<1> QED BY <1>1, <1>6

(* The bytes of a field before those of others are read as the field and      *)
(* then the others.                                                           *)
LEMMA YieldsMore ==
    ASSUME NEW b, NEW f, NEW u, NEW all, Token(b, f), Yields(u, all)
    PROVE  Yields(b \o u, <<f>> \o all)
<1>1. b \in Seq(Nat) /\ f \in AnyField /\ Len(b) \in Nat \ {0} /\ u \in Seq(Nat) /\ all \in Seq(AnyField)
  BY DEF Token, Yields
<1>2. b \o u \in Seq(Nat) /\ Len(b \o u) = Len(b) + Len(u)
  BY <1>1, ConcatProperties
<1>3. <<f>> \o all \in Seq(AnyField)
  BY <1>1, ConsProperties
<1>4. ASSUME NEW p \in Seq(Nat), NEW o \in 1..Len(p) + 1, Within(p, o, b \o u)
      PROVE  \E taken : Gives(p, o, taken) /\ ReadOf(taken, <<f>> \o all, Len(p) - o + 1 = Len(b \o u))
  <2>1. PICK whole \in BOOLEAN : whole = (Len(p) - o + 1 = Len(b \o u))
    OBVIOUS
  <2>2. CASE o = Len(p) + 1
    <3>1. Gives(p, o, <<>>)
      BY <2>2, GivesNothing
    <3>2. ~whole
      <4>1. Len(p) - o + 1 # Len(b \o u)
        <5>1. PICK lp \in Nat, lu \in Nat, lb \in Nat \ {0} : lp = Len(p) /\ lu = Len(u) /\ lb = Len(b)
          BY <1>1
        <5> QED BY <1>2, <2>2, <5>1
      <4> QED BY <2>1, <4>1
    <3>3. ReadOf(<<>>, <<f>> \o all, FALSE)
      BY DEF ReadOf
    <3> QED BY <2>1, <3>1, <3>2, <3>3
  <2>3. CASE Cut(p, o, b) /\ o # Len(p) + 1
    <3>1. ReadField(p, ReadVarint(p, o)) = Unreadable
      BY <2>3 DEF Token
    <3>2. Gives(p, o, <<Broken>>)
      BY <2>3, <3>1, GivesBroken
    <3>3. ~whole
      <4>1. Len(p) - o + 1 # Len(b \o u)
        <5>1. PICK lp \in Nat, lu \in Nat, lb \in Nat : lp = Len(p) /\ lu = Len(u) /\ lb = Len(b)
          BY <1>1
        <5>2. lp - o + 1 < lb
          BY <2>3, <5>1 DEF Cut
        <5> QED BY <1>2, <5>1, <5>2
      <4> QED BY <2>1, <4>1
    <3>4. ReadOf(<<Broken>>, <<f>> \o all, whole)
      BY <1>1, <3>3, ReadOfBroken
    <3> QED BY <2>1, <3>2, <3>4
  <2>4. CASE /\ Has(p, o, b) /\ Within(p, o + Len(b), u) /\ o + Len(b) \in 1..Len(p) + 1
             /\ Len(p) - o + 1 = Len(b \o u) <=> Len(p) - (o + Len(b)) + 1 = Len(u)
    <3>1. o \in 1..Len(p)
      BY <1>1, <2>4
    <3>2. CASE f = Broken
      <4>1. ReadField(p, ReadVarint(p, o)) = Unreadable
        BY <2>4, <3>2 DEF Token
      <4>2. Gives(p, o, <<Broken>>)
        BY <3>1, <4>1, GivesBroken
      <4>3. ReadOf(<<Broken>>, <<f>> \o all, whole)
        BY <1>1, <3>2, ReadOfBroken
      <4> QED BY <2>1, <4>2, <4>3
    <3>3. CASE f # Broken
      <4>1. ReadField(p, ReadVarint(p, o)) = At(o + Len(b), f)
        BY <2>4, <3>3 DEF Token
      <4>2. PICK taken : Gives(p, o + Len(b), taken) /\ ReadOf(taken, all, whole)
        BY <2>1, <2>4 DEF Yields
      <4>3. taken \in Seq(AnyField)
        BY <4>2 DEF ReadOf
      <4>4. o + Len(b) \in o + 1..Len(p) + 1
        BY <1>1, <2>4
      <4>5. Gives(p, o, <<f>> \o taken)
        BY <1>1, <3>1, <4>1, <4>2, <4>3, <4>4, GivesMore
      <4>6. ReadOf(<<f>> \o taken, <<f>> \o all, whole)
        BY <1>1, <3>3, <4>2, ReadOfMore
      <4> QED BY <2>1, <4>5, <4>6
    <3> QED BY <3>2, <3>3
  <2>5. \/ Cut(p, o, b)
        \/ /\ Has(p, o, b) /\ Within(p, o + Len(b), u) /\ o + Len(b) \in 1..Len(p) + 1
           /\ Len(p) - o + 1 = Len(b \o u) <=> Len(p) - (o + Len(b)) + 1 = Len(u)
    BY <1>1, <1>4, WithinConcat
  <2> QED BY <2>2, <2>3, <2>4, <2>5, Zenon
<1> QED BY <1>2, <1>3, <1>4 DEF Yields

(* What is read of a message, or of a beginning of it.                        *)
LEMMA YieldsFields ==
    ASSUME NEW u, NEW all, Yields(u, all), NEW n \in 0..Len(u)
    PROVE  ReadOf(FieldsOf(SubSeq(u, 1, n)), all, n = Len(u))
<1>1. u \in Seq(Nat) /\ all \in Seq(AnyField)
  BY DEF Yields
<1>2. PICK p \in Seq(Nat) : p = SubSeq(u, 1, n) /\ Len(p) = n /\ \A i \in 1..n : p[i] = u[i]
  BY <1>1, SubSeqStart
<1>3. Len(u) \in Nat /\ n - 1 + 1 = n /\ n \in Nat /\ \A i \in 1..n : 1 + i - 1 = i
  BY <1>1
<1>4. Within(p, 1, u)
  BY <1>2, <1>3 DEF Within
<1>5. 1 \in 1..Len(p) + 1
  BY <1>2, <1>3
<1>6. PICK taken : Gives(p, 1, taken) /\ ReadOf(taken, all, Len(p) - 1 + 1 = Len(u))
  BY <1>4, <1>5 DEF Yields
<1>7. taken \in Seq(AnyField)
  BY <1>6 DEF ReadOf
<1>8. FieldsOf(p) = taken
  BY <1>6, <1>7, GivenFields
<1> QED BY <1>2, <1>3, <1>6, <1>8

--------------------------------------------------------------------------------
(* Bytes that are read as some fields whatever follows them.                  *)

(* Bytes that are read as these fields, whatever follows.                     *)
Leads(b, fs) ==
    /\ b \in Seq(Nat) /\ fs \in Seq(AnyField)
    /\ \A u, all : Yields(u, all) => Yields(b \o u, fs \o all)

(* No bytes lead to no fields.                                                *)
LEMMA LeadsNothing == Leads(<<>>, <<>>)
<1>1. ASSUME NEW u, NEW all, Yields(u, all) PROVE Yields(<<>> \o u, <<>> \o all)
  <2>1. u \in Seq(Nat) /\ all \in Seq(AnyField)
    BY <1>1 DEF Yields
  <2>2. <<>> \o u = u /\ <<>> \o all = all
    BY <2>1, ConcatEmptySeq
  <2> QED BY <1>1, <2>2
<1>2. <<>> \in Seq(Nat) /\ <<>> \in Seq(AnyField)
  OBVIOUS
<1> QED BY <1>1, <1>2 DEF Leads

(* The bytes of a field are read as that field, whatever follows.             *)
LEMMA TokenLeads ==
    ASSUME NEW b, NEW f, Token(b, f)
    PROVE  Leads(b, <<f>>)
<1>1. b \in Seq(Nat) /\ f \in AnyField
  BY DEF Token
<1>2. <<f>> \in Seq(AnyField)
  BY <1>1
<1>3. ASSUME NEW u, NEW all, Yields(u, all) PROVE Yields(b \o u, <<f>> \o all)
  BY <1>3, YieldsMore
<1> QED BY <1>1, <1>2, <1>3 DEF Leads

(* Concatenation of fields is associative.                                    *)
LEMMA FieldsConcat ==
    ASSUME NEW s \in Seq(AnyField), NEW t \in Seq(AnyField), NEW u \in Seq(AnyField)
    PROVE  (s \o t) \o u = s \o (t \o u)
BY ConcatAssociative

(* What leads to some fields before what leads to others leads to them all.   *)
LEMMA LeadsConcat ==
    ASSUME NEW a, NEW x, NEW b, NEW y, Leads(a, x), Leads(b, y)
    PROVE  Leads(a \o b, x \o y)
<1>1. a \in Seq(Nat) /\ b \in Seq(Nat) /\ x \in Seq(AnyField) /\ y \in Seq(AnyField)
  BY DEF Leads
<1>2. a \o b \in Seq(Nat) /\ x \o y \in Seq(AnyField)
  BY <1>1, ConcatProperties
<1>3. ASSUME NEW u, NEW all, Yields(u, all) PROVE Yields((a \o b) \o u, (x \o y) \o all)
  <2>1. Yields(b \o u, y \o all)
    BY <1>3 DEF Leads
  <2>2. Yields(a \o (b \o u), x \o (y \o all))
    BY <2>1 DEF Leads
  <2>3. u \in Seq(Nat) /\ all \in Seq(AnyField)
    BY <1>3 DEF Yields
  <2>4. (a \o b) \o u = a \o (b \o u)
    <3>1. a \in Seq(Nat) /\ b \in Seq(Nat) /\ u \in Seq(Nat)
      BY <1>1, <2>3
    <3> QED BY <3>1, BytesConcat
  <2>5. (x \o y) \o all = x \o (y \o all)
    <3>1. x \in Seq(AnyField) /\ y \in Seq(AnyField) /\ all \in Seq(AnyField)
      BY <1>1, <2>3
    <3> QED BY <3>1, FieldsConcat
  <2> QED BY <2>2, <2>4, <2>5
<1> QED BY <1>2, <1>3 DEF Leads

(* What is read as some fields whatever follows is read so when nothing       *)
(* follows.                                                                   *)
LEMMA LeadsYields ==
    ASSUME NEW b, NEW fs, Leads(b, fs)
    PROVE  Yields(b, fs)
<1>1. Yields(b \o <<>>, fs \o <<>>)
  BY YieldsNothing DEF Leads
<1>2. b \in Seq(Nat) /\ fs \in Seq(AnyField)
  BY DEF Leads
<1>3. b \o <<>> = b /\ fs \o <<>> = fs
  BY <1>2, ConcatEmptySeq
<1> QED BY <1>1, <1>3

(* A field is a sequence of at least one byte.                                *)
LEMMA FieldType ==
    ASSUME NEW number \in Nat \ {0}, NEW type \in 0..7, number * 8 + type \in Varints,
           NEW body \in Seq(Nat)
    PROVE  Field(number, type, body) \in Seq(Nat) /\ Len(Field(number, type, body)) \in Nat \ {0}
<1>1. PICK e \in Seq(Nat) : e = Encoded(number * 8 + type) /\ Len(e) \in Nat \ {0}
  BY EncodedNat
<1>2. Field(number, type, body) = e \o body
  BY <1>1 DEF Field
<1>3. e \o body \in Seq(Nat) /\ Len(e \o body) = Len(e) + Len(body) /\ Len(body) \in Nat
  BY <1>1, ConcatProperties
<1> QED BY <1>1, <1>2, <1>3

(* A field as it was written.                                                 *)
LEMMA FieldToken ==
    ASSUME NEW number \in Nat \ {0}, NEW type \in 0..7, number * 8 + type \in Varints,
           NEW body, NEW value \in Nat \cup Seq(Nat), IsBody(type, body, value)
    PROVE  Token(Field(number, type, body), <<number, type, value>>)
<1>1. body \in Seq(Nat)
  BY BodyType
<1>2. PICK b \in Seq(Nat) : b = Field(number, type, body) /\ Len(b) \in Nat \ {0}
  BY <1>1, FieldType
<1>3. <<number, type, value>> \in AnyField /\ <<number, type, value>> # Broken
  BY DEF AnyField, Broken
<1>4. ASSUME NEW p \in Seq(Nat), NEW o \in 1..Len(p) + 1
      PROVE  /\ Has(p, o, b) => ReadField(p, ReadVarint(p, o)) = At(o + Len(b), <<number, type, value>>)
             /\ Cut(p, o, b) => ReadField(p, ReadVarint(p, o)) = Unreadable
  <2>1. /\ Has(p, o, Field(number, type, body)) =>
             ReadField(p, ReadVarint(p, o)) = At(o + Len(Field(number, type, body)), <<number, type, value>>)
        /\ Cut(p, o, Field(number, type, body)) => ReadField(p, ReadVarint(p, o)) = Unreadable
    BY <1>1, FieldRead
  <2> QED BY <1>2, <2>1
<1> QED BY <1>2, <1>3, <1>4 DEF Token

(* A field of a wire type that cannot be skipped.                             *)
LEMMA BrokenToken ==
    ASSUME NEW number \in Nat \ {0}, NEW type \in 0..7, number * 8 + type \in Varints,
           NEW body \in Seq(Nat), type \notin {0, 1, 2, 5}
    PROVE  Token(Field(number, type, body), Broken)
<1>1. PICK b \in Seq(Nat) : b = Field(number, type, body) /\ Len(b) \in Nat \ {0}
  BY FieldType
<1>2. ASSUME NEW p \in Seq(Nat), NEW o \in 1..Len(p) + 1
      PROVE  /\ Has(p, o, b) => ReadField(p, ReadVarint(p, o)) = Unreadable
             /\ Cut(p, o, b) => ReadField(p, ReadVarint(p, o)) = Unreadable
  BY <1>1, FieldUnknown
<1> QED BY <1>1, <1>2, BrokenType DEF Token

(* The number of any varint.                                                  *)
LEMMA NumberIsNat ==
    ASSUME NEW w, IsVarint(w)
    PROVE  NumberIn(w) \in Nat
<1>1. w \in Seq(Nat)
  BY DEF IsVarint
<1>2. PICK n \in Nat, c \in Nat \ {0, 1} : n = Len(w) /\ c = Continued
  BY <1>1, VarintConstants
<1> DEFINE d == [i \in 1..n |-> w[n + 1 - i] % c]
<1>3. d \in Seq(Nat) /\ Len(d) = n
  <2>1. \A i \in 1..n : w[n + 1 - i] % c \in Nat
    <3> SUFFICES ASSUME NEW i \in 1..n PROVE w[n + 1 - i] % c \in Nat
      OBVIOUS
    <3>1. n + 1 - i \in 1..Len(w)
      BY <1>2
    <3>2. w[n + 1 - i] \in Nat
      BY <1>1, <3>1, ElementOfSeq
    <3> QED BY <1>2, <3>2
  <2> QED BY <1>2, <2>1
<1>4. NumberIn(w) = Value(c, d)
  BY <1>2 DEF NumberIn
<1> HIDE DEF d
<1>5. Values(c, d) \in [0..n -> Nat]
  BY <1>2, <1>3, ValuesDef
<1>6. Value(c, d) = Values(c, d)[n]
  BY <1>3 DEF Value
<1>7. n \in 0..n
  BY <1>2
<1> QED BY <1>4, <1>5, <1>6, <1>7

(* The field of another version, as it is read.                               *)
OddValue(odd) == IF odd[2] = 0 THEN NumberIn(odd[3]) ELSE odd[3]
OddFields(odd) ==
    IF odd = <<>> THEN <<>>
    ELSE IF odd[2] \in {0, 1, 2, 5} THEN <<<<odd[1], odd[2], OddValue(odd)>>>> ELSE <<Broken>>

(* A field of another version is read as one unknown field, or is broken.     *)
LEMMA OddLeads ==
    ASSUME NEW odd \in Unknown
    PROVE  Leads(EncodeOdd(odd),
                 IF odd[2] \in {0, 1, 2, 5} THEN <<<<odd[1], odd[2], OddValue(odd)>>>> ELSE <<Broken>>)
<1>1. PICK number \in Nat \ {0}, type \in 0..7, data \in Seq(Nat) :
         /\ number = odd[1] /\ type = odd[2] /\ data = odd[3] /\ number * 8 + type \in Varints
         /\ type = 0 => IsVarint(data)
         /\ type \in {1, 5} => Len(data) = Fixed[type]
         /\ type = 2 => Len(data) \in Varints
  <2>1. odd[1] \in Nat \ {0} /\ odd[2] \in 0..7 /\ odd[3] \in Seq(Nat) /\ 8 * odd[1] + odd[2] \in Varints
        /\ (odd[2] = 0 => IsVarint(odd[3]))
        /\ (odd[2] \in {1, 5} => Len(odd[3]) = Fixed[odd[2]])
        /\ (odd[2] = 2 => Len(odd[3]) \in Varints)
    BY UnknownAssumption
  <2>2. \A x \in Nat : x * 8 = 8 * x
    OBVIOUS
  <2> QED BY <2>1, <2>2
<1> DEFINE body == IF type = 2 THEN Sized(data) ELSE data
<1>2. EncodeOdd(odd) = Field(number, type, body)
  BY <1>1 DEF EncodeOdd
<1>3. CASE type \in {0, 1, 2, 5}
  <2>1. PICK value \in Nat \cup Seq(Nat) : value = OddValue(odd) /\ IsBody(type, body, value)
    <3>1. CASE type = 0
      <4>1. NumberIn(data) \in Nat /\ OddValue(odd) = NumberIn(data) /\ body = data
        BY <1>1, <3>1, NumberIsNat DEF OddValue
      <4> HIDE DEF body
      <4> QED BY <1>1, <3>1, <4>1 DEF IsBody
    <3>2. CASE type \in {1, 5}
      <4>1. OddValue(odd) = data /\ body = data
        BY <1>1, <3>2 DEF OddValue
      <4> HIDE DEF body
      <4> QED BY <1>1, <3>2, <4>1 DEF IsBody
    <3>3. CASE type = 2
      <4>1. OddValue(odd) = data /\ body = Sized(data)
        BY <1>1, <3>3 DEF OddValue
      <4> HIDE DEF body
      <4> QED BY <1>1, <3>3, <4>1 DEF IsBody
    <3> QED BY <1>3, <3>1, <3>2, <3>3
  <2> HIDE DEF body
  <2>2. Token(Field(number, type, body), <<number, type, value>>)
    BY <1>1, <2>1, FieldToken
  <2> QED BY <1>1, <1>2, <1>3, <2>1, <2>2, TokenLeads
<1>4. CASE type \notin {0, 1, 2, 5}
  <2>1. body = data
    BY <1>4
  <2> HIDE DEF body
  <2>2. Token(Field(number, type, body), Broken)
    BY <1>1, <1>4, <2>1, BrokenToken
  <2> QED BY <1>1, <1>2, <1>4, <2>2, TokenLeads
<1> QED BY <1>3, <1>4

(* A message with it before or after the rest.                                *)
Around(fs, odd, first) == IF first THEN OddFields(odd) \o fs ELSE fs \o OddFields(odd)

(* A message with such a field before or after it is read as its fields with  *)
(* the odd one among them.                                                    *)
LEMMA SurroundedLeads ==
    ASSUME NEW b, NEW fs, Leads(b, fs), NEW odd \in Unknown \cup {<<>>}, NEW first \in BOOLEAN
    PROVE  Leads(Surrounded(b, odd, first), Around(fs, odd, first))
<1>1. b \in Seq(Nat) /\ fs \in Seq(AnyField)
  BY DEF Leads
<1>2. CASE odd = <<>>
  <2>1. Surrounded(b, odd, first) = b /\ OddFields(odd) = <<>>
    BY <1>2 DEF Surrounded, OddFields
  <2>2. <<>> \o fs = fs /\ fs \o <<>> = fs
    BY <1>1, ConcatEmptySeq
  <2> QED BY <2>1, <2>2 DEF Around
<1>3. CASE odd # <<>>
  <2>1. Leads(EncodeOdd(odd), OddFields(odd))
    BY <1>3, OddLeads DEF OddFields
  <2>2. Leads(EncodeOdd(odd) \o b, OddFields(odd) \o fs) /\ Leads(b \o EncodeOdd(odd), fs \o OddFields(odd))
    BY <2>1, LeadsConcat
  <2> QED BY <1>3, <2>2 DEF Surrounded, Around
<1> QED BY <1>2, <1>3

--------------------------------------------------------------------------------
(* The fields the server writes of its values.                                *)

(* The values of a kind; what is written of one, as it is read back.          *)
OfKind(kind, value) ==
    \/ kind = "string" /\ value \in Texts
    \/ kind = "enum" /\ value \in Varints
    \/ kind \in {"int64", "id"} /\ value \in Number64
    \/ kind = "bool" /\ value \in BOOLEAN
    \/ kind = "flag" /\ value \in {<<>>, <<FALSE>>, <<TRUE>>}
RawOf(kind, value) ==
    CASE kind = "string" -> value
      [] kind = "bool" -> 1
      [] kind = "flag" -> IF value = <<TRUE>> THEN 1 ELSE 0
      [] OTHER -> IF value < 0 THEN value + 2 * SignBit ELSE value
FieldFor(f, value) == <<f[1], WireOf(f[2]), RawOf(f[2], value)>>
Present(f, value) == IF value = Default(f[2]) THEN <<>> ELSE <<FieldFor(f, value)>>

(* A signed number is written as the unsigned one that the decoder turns      *)
(* back (proto.py, the sign of an int64).                                     *)
LEMMA NumberRange ==
    ASSUME NEW value \in Number64
    PROVE  /\ value \in Int
           /\ (IF value < 0 THEN value + 2 * SignBit ELSE value) \in Varints
           /\ DecodeInt64(IF value < 0 THEN value + 2 * SignBit ELSE value) = value
<1>1. PICK s \in Nat \ {0} : s = SignBit
  BY VarintConstants
<1>2. value \in -s..s - 1
  BY <1>1 DEF Number64
<1> QED BY <1>1, <1>2 DEF Varints, DecodeInt64

(* Zero and one can be written, whatever the width.                           *)
LEMMA SmallVarints == 0 \in Varints /\ 1 \in Varints
<1>1. PICK s \in Nat \ {0} : s = SignBit
  BY VarintConstants
<1> QED BY <1>1 DEF Varints

(* A field of a number is read as its number.                                 *)
LEMMA VarintField ==
    ASSUME NEW number \in Nat \ {0}, 8 * number + 7 \in Varints, NEW raw \in Varints
    PROVE  Leads(Field(number, 0, Encoded(raw)), <<<<number, 0, raw>>>>)
<1>1. number * 8 + 0 \in Varints /\ raw \in Nat
  <2>1. PICK s \in Nat \ {0} : s = SignBit
    BY VarintConstants
  <2> QED BY <2>1 DEF Varints
<1>2. IsBody(0, Encoded(raw), raw)
  BY EncodedNat DEF IsBody
<1>3. Token(Field(number, 0, Encoded(raw)), <<number, 0, raw>>)
  BY <1>1, <1>2, FieldToken
<1> QED BY <1>3, TokenLeads

(* A field of a text is read as its text.                                     *)
LEMMA DelimitedField ==
    ASSUME NEW number \in Nat \ {0}, 8 * number + 7 \in Varints, NEW text \in Texts
    PROVE  Leads(Delimited(number, text), <<<<number, 2, text>>>>)
<1>1. number * 8 + 2 \in Varints
  <2>1. PICK s \in Nat \ {0} : s = SignBit
    BY VarintConstants
  <2> QED BY <2>1 DEF Varints
<1>2. text \in Seq(Nat) /\ Len(text) \in Varints
  BY DEF Texts
<1>3. IsBody(2, Sized(text), text)
  BY <1>2 DEF IsBody
<1>4. Token(Field(number, 2, Sized(text)), <<number, 2, text>>)
  <2>1. PICK type \in 0..7 : type = 2
    OBVIOUS
  <2>11. PICK value \in Nat \cup Seq(Nat) : value = text
    <3>1. text \in Nat \cup Seq(Nat)
      BY <1>2, Zenon
    <3> QED BY <3>1, Zenon
  <2>2. Token(Field(number, type, Sized(text)), <<number, type, value>>)
    BY <1>1, <1>3, <2>1, <2>11, FieldToken
  <2> QED BY <2>1, <2>11, <2>2
<1> QED BY <1>4, TokenLeads DEF Delimited

(* A negative number is written as the number it wraps to.                    *)
LEMMA SameEncoding ==
    ASSUME NEW value \in Number64
    PROVE  Encoded(value) = Encoded(IF value < 0 THEN value + 2 * SignBit ELSE value)
<1>1. PICK s \in Nat \ {0} : s = SignBit
  BY VarintConstants
<1>2. value \in -s..s - 1
  BY <1>1 DEF Number64
<1>3. CASE value < 0
  <2>1. ~(value + 2 * s < 0)
    BY <1>2
  <2> QED BY <1>1, <1>3, <2>1 DEF Encoded
<1> QED BY <1>2, <1>3

(* What is written of a value is read as its field; of a default nothing is   *)
(* written.                                                                   *)
LEMMA FieldLeads ==
    ASSUME NEW f, f[1] \in Nat \ {0}, 8 * f[1] + 7 \in Varints, NEW value, OfKind(f[2], value)
    PROVE  Leads(EncodeField(f, value), Present(f, value))
<1>1. PICK number \in Nat \ {0} : number = f[1] /\ 8 * number + 7 \in Varints
  OBVIOUS
<1>2. CASE value = Default(f[2])
  BY <1>2, LeadsNothing DEF EncodeField, Present
<1>3. CASE value # Default(f[2])
  <2>1. EncodeField(f, value) =
            IF f[2] = "string" THEN Delimited(f[1], value)
            ELSE Field(f[1], 0, Encoded(CASE f[2] = "bool" -> 1
                                          [] f[2] = "flag" -> IF value[1] THEN 1 ELSE 0
                                          [] OTHER -> value))
    BY <1>3 DEF EncodeField
  <2>2. Present(f, value) = <<<<number, WireOf(f[2]), RawOf(f[2], value)>>>>
    BY <1>1, <1>3 DEF Present, FieldFor
  <2>3. CASE f[2] = "string" /\ value \in Texts
    <3>1. RawOf(f[2], value) = value /\ WireOf(f[2]) = 2 /\ EncodeField(f, value) = Delimited(number, value)
      BY <1>1, <2>1, <2>3 DEF RawOf, WireOf
    <3>2. Leads(Delimited(number, value), <<<<number, 2, value>>>>)
      BY <1>1, <2>3, DelimitedField
    <3> QED BY <2>2, <3>1, <3>2
  <2>4. CASE f[2] = "enum" /\ value \in Varints
    <3>1. ~(value < 0)
      <4>1. PICK s \in Nat \ {0} : s = SignBit
        BY VarintConstants
      <4> QED BY <2>4, <4>1 DEF Varints
    <3>2. RawOf(f[2], value) = value /\ WireOf(f[2]) = 0 /\ EncodeField(f, value) = Field(number, 0, Encoded(value))
      BY <1>1, <2>1, <2>4, <3>1 DEF RawOf, WireOf
    <3>3. Leads(Field(number, 0, Encoded(value)), <<<<number, 0, value>>>>)
      BY <1>1, <2>4, VarintField
    <3> QED BY <2>2, <3>2, <3>3
  <2>5. CASE f[2] \in {"int64", "id"} /\ value \in Number64
    <3>1. PICK raw \in Varints : raw = (IF value < 0 THEN value + 2 * SignBit ELSE value) /\ Encoded(value) = Encoded(raw)
      BY <2>5, NumberRange, SameEncoding
    <3>2. RawOf(f[2], value) = raw /\ WireOf(f[2]) = 0 /\ EncodeField(f, value) = Field(number, 0, Encoded(raw))
      BY <1>1, <2>1, <2>5, <3>1 DEF RawOf, WireOf
    <3>3. Leads(Field(number, 0, Encoded(raw)), <<<<number, 0, raw>>>>)
      BY <1>1, VarintField
    <3> QED BY <2>2, <3>2, <3>3
  <2>6. CASE f[2] = "bool"
    <3>1. RawOf(f[2], value) = 1 /\ WireOf(f[2]) = 0 /\ EncodeField(f, value) = Field(number, 0, Encoded(1))
      BY <1>1, <2>1, <2>6 DEF RawOf, WireOf
    <3>2. Leads(Field(number, 0, Encoded(1)), <<<<number, 0, 1>>>>)
      BY <1>1, SmallVarints, VarintField
    <3> QED BY <2>2, <3>1, <3>2
  <2>7. CASE f[2] = "flag" /\ value \in {<<>>, <<FALSE>>, <<TRUE>>}
    <3>1. value # <<>>
      BY <1>3, <2>7 DEF Default
    <3>2. PICK raw \in {0, 1} : raw = RawOf(f[2], value) /\ raw = IF value[1] THEN 1 ELSE 0
      <4>1. CASE value = <<TRUE>>
        BY <2>7, <4>1 DEF RawOf
      <4>2. CASE value = <<FALSE>>
        <5>1. value # <<TRUE>>
          <6>1. <<FALSE>>[1] = FALSE /\ <<TRUE>>[1] = TRUE
            OBVIOUS
          <6> QED BY <4>2, <6>1
        <5> QED BY <2>7, <4>2, <5>1 DEF RawOf
      <4> QED BY <2>7, <3>1, <4>1, <4>2
    <3>3. WireOf(f[2]) = 0 /\ EncodeField(f, value) = Field(number, 0, Encoded(raw))
      BY <1>1, <2>1, <2>7, <3>2 DEF WireOf
    <3>4. Leads(Field(number, 0, Encoded(raw)), <<<<number, 0, raw>>>>)
      BY <1>1, <3>2, SmallVarints, VarintField
    <3> QED BY <2>2, <3>2, <3>3, <3>4
  <2> QED BY <2>3, <2>4, <2>5, <2>6, <2>7 DEF OfKind
<1> QED BY <1>2, <1>3

(* What is written of a value that is not the default is read as this value.  *)
LEMMA RawDecoded ==
    ASSUME NEW kind, NEW value, OfKind(kind, value), value # Default(kind)
    PROVE  Decoded(kind, RawOf(kind, value)) = value
<1>1. CASE kind = "string"
  BY <1>1 DEF Decoded, RawOf
<1>2. CASE kind = "enum" /\ value \in Varints
  <2>1. ~(value < 0)
    <3>1. PICK s \in Nat \ {0} : s = SignBit
      BY VarintConstants
    <3> QED BY <1>2, <3>1 DEF Varints
  <2> QED BY <1>2, <2>1 DEF Decoded, RawOf
<1>3. CASE kind \in {"int64", "id"} /\ value \in Number64
  <2>1. RawOf(kind, value) = IF value < 0 THEN value + 2 * SignBit ELSE value
    BY <1>3 DEF RawOf
  <2>2. Decoded(kind, RawOf(kind, value)) = DecodeInt64(RawOf(kind, value))
    BY <1>3 DEF Decoded
  <2> QED BY <1>3, <2>1, <2>2, NumberRange
<1>4. CASE kind = "bool" /\ value \in BOOLEAN
  <2>1. value = TRUE
    BY <1>4 DEF Default
  <2>2. RawOf(kind, value) = 1
    BY <1>4 DEF RawOf
  <2>3. Decoded(kind, 1) = TRUE
    <3>1. kind \notin {"int64", "id"} /\ kind = "bool"
      BY <1>4
    <3>2. Decoded(kind, 1) = (1 # 0)
      BY <3>1, Zenon DEF Decoded
    <3>3. (1 # 0) = TRUE
      OBVIOUS
    <3> QED BY <3>2, <3>3, Zenon
  <2> QED BY <2>1, <2>2, <2>3
<1>5. CASE kind = "flag" /\ value \in {<<>>, <<FALSE>>, <<TRUE>>}
  <2>1. value # <<>>
    BY <1>5 DEF Default
  <2>2. Decoded(kind, 1) = <<TRUE>> /\ Decoded(kind, 0) = <<FALSE>>
    <3>1. kind \notin {"int64", "id"} /\ kind # "bool" /\ kind = "flag"
      BY <1>5
    <3>2. Decoded(kind, 1) = <<1 # 0>> /\ Decoded(kind, 0) = <<0 # 0>>
      BY <3>1, Zenon DEF Decoded
    <3>3. (1 # 0) = TRUE /\ (0 # 0) = FALSE
      OBVIOUS
    <3> QED BY <3>2, <3>3, Zenon
  <2>3. RawOf(kind, value) = IF value = <<TRUE>> THEN 1 ELSE 0
    BY <1>5 DEF RawOf
  <2> QED BY <1>5, <2>1, <2>2, <2>3
<1> QED BY <1>1, <1>2, <1>3, <1>4, <1>5 DEF OfKind

--------------------------------------------------------------------------------
(* Decoding by a table of fields.                                             *)

(* The least of some numbers is one of them.                                  *)
LEMMA MinIn ==
    ASSUME NEW T, T \subseteq Nat, T # {}
    PROVE  Min(T) \in T
<1>1. PICK n \in T : \A m \in T : n <= m
  BY LeastElement
<1>2. Min(T) = n
  BY <1>1, MinIs
<1> QED BY <1>1, <1>2

(* The greatest of some bounded numbers is one of them.                       *)
LEMMA MaxIn ==
    ASSUME NEW n \in Nat, NEW T, T \subseteq 1..n, T # {}
    PROVE  Max(T) \in T
<1> DEFINE U == {k \in Nat : n - k \in T}
           Greatest(x) == \A y \in T : x >= y
<1>1. U \subseteq Nat /\ U # {}
  <2>1. PICK x \in T : TRUE
    OBVIOUS
  <2>2. n - x \in Nat /\ n - (n - x) = x
    BY <2>1
  <2> QED BY <2>1, <2>2
<1>2. PICK k \in U : \A m \in U : k <= m
  <2> HIDE DEF U
  <2> QED BY <1>1, LeastElement
<1>3. n - k \in T /\ Greatest(n - k)
  <2>1. ASSUME NEW y \in T PROVE n - k >= y
    <3>1. n - y \in Nat /\ n - (n - y) = y
      OBVIOUS
    <3>2. n - y \in U
      BY <3>1
    <3>3. k <= n - y /\ k \in Nat /\ y \in Nat
      BY <1>2, <3>2
    <3> HIDE DEF U
    <3> QED BY <3>3
  <2> QED BY <2>1
<1>4. Max(T) = CHOOSE x \in T : Greatest(x)
  BY DEF Max
<1> HIDE DEF Greatest
<1> QED BY <1>3, <1>4

(* There is no first error exactly if there is none at all.                   *)
LEMMA FirstErrorNone ==
    ASSUME NEW n \in Nat, NEW errors, DOMAIN errors = 1..n
    PROVE  FirstError(errors) = "none" <=> \A i \in 1..n : errors[i] = "none"
<1> DEFINE T == {i \in 1..n : errors[i] # "none"}
<1>1. FirstError(errors) = IF T = {} THEN "none" ELSE errors[Min(T)]
  BY DEF FirstError
<1>2. T # {} => errors[Min(T)] # "none"
  <2>1. T \subseteq Nat
    OBVIOUS
  <2>2. T # {} => Min(T) \in T
    <3> HIDE DEF T
    <3> QED BY <2>1, MinIn
  <2> QED BY <2>2
<1> QED BY <1>1, <1>2

(* A table in which every field has its own number.                           *)
IsTable(F) ==
    /\ \A m \in DOMAIN F : F[m][1] \in Nat \ {0}
    /\ \A m, n \in DOMAIN F : F[m][1] = F[n][1] => m = n

(* A table whose fields have numbers of their own gives each number its       *)
(* kind.                                                                      *)
LEMMA KindFound ==
    ASSUME NEW F, IsTable(F)
    PROVE  /\ \A m \in DOMAIN F : KindOf(F, F[m][1]) = F[m][2]
           /\ \A k : k \notin Numbers(F) => KindOf(F, k) = "none"
<1>1. ASSUME NEW m \in DOMAIN F PROVE KindOf(F, F[m][1]) = F[m][2]
  <2> DEFINE c == CHOOSE n \in DOMAIN F : F[n][1] = F[m][1]
  <2>1. c \in DOMAIN F /\ F[c][1] = F[m][1]
    OBVIOUS
  <2>2. c = m
    <3> HIDE DEF c
    <3> QED BY <2>1 DEF IsTable
  <2>3. KindOf(F, F[m][1]) = F[c][2]
    BY DEF KindOf
  <2> QED BY <2>2, <2>3
<1>2. ASSUME NEW k, k \notin Numbers(F) PROVE KindOf(F, k) = "none"
  BY <1>2 DEF KindOf, Numbers
<1> QED BY <1>1, <1>2

(* A value that is refused.                                                   *)
Refused(kind, value) == (kind = "string" /\ Contains(value, NotUtf8)) \/ (kind = "id" /\ value < 0)

(* A field that was written is an error exactly if its value is refused.      *)
LEMMA FieldError ==
    ASSUME NEW f, f[1] \in Nat \ {0}, NEW value, OfKind(f[2], value), value # Default(f[2])
    PROVE  ErrorOf(f[2], FieldFor(f, value)) = "none" <=> ~Refused(f[2], value)
<1>1. FieldFor(f, value)[1] # 0 /\ FieldFor(f, value)[2] = WireOf(f[2])
      /\ FieldFor(f, value)[3] = RawOf(f[2], value)
  BY DEF FieldFor
<1>2. f[2] # "none"
  BY DEF OfKind
<1>3. f[2] = "string" => RawOf(f[2], value) = value
  BY DEF RawOf
<1>4. f[2] = "id" => DecodeInt64(RawOf(f[2], value)) = value
  <2> SUFFICES ASSUME f[2] = "id" PROVE DecodeInt64(RawOf(f[2], value)) = value
    OBVIOUS
  <2>1. Decoded(f[2], RawOf(f[2], value)) = value
    BY RawDecoded
  <2> QED BY <2>1 DEF Decoded
<1> QED BY <1>1, <1>2, <1>3, <1>4 DEF ErrorOf, Refused

(* A default is never refused.                                                *)
LEMMA DefaultFine ==
    ASSUME NEW kind
    PROVE  ~Refused(kind, Default(kind))
<1>1. kind = "string" => Default(kind) = <<>>
  BY DEF Default
<1>2. kind = "id" => Default(kind) = 0
  BY DEF Default
<1>3. ~Contains(<<>>, NotUtf8)
  BY DEF Contains
<1> QED BY <1>1, <1>2, <1>3 DEF Refused

(* The values of a message, by the table; what is written of it.              *)
Fits(F, d) ==
    /\ d = [m \in DOMAIN F |-> d[m]]
    /\ \A m \in DOMAIN F : OfKind(F[m][2], d[m])
Written(F, d) == {FieldFor(F[m], d[m]) : m \in {n \in DOMAIN F : d[n] # Default(F[n][2])}}
Fine(F, d) == \A m \in DOMAIN F : ~Refused(F[m][2], d[m])
Elements(s) == {s[i] : i \in 1..Len(s)}
Skipped(F) == {f \in AnyField : f = Broken \/ f[1] \notin Numbers(F) \cup {0}}

(* A broken field is an error of the protocol, whatever kind was expected.    *)
LEMMA BrokenError ==
    ASSUME NEW kind
    PROVE  ErrorOf(kind, Broken) = "AdbProtocolError"
BY DEF ErrorOf, Broken

(* The fields `all` are those of the values d and, among them, the fields odd *)
(* that the table F does not know.                                            *)
Carries(F, all, d, odd) ==
    odd \subseteq Skipped(F) /\ all \in Seq(AnyField) /\ Elements(all) = Written(F, d) \cup odd

(* The fields of a message, in any order and with any unknown ones among      *)
(* them, are decoded to its values; what can make them an error is a broken   *)
(* field or a refused value.                                                  *)
LEMMA DecodedFields ==
    ASSUME NEW F, IsTable(F), NEW d, Fits(F, d), NEW odd, NEW all, Carries(F, all, d, odd)
    PROVE  /\ ErrorIn(F, all) = "none" <=> Broken \notin odd /\ Fine(F, d)
           /\ ValuesOf(F, all) = d
<1>0. odd \subseteq Skipped(F) /\ all \in Seq(AnyField) /\ Elements(all) = Written(F, d) \cup odd
  BY DEF Carries
<1> USE <1>0
<1>1. PICK n \in Nat : n = Len(all) /\ DOMAIN all = 1..n
  OBVIOUS
<1>2. ASSUME NEW m \in DOMAIN F, d[m] # Default(F[m][2])
      PROVE  FieldFor(F[m], d[m])[1] = F[m][1] /\ F[m][1] \in Nat \ {0}
             /\ Decoded(F[m][2], FieldFor(F[m], d[m])[3]) = d[m]
             /\ (ErrorOf(KindOf(F, F[m][1]), FieldFor(F[m], d[m])) = "none" <=> ~Refused(F[m][2], d[m]))
  <2>1. OfKind(F[m][2], d[m]) /\ F[m][1] \in Nat \ {0}
    BY DEF Fits, IsTable
  <2>2. KindOf(F, F[m][1]) = F[m][2]
    BY KindFound
  <2>3. Decoded(F[m][2], RawOf(F[m][2], d[m])) = d[m]
    BY <1>2, <2>1, RawDecoded
  <2>4. ErrorOf(F[m][2], FieldFor(F[m], d[m])) = "none" <=> ~Refused(F[m][2], d[m])
    BY <1>2, <2>1, FieldError
  <2> QED BY <2>1, <2>2, <2>3, <2>4 DEF FieldFor
<1>3. ASSUME NEW f \in odd PROVE /\ ErrorOf(KindOf(F, f[1]), f) = "none" <=> f # Broken
                                 /\ \A m \in DOMAIN F : f[1] # F[m][1]
  <2>1. CASE f = Broken
    <3>1. f[1] = 0
      BY <2>1 DEF Broken
    <3>2. ErrorOf(KindOf(F, f[1]), f) # "none"
      BY <2>1, BrokenError
    <3> QED BY <2>1, <3>1, <3>2 DEF IsTable
  <2>2. CASE f # Broken
    <3>1. f[1] \notin Numbers(F) /\ f[1] # 0
      BY <2>2 DEF Skipped
    <3>2. KindOf(F, f[1]) = "none"
      BY <3>1, KindFound
    <3>3. ErrorOf("none", f) = "none"
      BY <3>1 DEF ErrorOf
    <3> QED BY <2>2, <3>1, <3>2, <3>3 DEF Numbers
  <2> QED BY <2>1, <2>2
<1> DEFINE errors == [i \in DOMAIN all |-> ErrorOf(KindOf(F, all[i][1]), all[i])]
<1>4. ErrorIn(F, all) = "none" <=> \A i \in 1..n : ErrorOf(KindOf(F, all[i][1]), all[i]) = "none"
  <2>1. DOMAIN errors = 1..n /\ \A i \in 1..n : errors[i] = ErrorOf(KindOf(F, all[i][1]), all[i])
    BY <1>1
  <2>2. ErrorIn(F, all) = FirstError(errors)
    BY DEF ErrorIn
  <2> HIDE DEF errors
  <2>3. FirstError(errors) = "none" <=> \A i \in 1..n : errors[i] = "none"
    BY <2>1, FirstErrorNone
  <2> QED BY <2>1, <2>2, <2>3
<1>5. (\A i \in 1..n : ErrorOf(KindOf(F, all[i][1]), all[i]) = "none")
        <=> \A f \in Elements(all) : ErrorOf(KindOf(F, f[1]), f) = "none"
  BY <1>1 DEF Elements
<1>6. (\A f \in Written(F, d) : ErrorOf(KindOf(F, f[1]), f) = "none")
        <=> \A m \in DOMAIN F : ~Refused(F[m][2], d[m])
  <2>1. (\A f \in Written(F, d) : ErrorOf(KindOf(F, f[1]), f) = "none")
          <=> \A m \in DOMAIN F : d[m] # Default(F[m][2]) => ~Refused(F[m][2], d[m])
    BY <1>2 DEF Written
  <2>2. \A m \in DOMAIN F : d[m] = Default(F[m][2]) => ~Refused(F[m][2], d[m])
    BY DefaultFine
  <2> QED BY <2>1, <2>2
<1>7. (\A f \in odd : ErrorOf(KindOf(F, f[1]), f) = "none") <=> Broken \notin odd
  BY <1>3
<1>8. ASSUME NEW m \in DOMAIN F PROVE LastOf(F[m], all) = d[m]
  <2> DEFINE those == {i \in DOMAIN all : all[i][1] = F[m][1]}
  <2>1. LastOf(F[m], all) = IF those = {} THEN Default(F[m][2]) ELSE Decoded(F[m][2], all[Max(those)][3])
    BY DEF LastOf
  <2>2. \A i \in those : all[i] = FieldFor(F[m], d[m]) /\ d[m] # Default(F[m][2])
    <3> SUFFICES ASSUME NEW i \in those PROVE all[i] = FieldFor(F[m], d[m]) /\ d[m] # Default(F[m][2])
      OBVIOUS
    <3>1. all[i] \in Written(F, d) \cup odd
      BY <1>1 DEF Elements
    <3>2. all[i] \notin odd
      BY <1>3
    <3>3. PICK k \in DOMAIN F : d[k] # Default(F[k][2]) /\ all[i] = FieldFor(F[k], d[k])
      BY <3>1, <3>2 DEF Written
    <3>4. F[k][1] = F[m][1]
      BY <1>2, <3>3
    <3>5. k = m
      BY <3>4 DEF IsTable
    <3> QED BY <3>3, <3>5
  <2>3. d[m] # Default(F[m][2]) => those # {}
    <3> SUFFICES ASSUME d[m] # Default(F[m][2]) PROVE those # {}
      OBVIOUS
    <3>1. FieldFor(F[m], d[m]) \in Elements(all)
      BY DEF Written
    <3>2. PICK i \in 1..n : all[i] = FieldFor(F[m], d[m])
      BY <1>1, <3>1 DEF Elements
    <3>3. i \in those
      BY <1>1, <1>2, <3>2
    <3> QED BY <3>3
  <2>4. those # {} => Max(those) \in those
    <3>1. those \subseteq 1..n
      BY <1>1
    <3> HIDE DEF those
    <3> QED BY <3>1, MaxIn
  <2> HIDE DEF those
  <2>5. CASE those = {}
    BY <2>1, <2>3, <2>5
  <2>6. CASE those # {}
    <3>1. all[Max(those)] = FieldFor(F[m], d[m]) /\ d[m] # Default(F[m][2])
      BY <2>2, <2>4, <2>6
    <3> QED BY <1>2, <2>1, <2>6, <3>1
  <2> QED BY <2>5, <2>6
<1>9. ValuesOf(F, all) = d
  <2>1. ValuesOf(F, all) = [m \in DOMAIN F |-> d[m]]
    BY <1>8 DEF ValuesOf
  <2> QED BY <2>1 DEF Fits
<1>10. (\A f \in Elements(all) : ErrorOf(KindOf(F, f[1]), f) = "none") <=>
          /\ \A f \in Written(F, d) : ErrorOf(KindOf(F, f[1]), f) = "none"
          /\ \A f \in odd : ErrorOf(KindOf(F, f[1]), f) = "none"
  OBVIOUS
<1> QED BY <1>4, <1>5, <1>6, <1>7, <1>9, <1>10 DEF Fine

--------------------------------------------------------------------------------
(* Messages with a field of another version in them.                          *)

Known(odd) == odd = <<>> \/ odd[2] \in {0, 1, 2, 5}

(* The fields of a concatenation are those of its parts.                      *)
LEMMA ElementsConcat ==
    ASSUME NEW x \in Seq(AnyField), NEW y \in Seq(AnyField)
    PROVE  Elements(x \o y) = Elements(x) \cup Elements(y)
<1>1. PICK a \in Nat, b \in Nat : a = Len(x) /\ b = Len(y)
  OBVIOUS
<1>2. Len(x \o y) = a + b /\ \A i \in 1..a + b : (x \o y)[i] = IF i <= a THEN x[i] ELSE y[i - a]
  BY <1>1, ConcatProperties
<1>3. ASSUME NEW i \in 1..a + b PROVE (x \o y)[i] \in Elements(x) \cup Elements(y)
  <2>1. CASE i <= a
    <3>1. i \in 1..a
      BY <2>1
    <3> QED BY <1>1, <1>2, <2>1, <3>1 DEF Elements
  <2>2. CASE ~(i <= a)
    <3>1. i - a \in 1..b
      BY <2>2
    <3> QED BY <1>1, <1>2, <2>2, <3>1 DEF Elements
  <2> QED BY <2>1, <2>2
<1>4. \A i \in 1..a : x[i] \in Elements(x \o y)
  <2>1. \A i \in 1..a : i \in 1..a + b /\ i <= a
    OBVIOUS
  <2> QED BY <1>2, <2>1 DEF Elements
<1>5. \A i \in 1..b : y[i] \in Elements(x \o y)
  <2> SUFFICES ASSUME NEW i \in 1..b PROVE y[i] \in Elements(x \o y)
    OBVIOUS
  <2>1. a + i \in 1..a + b /\ ~(a + i <= a) /\ (a + i) - a = i
    OBVIOUS
  <2>2. (x \o y)[a + i] = y[i]
    BY <1>2, <2>1
  <2> QED BY <1>2, <2>1, <2>2 DEF Elements
<1>6. Elements(x \o y) \subseteq Elements(x) \cup Elements(y)
  BY <1>2, <1>3 DEF Elements
<1> QED BY <1>1, <1>4, <1>5, <1>6 DEF Elements

(* The field of a value is there unless the value is the default.             *)
LEMMA ElementsOfPresent ==
    ASSUME NEW f, NEW value
    PROVE  Elements(Present(f, value)) = IF value = Default(f[2]) THEN {} ELSE {FieldFor(f, value)}
<1>1. Elements(<<>>) = {}
  BY DEF Elements
<1>2. \A x : Elements(<<x>>) = {x}
  <2> TAKE x
  <2>1. Len(<<x>>) = 1 /\ <<x>>[1] = x /\ 1..1 = {1}
    OBVIOUS
  <2> QED BY <2>1 DEF Elements
<1> QED BY <1>1, <1>2 DEF Present

(* A field of another version has a number no table knows, so that it is      *)
(* skipped, and is broken exactly if its wire type is unknown.                *)
LEMMA OddElements ==
    ASSUME NEW odd \in Unknown \cup {<<>>}
    PROVE  /\ OddFields(odd) \in Seq(AnyField)
           /\ Elements(OddFields(odd)) \subseteq Skipped(DeviceFields)
           /\ Elements(OddFields(odd)) \subseteq Skipped(StatusFields)
           /\ \A f \in Elements(OddFields(odd)) : f = Broken \/ f[1] \notin {0, 1}
           /\ Broken \in Elements(OddFields(odd)) <=> ~Known(odd)
<1>1. \A x : Elements(<<x>>) = {x}
  <2> TAKE x
  <2>1. Len(<<x>>) = 1 /\ <<x>>[1] = x /\ 1..1 = {1}
    OBVIOUS
  <2> QED BY <2>1 DEF Elements
<1>2. CASE odd = <<>>
  <2>1. OddFields(odd) = <<>> /\ Elements(<<>>) = {}
    BY <1>2 DEF OddFields, Elements
  <2>2. <<>> \in Seq(AnyField)
    OBVIOUS
  <2> QED BY <1>2, <2>1, <2>2 DEF Known
<1>3. CASE odd # <<>>
  <2>1. odd \in Unknown
    BY <1>3
  <2>2. Leads(EncodeOdd(odd), OddFields(odd))
    BY <1>3, <2>1, OddLeads DEF OddFields
  <2>3. OddFields(odd) \in Seq(AnyField)
    BY <2>2 DEF Leads
  <2>4. CASE odd[2] \in {0, 1, 2, 5}
    <3>1. PICK f : f = <<odd[1], odd[2], OddValue(odd)>>
      OBVIOUS
    <3>2. OddFields(odd) = <<f>>
      BY <1>3, <2>4, <3>1 DEF OddFields
    <3>3. Elements(OddFields(odd)) = {f}
      BY <1>1, <3>2
    <3>4. f[1] = odd[1] /\ odd[1] \notin Numbers(DeviceFields) \cup Numbers(StatusFields) \cup {0, 1}
      BY <2>1, <3>1, UnknownAssumption
    <3>5. f # Broken
      <4>1. Broken[1] = 0
        BY DEF Broken
      <4> QED BY <3>4, <4>1
    <3>6. f \in AnyField
      <4>1. Len(OddFields(odd)) = 1 /\ OddFields(odd)[1] = f /\ 1 \in 1..1
        BY <3>2
      <4> QED BY <2>3, <4>1, ElementOfSeq
    <3> QED BY <2>3, <2>4, <3>3, <3>4, <3>5, <3>6 DEF Skipped, Known
  <2>5. CASE odd[2] \notin {0, 1, 2, 5}
    <3>1. OddFields(odd) = <<Broken>>
      BY <1>3, <2>5 DEF OddFields
    <3>2. Elements(OddFields(odd)) = {Broken}
      BY <1>1, <3>1
    <3> QED BY <1>3, <2>3, <2>5, <3>2, BrokenType DEF Skipped, Known
  <2> QED BY <2>4, <2>5
<1> QED BY <1>2, <1>3

(* Where the odd field stands makes no difference to which fields there are.  *)
LEMMA AroundElements ==
    ASSUME NEW fs \in Seq(AnyField), NEW odd \in Unknown \cup {<<>>}, NEW first \in BOOLEAN
    PROVE  /\ Around(fs, odd, first) \in Seq(AnyField)
           /\ Elements(Around(fs, odd, first)) = Elements(fs) \cup Elements(OddFields(odd))
<1>1. OddFields(odd) \in Seq(AnyField)
  BY OddElements
<1>2. OddFields(odd) \o fs \in Seq(AnyField) /\ fs \o OddFields(odd) \in Seq(AnyField)
  BY <1>1, ConcatProperties
<1>3. Elements(OddFields(odd) \o fs) = Elements(fs) \cup Elements(OddFields(odd))
      /\ Elements(fs \o OddFields(odd)) = Elements(fs) \cup Elements(OddFields(odd))
  BY <1>1, ElementsConcat
<1> QED BY <1>2, <1>3 DEF Around

(* Fields are broken exactly if the broken one is among them.                 *)
LEMMA BrokenElement ==
    ASSUME NEW fs \in Seq(AnyField)
    PROVE  IsBroken(fs) <=> Broken \in Elements(fs)
BY DEF IsBroken, Elements

(* A whole message is read as it was written, or as something unreadable.     *)
LEMMA WholeRead ==
    ASSUME NEW u, NEW all, Yields(u, all)
    PROVE  /\ FieldsOf(u) \in Seq(AnyField)
           /\ Broken \in Elements(FieldsOf(u)) <=> Broken \in Elements(all)
           /\ Broken \notin Elements(all) => FieldsOf(u) = all
<1>1. u \in Seq(Nat) /\ all \in Seq(AnyField)
  BY DEF Yields
<1>2. PICK n \in 0..Len(u) : n = Len(u) /\ SubSeq(u, 1, n) = u
  <2>1. Len(u) \in 0..Len(u)
    BY <1>1
  <2> QED BY <1>1, <2>1, SubSeqFull
<1>3. ReadOf(FieldsOf(SubSeq(u, 1, n)), all, n = Len(u))
  BY YieldsFields
<1>4. PICK taken : taken = FieldsOf(u)
  OBVIOUS
<1>5. ReadOf(taken, all, TRUE)
  BY <1>2, <1>3, <1>4
<1>6. /\ taken \in Seq(AnyField)
      /\ \A i \in 1..Len(taken) : taken[i] = Broken \/ (i <= Len(all) /\ taken[i] = all[i])
      /\ IsBroken(taken) <=> IsBroken(all)
      /\ ~IsBroken(taken) => Len(taken) = Len(all)
  BY <1>5 DEF ReadOf
<1>7. ASSUME ~IsBroken(all) PROVE taken = all
  <2>1. Len(taken) = Len(all) /\ \A i \in 1..Len(taken) : taken[i] = all[i]
    BY <1>6, <1>7 DEF IsBroken
  <2> QED BY <1>1, <1>6, <2>1, SeqEqual
<1> QED BY <1>1, <1>4, <1>6, <1>7, BrokenElement

(* A broken field is an error whatever the table.                             *)
LEMMA BrokenRefused ==
    ASSUME NEW F, NEW all \in Seq(AnyField), Broken \in Elements(all)
    PROVE  ErrorIn(F, all) # "none"
<1>1. PICK n \in Nat : n = Len(all) /\ DOMAIN all = 1..n
  OBVIOUS
<1>2. PICK i \in 1..n : all[i] = Broken
  BY <1>1 DEF Elements
<1> DEFINE errors == [j \in DOMAIN all |-> ErrorOf(KindOf(F, all[j][1]), all[j])]
<1>3. DOMAIN errors = 1..n /\ errors[i] = "AdbProtocolError"
  BY <1>1, <1>2, BrokenError
<1>4. ErrorIn(F, all) = FirstError(errors)
  BY DEF ErrorIn
<1> HIDE DEF errors
<1>5. FirstError(errors) = "none" <=> \A j \in 1..n : errors[j] = "none"
  BY <1>3, FirstErrorNone
<1> QED BY <1>3, <1>4, <1>5

(* A whole message is decoded to the values it was written from, or refused   *)
(* for an unknown wire type or a refused value (proto.py 33-185).             *)
LEMMA MessageRead ==
    ASSUME NEW F, IsTable(F), NEW d, Fits(F, d), NEW b, NEW fs, Leads(b, fs),
           Elements(fs) = Written(F, d), NEW odd \in Unknown \cup {<<>>}, NEW first \in BOOLEAN,
           Elements(OddFields(odd)) \subseteq Skipped(F)
    PROVE  /\ DecodeMessage(F, Surrounded(b, odd, first)).error = "none" <=> Known(odd) /\ Fine(F, d)
           /\ Known(odd) /\ Fine(F, d) => DecodeMessage(F, Surrounded(b, odd, first)) = Message("none", d)
<1>1. PICK u : u = Surrounded(b, odd, first)
  OBVIOUS
<1>2. PICK all \in Seq(AnyField) : all = Around(fs, odd, first)
  <2>1. fs \in Seq(AnyField)
    BY DEF Leads
  <2> QED BY <2>1, AroundElements
<1>3. Yields(u, all)
  BY <1>1, <1>2, SurroundedLeads, LeadsYields
<1>4. fs \in Seq(AnyField)
  BY DEF Leads
<1>5. all \in Seq(AnyField) /\ Elements(all) = Written(F, d) \cup Elements(OddFields(odd))
  BY <1>2, <1>4, AroundElements
<1>6. Broken \in Elements(OddFields(odd)) <=> ~Known(odd)
  BY OddElements
<1>7. DecodeMessage(F, u) = MessageOf(F, FieldsOf(u), ErrorIn(F, FieldsOf(u)))
  BY DEF DecodeMessage, DecodeFields
<1>8. DecodeMessage(F, u).error = ErrorIn(F, FieldsOf(u))
      /\ (ErrorIn(F, FieldsOf(u)) = "none" => DecodeMessage(F, u) = Message("none", ValuesOf(F, FieldsOf(u))))
  BY <1>7 DEF MessageOf, Message
<1>9. CASE Broken \in Elements(all)
  <2>1. FieldsOf(u) \in Seq(AnyField) /\ Broken \in Elements(FieldsOf(u))
    BY <1>3, <1>9, WholeRead
  <2>2. ErrorIn(F, FieldsOf(u)) # "none"
    BY <2>1, BrokenRefused
  <2>3. ~(Known(odd) /\ Fine(F, d))
    <3>1. ASSUME Known(odd) PROVE Broken \in Written(F, d)
      BY <1>5, <1>6, <1>9, <3>1
    <3>2. Broken \notin Written(F, d)
      <4> SUFFICES ASSUME Broken \in Written(F, d) PROVE FALSE
        OBVIOUS
      <4>1. PICK m \in DOMAIN F : Broken = FieldFor(F[m], d[m])
        BY DEF Written
      <4>2. Broken[1] = 0 /\ FieldFor(F[m], d[m])[1] = F[m][1]
        BY DEF Broken, FieldFor
      <4> QED BY <4>1, <4>2 DEF IsTable
    <3> QED BY <3>1, <3>2
  <2> QED BY <1>1, <1>8, <2>2, <2>3
<1>10. CASE Broken \notin Elements(all)
  <2>1. FieldsOf(u) = all
    BY <1>3, <1>10, WholeRead
  <2>2. Known(odd)
    BY <1>5, <1>6, <1>10
  <2>3. /\ ErrorIn(F, all) = "none" <=> Broken \notin Elements(OddFields(odd)) /\ Fine(F, d)
        /\ ValuesOf(F, all) = d
    <3>1. Carries(F, all, d, Elements(OddFields(odd)))
      BY <1>5 DEF Carries
    <3> QED BY <3>1, DecodedFields
  <2> QED BY <1>1, <1>6, <1>8, <2>1, <2>2, <2>3
<1> QED BY <1>9, <1>10

--------------------------------------------------------------------------------
(* The two messages: a device and a status.                                   *)

(* The fields of a device and of a status, in the order they are written in.  *)
DeviceParts(d) ==
    Present(DeviceFields.serial, d.serial) \o Present(DeviceFields.state, d.state)
    \o Present(DeviceFields.connection_type, d.connection_type)
    \o Present(DeviceFields.negotiated_speed, d.negotiated_speed)
    \o Present(DeviceFields.transport_id, d.transport_id)
StatusParts(s) ==
    Present(StatusFields.usb_backend, s.usb_backend)
    \o Present(StatusFields.usb_backend_forced, s.usb_backend_forced)
    \o Present(StatusFields.version, s.version)
    \o Present(StatusFields.burst_mode, s.burst_mode)

(* The table of a device: every field has a number of its own, small enough   *)
(* to be a key.                                                               *)
LEMMA DeviceTable ==
    /\ DOMAIN DeviceFields = {"serial", "state", "connection_type", "negotiated_speed", "transport_id"}
    /\ DeviceFields.serial = <<1, "string">> /\ DeviceFields.state = <<2, "enum">>
    /\ DeviceFields.connection_type = <<7, "enum">> /\ DeviceFields.negotiated_speed = <<8, "int64">>
    /\ DeviceFields.transport_id = <<10, "id">>
    /\ IsTable(DeviceFields)
    /\ \A m \in DOMAIN DeviceFields : 8 * DeviceFields[m][1] + 7 \in Varints
<1>1. /\ DOMAIN DeviceFields = {"serial", "state", "connection_type", "negotiated_speed", "transport_id"}
      /\ DeviceFields.serial = <<1, "string">> /\ DeviceFields.state = <<2, "enum">>
      /\ DeviceFields.connection_type = <<7, "enum">> /\ DeviceFields.negotiated_speed = <<8, "int64">>
      /\ DeviceFields.transport_id = <<10, "id">>
  BY DEF DeviceFields
<1>2. IsTable(DeviceFields)
  BY <1>1 DEF IsTable
<1>3. \A m \in DOMAIN DeviceFields : 8 * DeviceFields[m][1] + 7 \in Varints
  BY ProtoAssumption DEF Numbers
<1> QED BY <1>1, <1>2, <1>3

(* The same of the table of a status.                                         *)
LEMMA StatusTable ==
    /\ DOMAIN StatusFields = {"usb_backend", "usb_backend_forced", "version", "burst_mode"}
    /\ StatusFields.usb_backend = <<1, "enum">> /\ StatusFields.usb_backend_forced = <<2, "bool">>
    /\ StatusFields.version = <<5, "string">> /\ StatusFields.burst_mode = <<11, "flag">>
    /\ IsTable(StatusFields)
    /\ \A m \in DOMAIN StatusFields : 8 * StatusFields[m][1] + 7 \in Varints
<1>1. /\ DOMAIN StatusFields = {"usb_backend", "usb_backend_forced", "version", "burst_mode"}
      /\ StatusFields.usb_backend = <<1, "enum">> /\ StatusFields.usb_backend_forced = <<2, "bool">>
      /\ StatusFields.version = <<5, "string">> /\ StatusFields.burst_mode = <<11, "flag">>
  BY DEF StatusFields
<1>2. IsTable(StatusFields)
  BY <1>1 DEF IsTable
<1>3. \A m \in DOMAIN StatusFields : 8 * StatusFields[m][1] + 7 \in Varints
  BY ProtoAssumption DEF Numbers
<1> QED BY <1>1, <1>2, <1>3

(* The values of a device are of the kinds of its table, and are refused      *)
(* only for bytes that are no text or a negative id.                          *)
LEMMA DeviceFits ==
    ASSUME NEW d \in Devices
    PROVE  /\ Fits(DeviceFields, d)
           /\ Fine(DeviceFields, d) <=> ~Contains(d.serial, NotUtf8) /\ d.transport_id >= 0
<1>1. d \in [serial : Texts, state : Varints, connection_type : Varints,
             negotiated_speed : Number64, transport_id : Number64]
  BY ProtoAssumption
<1>2. d = [m \in DOMAIN DeviceFields |-> d[m]]
  BY <1>1, DeviceTable
<1>3. \A m \in DOMAIN DeviceFields : OfKind(DeviceFields[m][2], d[m])
  <2>1. d.serial \in Texts /\ d.state \in Varints /\ d.connection_type \in Varints
        /\ d.negotiated_speed \in Number64 /\ d.transport_id \in Number64
    BY <1>1
  <2>2. OfKind("string", d.serial) /\ OfKind("enum", d.state) /\ OfKind("enum", d.connection_type)
        /\ OfKind("int64", d.negotiated_speed) /\ OfKind("id", d.transport_id)
    BY <2>1 DEF OfKind
  <2> QED BY <2>2, DeviceTable
<1>4. d.transport_id \in Int
  BY <1>1, NumberRange
<1>5. Fine(DeviceFields, d) <=> ~Contains(d.serial, NotUtf8) /\ d.transport_id >= 0
  BY <1>4, DeviceTable DEF Fine, Refused
<1> QED BY <1>2, <1>3, <1>5 DEF Fits

(* The values of a status are of the kinds of its table, and are refused      *)
(* only for a version that is no text.                                        *)
LEMMA StatusFits ==
    ASSUME NEW s \in Statuses
    PROVE  /\ Fits(StatusFields, s)
           /\ Fine(StatusFields, s) <=> ~Contains(s.version, NotUtf8)
<1>1. s \in [usb_backend : Varints, usb_backend_forced : BOOLEAN, version : Texts,
             burst_mode : {<<>>, <<FALSE>>, <<TRUE>>}]
  BY ProtoAssumption
<1>2. s = [m \in DOMAIN StatusFields |-> s[m]]
  BY <1>1, StatusTable
<1>3. \A m \in DOMAIN StatusFields : OfKind(StatusFields[m][2], s[m])
  <2>1. s.usb_backend \in Varints /\ s.usb_backend_forced \in BOOLEAN /\ s.version \in Texts
        /\ s.burst_mode \in {<<>>, <<FALSE>>, <<TRUE>>}
    BY <1>1
  <2>2. OfKind("enum", s.usb_backend) /\ OfKind("bool", s.usb_backend_forced) /\ OfKind("string", s.version)
        /\ OfKind("flag", s.burst_mode)
    BY <2>1 DEF OfKind
  <2> QED BY <2>2, StatusTable
<1>4. Fine(StatusFields, s) <=> ~Contains(s.version, NotUtf8)
  BY StatusTable DEF Fine, Refused
<1> QED BY <1>2, <1>3, <1>4 DEF Fits

(* What is written of a field of a table is read as the field, if it is       *)
(* written at all.                                                            *)
LEMMA PresentLeads ==
    ASSUME NEW F, IsTable(F), NEW d, Fits(F, d), NEW m \in DOMAIN F, 8 * F[m][1] + 7 \in Varints
    PROVE  /\ Leads(EncodeField(F[m], d[m]), Present(F[m], d[m]))
           /\ Present(F[m], d[m]) \in Seq(AnyField)
           /\ \A f : f \in Elements(Present(F[m], d[m])) <=> d[m] # Default(F[m][2]) /\ f = FieldFor(F[m], d[m])
<1>1. F[m][1] \in Nat \ {0} /\ OfKind(F[m][2], d[m])
  BY DEF IsTable, Fits
<1>2. Leads(EncodeField(F[m], d[m]), Present(F[m], d[m]))
  BY <1>1, FieldLeads
<1>3. Present(F[m], d[m]) \in Seq(AnyField)
  BY <1>2 DEF Leads
<1> QED BY <1>2, <1>3, ElementsOfPresent

(* A device is read as the fields that were written of it.                    *)
LEMMA DeviceLeads ==
    ASSUME NEW d \in Devices
    PROVE  /\ Leads(EncodeDevice(d), DeviceParts(d))
           /\ Elements(DeviceParts(d)) = Written(DeviceFields, d)
<1> DEFINE F == DeviceFields
           E(m) == EncodeField(F[m], d[m])
           P(m) == Present(F[m], d[m])
           Is(m, f) == d[m] # Default(F[m][2]) /\ f = FieldFor(F[m], d[m])
<1>1. ASSUME NEW m \in DOMAIN F
      PROVE  Leads(E(m), P(m)) /\ P(m) \in Seq(AnyField) /\ \A f : f \in Elements(P(m)) <=> Is(m, f)
  BY DeviceTable, DeviceFits, PresentLeads
<1>2. \A f : f \in Written(F, d) <=> \E m \in DOMAIN F : Is(m, f)
  BY DEF Written
<1>3. DOMAIN F = {"serial", "state", "connection_type", "negotiated_speed", "transport_id"}
  BY DeviceTable
<1>4. EncodeDevice(d) = (((E("serial") \o E("state")) \o E("connection_type")) \o E("negotiated_speed")) \o E("transport_id")
  BY DEF EncodeDevice
<1>5. DeviceParts(d) = (((P("serial") \o P("state")) \o P("connection_type")) \o P("negotiated_speed")) \o P("transport_id")
  BY DEF DeviceParts
<1> HIDE DEF F, E, P, Is
<1>6. Leads(((( E("serial") \o E("state")) \o E("connection_type")) \o E("negotiated_speed")) \o E("transport_id"),
            (((P("serial") \o P("state")) \o P("connection_type")) \o P("negotiated_speed")) \o P("transport_id"))
  <2>1. Leads(E("serial") \o E("state"), P("serial") \o P("state"))
    BY <1>1, <1>3, LeadsConcat
  <2>2. Leads((E("serial") \o E("state")) \o E("connection_type"), (P("serial") \o P("state")) \o P("connection_type"))
    BY <1>1, <1>3, <2>1, LeadsConcat
  <2>3. Leads(((E("serial") \o E("state")) \o E("connection_type")) \o E("negotiated_speed"),
              ((P("serial") \o P("state")) \o P("connection_type")) \o P("negotiated_speed"))
    BY <1>1, <1>3, <2>2, LeadsConcat
  <2> QED BY <1>1, <1>3, <2>3, LeadsConcat
<1>7. Elements((((P("serial") \o P("state")) \o P("connection_type")) \o P("negotiated_speed")) \o P("transport_id"))
        = Elements(P("serial")) \cup Elements(P("state")) \cup Elements(P("connection_type"))
          \cup Elements(P("negotiated_speed")) \cup Elements(P("transport_id"))
  <2>1. PICK a \in Seq(AnyField), b \in Seq(AnyField), c \in Seq(AnyField), g \in Seq(AnyField), h \in Seq(AnyField) :
          a = P("serial") /\ b = P("state") /\ c = P("connection_type") /\ g = P("negotiated_speed") /\ h = P("transport_id")
    BY <1>1, <1>3
  <2>2. a \o b \in Seq(AnyField) /\ Elements(a \o b) = Elements(a) \cup Elements(b)
    BY ElementsConcat, ConcatProperties
  <2>3. (a \o b) \o c \in Seq(AnyField) /\ Elements((a \o b) \o c) = Elements(a \o b) \cup Elements(c)
    BY <2>2, ElementsConcat, ConcatProperties
  <2>4. ((a \o b) \o c) \o g \in Seq(AnyField) /\ Elements(((a \o b) \o c) \o g) = Elements((a \o b) \o c) \cup Elements(g)
    BY <2>3, ElementsConcat, ConcatProperties
  <2>5. Elements((((a \o b) \o c) \o g) \o h) = Elements(((a \o b) \o c) \o g) \cup Elements(h)
    BY <2>4, ElementsConcat
  <2>6. Elements((((a \o b) \o c) \o g) \o h) = Elements(a) \cup Elements(b) \cup Elements(c) \cup Elements(g) \cup Elements(h)
    BY <2>2, <2>3, <2>4, <2>5, Zenon
  <2> QED BY <2>1, <2>6
<1>8. Elements(DeviceParts(d)) = Written(F, d)
  <2>1. \A f : f \in Elements(DeviceParts(d)) <=> \E m \in DOMAIN F : f \in Elements(P(m))
    BY <1>3, <1>5, <1>7
  <2> QED BY <1>1, <1>2, <2>1
<1> QED BY <1>4, <1>5, <1>6, <1>8 DEF F

(* A status is read as the fields that were written of it.                    *)
LEMMA StatusLeads ==
    ASSUME NEW d \in Statuses
    PROVE  /\ Leads(EncodeStatus(d), StatusParts(d))
           /\ Elements(StatusParts(d)) = Written(StatusFields, d)
<1> DEFINE F == StatusFields
           E(m) == EncodeField(F[m], d[m])
           P(m) == Present(F[m], d[m])
           Is(m, f) == d[m] # Default(F[m][2]) /\ f = FieldFor(F[m], d[m])
<1>1. ASSUME NEW m \in DOMAIN F
      PROVE  Leads(E(m), P(m)) /\ P(m) \in Seq(AnyField) /\ \A f : f \in Elements(P(m)) <=> Is(m, f)
  BY StatusTable, StatusFits, PresentLeads
<1>2. \A f : f \in Written(F, d) <=> \E m \in DOMAIN F : Is(m, f)
  BY DEF Written
<1>3. DOMAIN F = {"usb_backend", "usb_backend_forced", "version", "burst_mode"}
  BY StatusTable
<1>4. EncodeStatus(d) = ((E("usb_backend") \o E("usb_backend_forced")) \o E("version")) \o E("burst_mode")
  BY DEF EncodeStatus
<1>5. StatusParts(d) = ((P("usb_backend") \o P("usb_backend_forced")) \o P("version")) \o P("burst_mode")
  BY DEF StatusParts
<1> HIDE DEF F, E, P, Is
<1>6. Leads(((E("usb_backend") \o E("usb_backend_forced")) \o E("version")) \o E("burst_mode"),
            ((P("usb_backend") \o P("usb_backend_forced")) \o P("version")) \o P("burst_mode"))
  <2>1. Leads(E("usb_backend") \o E("usb_backend_forced"), P("usb_backend") \o P("usb_backend_forced"))
    BY <1>1, <1>3, LeadsConcat
  <2>2. Leads((E("usb_backend") \o E("usb_backend_forced")) \o E("version"),
              (P("usb_backend") \o P("usb_backend_forced")) \o P("version"))
    BY <1>1, <1>3, <2>1, LeadsConcat
  <2> QED BY <1>1, <1>3, <2>2, LeadsConcat
<1>7. Elements(((P("usb_backend") \o P("usb_backend_forced")) \o P("version")) \o P("burst_mode"))
        = Elements(P("usb_backend")) \cup Elements(P("usb_backend_forced")) \cup Elements(P("version"))
          \cup Elements(P("burst_mode"))
  <2>1. PICK a \in Seq(AnyField), b \in Seq(AnyField), c \in Seq(AnyField), g \in Seq(AnyField) :
          a = P("usb_backend") /\ b = P("usb_backend_forced") /\ c = P("version") /\ g = P("burst_mode")
    BY <1>1, <1>3
  <2>2. a \o b \in Seq(AnyField) /\ Elements(a \o b) = Elements(a) \cup Elements(b)
    BY ElementsConcat, ConcatProperties
  <2>3. (a \o b) \o c \in Seq(AnyField) /\ Elements((a \o b) \o c) = Elements(a \o b) \cup Elements(c)
    BY <2>2, ElementsConcat, ConcatProperties
  <2>4. Elements(((a \o b) \o c) \o g) = Elements((a \o b) \o c) \cup Elements(g)
    BY <2>3, ElementsConcat
  <2>5. Elements(((a \o b) \o c) \o g) = Elements(a) \cup Elements(b) \cup Elements(c) \cup Elements(g)
    BY <2>2, <2>3, <2>4, Zenon
  <2> QED BY <2>1, <2>5
<1>8. Elements(StatusParts(d)) = Written(F, d)
  <2>1. \A f : f \in Elements(StatusParts(d)) <=> \E m \in DOMAIN F : f \in Elements(P(m))
    BY <1>3, <1>5, <1>7
  <2> QED BY <1>1, <1>2, <2>1
<1> QED BY <1>4, <1>5, <1>6, <1>8 DEF F

--------------------------------------------------------------------------------
(* Rows of an inventory.                                                      *)

(* Rows one after the other are read one after the other.                     *)
LEMMA FlattenLeads ==
    ASSUME NEW rows \in Seq(Seq(Nat)), NEW fs \in Seq(AnyField), Len(fs) = Len(rows),
           \A i \in 1..Len(rows) : Leads(rows[i], <<fs[i]>>)
    PROVE  Leads(FlattenSeq(rows), fs)
<1>1. PICK n \in Nat : n = Len(rows) /\ n = Len(fs)
  OBVIOUS
<1> DEFINE U(k) == Unparsed(rows, k)
           G(k) == SubSeq(fs, k + 1, n)
           T == {j \in Nat : j <= n => Leads(U(n - j), G(n - j))}
<1>2. U(0) = FlattenSeq(rows) /\ U(n) = <<>> /\ \A k \in 0..n - 1 : U(k) = rows[k + 1] \o U(k + 1)
  BY <1>1, UnparsedSteps
<1>3. G(n) = <<>> /\ G(0) = fs
  <2>1. SubSeq(fs, n + 1, n) = <<>>
    BY <1>1, SubSeqEmpty
  <2>2. SubSeq(fs, 1, n) = fs
    BY <1>1, SubSeqFull
  <2> QED BY <2>1, <2>2
<1>4. \A k \in 0..n - 1 : G(k) = <<fs[k + 1]>> \o G(k + 1)
  <2> SUFFICES ASSUME NEW k \in 0..n - 1 PROVE G(k) = <<fs[k + 1]>> \o G(k + 1)
    OBVIOUS
  <2>1. k + 1 \in 1..Len(fs) /\ n \in k + 1..Len(fs)
    BY <1>1
  <2> QED BY <2>1, SubSeqRecursiveFirst
<1> HIDE DEF U, G
<1>5. 0 \in T
  BY <1>1, <1>2, <1>3, LeadsNothing
<1>6. ASSUME NEW j \in Nat, j \in T PROVE j + 1 \in T
  <2> SUFFICES ASSUME j + 1 <= n PROVE Leads(U(n - (j + 1)), G(n - (j + 1)))
    OBVIOUS
  <2>1. PICK k \in 0..n - 1 : k = n - (j + 1) /\ k + 1 = n - j /\ k + 1 \in 1..n
    <3>1. n - (j + 1) \in 0..n - 1 /\ (n - (j + 1)) + 1 = n - j /\ n - j \in 1..n
      BY <1>1
    <3> QED BY <3>1
  <2>2. Leads(U(k + 1), G(k + 1))
    BY <1>1, <1>6, <2>1
  <2>3. Leads(rows[k + 1], <<fs[k + 1]>>)
    BY <1>1, <2>1
  <2>4. Leads(rows[k + 1] \o U(k + 1), <<fs[k + 1]>> \o G(k + 1))
    BY <2>2, <2>3, LeadsConcat
  <2> QED BY <1>2, <1>4, <2>1, <2>4
<1> HIDE DEF T
<1>7. n \in T
  BY <1>1, <1>5, <1>6, InductionOverNat
<1>8. Leads(U(0), G(0))
  <2>1. n <= n /\ n - n = 0
    BY <1>1
  <2> QED BY <1>7, <2>1 DEF T
<1> QED BY <1>2, <1>3, <1>8

(* The sequence of the rows that are kept.                                    *)
Clamp(x, n) == IF x < 0 THEN 0 ELSE IF x > n THEN n ELSE x

(* Of a run of values standing among other fields, those that are read are a  *)
(* beginning of the run.                                                      *)
LEMMA FlattenKept ==
    ASSUME NEW S, NEW values \in Seq(S), NEW seqs \in Seq(Seq(S)), NEW off \in Nat,
           \A i \in 1..Len(seqs) :
             seqs[i] = IF off < i /\ i <= off + Len(values) THEN <<values[i - off]>> ELSE <<>>
    PROVE  FlattenSeq(seqs) = SubSeq(values, 1, Clamp(Len(seqs) - off, Len(values)))
<1>1. PICK n \in Nat, m \in Nat : n = Len(values) /\ m = Len(seqs)
  OBVIOUS
<1> DEFINE j == Joined(seqs)
           T == {k \in Nat : k <= m => j[k] = SubSeq(values, 1, Clamp(k - off, n))}
<1>2. j[0] = <<>> /\ (\A k \in 0..m : j[k] \in Seq(S)) /\ \A k \in 1..m : j[k] = j[k - 1] \o seqs[k]
  BY <1>1, JoinedDef
<1>3. FlattenSeq(seqs) = j[m]
  BY <1>1, FlattenIsJoined
<1> HIDE DEF j
<1>4. 0 \in T
  <2>1. Clamp(0 - off, n) = 0
    BY <1>1 DEF Clamp
  <2>2. SubSeq(values, 1, 0) = <<>>
    BY SubSeqEmpty
  <2> QED BY <1>2, <2>1, <2>2
<1>5. ASSUME NEW k \in Nat, k \in T PROVE k + 1 \in T
  <2> SUFFICES ASSUME k + 1 <= m PROVE j[k + 1] = SubSeq(values, 1, Clamp(k + 1 - off, n))
    BY SMTT(30)
  <2>1. k + 1 \in 1..m /\ (k + 1) - 1 = k /\ k \in 0..m
    BY <1>1
  <2>2. j[k + 1] = j[k] \o seqs[k + 1] /\ j[k] = SubSeq(values, 1, Clamp(k - off, n)) /\ j[k] \in Seq(S)
    <3>1. j[k] = SubSeq(values, 1, Clamp(k - off, n))
      BY <1>1, <1>5, <2>1
    <3>2. j[k + 1] = j[k] \o seqs[k + 1]
      <4>1. \A h \in 1..m : j[h] = j[h - 1] \o seqs[h]
        BY <1>2
      <4>2. j[k + 1] = j[(k + 1) - 1] \o seqs[k + 1]
        BY <2>1, <4>1, Zenon
      <4> QED BY <2>1, <4>2
    <3> QED BY <1>2, <2>1, <3>1, <3>2
  <2>3. CASE off < k + 1 /\ k + 1 <= off + n
    <3>1. PICK i \in 1..n : i = k + 1 - off /\ k - off = i - 1 /\ Clamp(k + 1 - off, n) = i /\ Clamp(k - off, n) = i - 1
      <4>1. k + 1 - off \in 1..n /\ k - off = (k + 1 - off) - 1
            /\ Clamp(k + 1 - off, n) = k + 1 - off /\ Clamp(k - off, n) = (k + 1 - off) - 1
        BY <1>1, <2>3 DEF Clamp
      <4> QED BY <4>1
    <3>2. seqs[k + 1] = <<values[i]>>
      <4>1. seqs[k + 1] = IF off < k + 1 /\ k + 1 <= off + n THEN <<values[k + 1 - off]>> ELSE <<>>
        BY <1>1, <2>1, SMTT(30)
      <4> QED BY <2>3, <3>1, <4>1
    <3>3. SubSeq(values, 1, i) = SubSeq(values, 1, i - 1) \o <<values[i]>>
      <4>1. 1 \in 1..Len(values) /\ i \in 1..Len(values)
        BY <1>1
      <4> QED BY <4>1, SubSeqRecursiveSecond
    <3> QED BY <2>2, <3>1, <3>2, <3>3
  <2>4. CASE ~(off < k + 1 /\ k + 1 <= off + n)
    <3>1. seqs[k + 1] = <<>>
      BY <1>1, <2>1, <2>4
    <3>2. j[k] \o <<>> = j[k]
      BY <2>2, ConcatEmptySeq
    <3>3. Clamp(k + 1 - off, n) = Clamp(k - off, n)
      BY <1>1, <2>4 DEF Clamp
    <3> QED BY <2>2, <3>1, <3>2, <3>3
  <2> QED BY <2>3, <2>4
<1> HIDE DEF T
<1>6. m \in T
  BY <1>1, <1>4, <1>5, InductionOverNat
<1> QED BY <1>1, <1>3, <1>6 DEF T

(* What the fields of an inventory are decoded to.                            *)
RowValue(f) == IF f[1] = 1 THEN <<Row(f).value>> ELSE <<>>
RowValues(taken) == [i \in 1..Len(taken) |-> RowValue(taken[i])]

(* An inventory is decoded row by row; the first row that is an error is the  *)
(* error of all of it.                                                        *)
LEMMA RowsDecoded ==
    ASSUME NEW p, NEW taken \in Seq(AnyField), FieldsOf(p) = taken
    PROVE  /\ DecodeDevices(p).error = "none" <=> \A i \in 1..Len(taken) : Row(taken[i]).error = "none"
           /\ DecodeDevices(p).error = "none" => DecodeDevices(p) = Message("none", FlattenSeq(RowValues(taken)))
<1>1. PICK n \in Nat : n = Len(taken) /\ DOMAIN taken = 1..n
  OBVIOUS
<1> DEFINE rows == RowsOf(taken)
           errors == [i \in DOMAIN taken |-> rows[i].error]
<1>2. \A i \in 1..n : rows[i] = Row(taken[i])
  BY <1>1 DEF RowsOf
<1> HIDE DEF rows
<1>3. DOMAIN errors = 1..n /\ \A i \in 1..n : errors[i] = Row(taken[i]).error
  BY <1>1, <1>2
<1>4. [i \in DOMAIN taken |-> IF taken[i][1] = 1 THEN <<rows[i].value>> ELSE <<>>] = RowValues(taken)
  BY <1>1, <1>2 DEF RowValues, RowValue
<1>5. DecodeDevices(p) = Collected(rows, taken, FirstError(errors))
  BY DEF DecodeDevices, DevicesOf, rows
<1> HIDE DEF errors
<1>6. FirstError(errors) = "none" <=> \A i \in 1..n : errors[i] = "none"
  BY <1>3, FirstErrorNone
<1>7. DecodeDevices(p).error = FirstError(errors)
      /\ (FirstError(errors) = "none" => DecodeDevices(p) = Message("none", FlattenSeq(RowValues(taken))))
  BY <1>4, <1>5, SMTT(30) DEF Collected, Message
<1> QED BY <1>1, <1>3, <1>6, <1>7

--------------------------------------------------------------------------------
(* Inventories and beginnings of them.                                        *)

(* The body of a device's row; the row and its field.                         *)
Body(d, odd, first) == Surrounded(EncodeDevice(d), odd, first)

(* The row of a device is one field, whatever its body holds.                 *)
LEMMA BodyLeads ==
    ASSUME NEW d \in Devices, NEW odd \in Unknown \cup {<<>>}, NEW first \in BOOLEAN
    PROVE  /\ Body(d, odd, first) \in Texts
           /\ Leads(Delimited(1, Body(d, odd, first)), <<<<1, 2, Body(d, odd, first)>>>>)
           /\ Delimited(1, Body(d, odd, first)) \in Seq(Nat)
           /\ <<1, 2, Body(d, odd, first)>> \in AnyField
<1>1. PICK b : b = Body(d, odd, first)
  OBVIOUS
<1>2. b \in Texts
  <2>1. Leads(b, Around(DeviceParts(d), odd, first))
    BY <1>1, DeviceLeads, SurroundedLeads DEF Body
  <2>2. b \in Seq(Nat)
    BY <2>1 DEF Leads
  <2>3. Len(b) \in Varints
    BY <1>1, UnknownAssumption DEF Body
  <2> QED BY <2>2, <2>3 DEF Texts
<1>3. PICK one \in Nat \ {0} : one = 1 /\ 8 * one + 7 \in Varints
  <2>1. "serial" \in DOMAIN DeviceFields /\ DeviceFields["serial"][1] = 1
    BY DeviceTable
  <2>2. 8 * 1 + 7 \in Varints
    BY <2>1, DeviceTable
  <2> QED BY <2>2
<1>4. Leads(Delimited(one, b), <<<<one, 2, b>>>>)
  BY <1>2, <1>3, DelimitedField
<1>5. Delimited(one, b) \in Seq(Nat)
  BY <1>4 DEF Leads
<1>6. b \in Seq(Nat)
  BY <1>2 DEF Texts
<1>7. <<1, 2, b>> \in AnyField
  BY <1>6 DEF AnyField
<1> QED BY <1>1, <1>2, <1>3, <1>4, <1>5, <1>7

(* A row is read as its device, or refused.                                   *)
LEMMA RowRead ==
    ASSUME NEW d \in Devices, NEW odd \in Unknown \cup {<<>>}, NEW first \in BOOLEAN
    PROVE  LET row == Row(<<1, 2, Body(d, odd, first)>>) IN
           /\ row.error = "none" <=> Known(odd) /\ Fine(DeviceFields, d)
           /\ row.error = "none" => row.value = d
<1>1. PICK b : b = Body(d, odd, first) /\ b = Surrounded(EncodeDevice(d), odd, first)
  BY DEF Body
<1>2. Row(<<1, 2, b>>) = DecodeMessage(DeviceFields, b)
  BY DEF Row
<1>3. IsTable(DeviceFields) /\ Fits(DeviceFields, d) /\ Leads(EncodeDevice(d), DeviceParts(d))
      /\ Elements(DeviceParts(d)) = Written(DeviceFields, d)
      /\ Elements(OddFields(odd)) \subseteq Skipped(DeviceFields)
  BY DeviceTable, DeviceFits, DeviceLeads, OddElements
<1>4. /\ DecodeMessage(DeviceFields, b).error = "none" <=> Known(odd) /\ Fine(DeviceFields, d)
      /\ Known(odd) /\ Fine(DeviceFields, d) => DecodeMessage(DeviceFields, b) = Message("none", d)
  BY <1>1, <1>3, MessageRead
<1> QED BY <1>1, <1>2, <1>4 DEF Message

(* A field that is not a row is skipped; a broken one is an error.            *)
LEMMA OtherRows ==
    /\ Row(Broken).error # "none"
    /\ \A f : f[1] \notin {0, 1} => Row(f).error = "none"
BY DEF Row, Broken, Message

(* Where the devices stand among the fields of an inventory.                  *)
PlacedAt(off, fs, all) ==
    /\ off + Len(fs) <= Len(all)
    /\ \A i \in 1..Len(all) : IF off < i /\ i <= off + Len(fs) THEN all[i] = fs[i - off]
                               ELSE all[i] = Broken \/ all[i][1] \notin {0, 1}

(* With an odd field before or after them, the devices stand together among   *)
(* the fields.                                                                *)
LEMMA Places ==
    ASSUME NEW fs \in Seq(AnyField), NEW odd \in Unknown \cup {<<>>}, NEW first \in BOOLEAN
    PROVE  \E off \in Nat : PlacedAt(off, fs, Around(fs, odd, first))
<1>1. PICK n \in Nat, all \in Seq(AnyField), o \in Seq(AnyField) :
         n = Len(fs) /\ all = Around(fs, odd, first) /\ o = OddFields(odd)
  BY OddElements, AroundElements
<1>2. PICK k \in Nat : k = Len(o)
  OBVIOUS
<1>3. \A i \in 1..k : o[i] = Broken \/ o[i][1] \notin {0, 1}
  BY <1>1, <1>2, OddElements DEF Elements
<1>4. CASE first
  <2>1. all = o \o fs
    BY <1>1, <1>4 DEF Around
  <2>2. Len(all) = k + n /\ \A i \in 1..k + n : all[i] = IF i <= k THEN o[i] ELSE fs[i - k]
    BY <1>1, <1>2, <2>1, ConcatProperties
  <2>3. \A i \in 1..Len(all) : IF k < i /\ i <= k + n THEN all[i] = fs[i - k]
                               ELSE all[i] = Broken \/ all[i][1] \notin {0, 1}
    <3> SUFFICES ASSUME NEW i \in 1..k + n
                 PROVE  IF k < i /\ i <= k + n THEN all[i] = fs[i - k]
                        ELSE all[i] = Broken \/ all[i][1] \notin {0, 1}
      BY <2>2
    <3>1. CASE i <= k
      <4>1. i \in 1..k /\ ~(k < i)
        BY <3>1
      <4> QED BY <1>3, <2>2, <3>1, <4>1
    <3>2. CASE ~(i <= k)
      BY <2>2, <3>2
    <3> QED BY <3>1, <3>2
  <2>4. PlacedAt(k, fs, all)
    BY <1>1, <2>2, <2>3 DEF PlacedAt
  <2> QED BY <1>1, <2>4
<1>5. CASE ~first
  <2>1. all = fs \o o
    BY <1>1, <1>5 DEF Around
  <2>2. Len(all) = n + k /\ \A i \in 1..n + k : all[i] = IF i <= n THEN fs[i] ELSE o[i - n]
    BY <1>1, <1>2, <2>1, ConcatProperties
  <2>3. \A i \in 1..Len(all) : IF 0 < i /\ i <= 0 + n THEN all[i] = fs[i - 0]
                               ELSE all[i] = Broken \/ all[i][1] \notin {0, 1}
    <3> SUFFICES ASSUME NEW i \in 1..n + k
                 PROVE  IF 0 < i /\ i <= 0 + n THEN all[i] = fs[i - 0]
                        ELSE all[i] = Broken \/ all[i][1] \notin {0, 1}
      BY <2>2
    <3>1. CASE i <= n
      <4>1. i - 0 = i /\ 0 < i
        OBVIOUS
      <4> QED BY <2>2, <3>1, <4>1
    <3>2. CASE ~(i <= n)
      <4>1. i - n \in 1..k
        BY <3>2
      <4> QED BY <1>3, <2>2, <3>2, <4>1
    <3> QED BY <3>1, <3>2
  <2>4. 0 \in Nat /\ 0 + n <= Len(all)
    BY <2>2
  <2>5. PlacedAt(0, fs, all)
    BY <1>1, <2>3, <2>4 DEF PlacedAt
  <2> QED BY <1>1, <2>4, <2>5
<1> QED BY <1>4, <1>5

(* The bytes of an inventory.                                                 *)
Inventory(devices, n, odd, first) ==
    Surrounded(FlattenSeq([i \in 1..n |-> Delimited(1, Body(devices[i], odd, first))]), odd, first)

RowFields(devices, n, odd, first) == [i \in 1..n |-> <<1, 2, Body(devices[i], odd, first)>>]

(* An inventory is read as the rows of its devices, in their order, with the  *)
(* odd field among them.                                                      *)
LEMMA InventoryYields ==
    ASSUME NEW n \in Nat, NEW devices \in [1..n -> Devices], NEW odd \in Unknown \cup {<<>>},
           NEW first \in BOOLEAN, NEW fs, fs = RowFields(devices, n, odd, first)
    PROVE  /\ fs \in Seq(AnyField) /\ Len(fs) = n
           /\ Yields(Inventory(devices, n, odd, first), Around(fs, odd, first))
<1>0. fs = [i \in 1..n |-> <<1, 2, Body(devices[i], odd, first)>>]
  BY DEF RowFields
<1> DEFINE rows == [i \in 1..n |-> Delimited(1, Body(devices[i], odd, first))]
<1>1. \A i \in 1..n : /\ rows[i] \in Seq(Nat) /\ fs[i] \in AnyField /\ Leads(rows[i], <<fs[i]>>)
  BY <1>0, BodyLeads
<1>2. rows \in Seq(Seq(Nat)) /\ Len(rows) = n
  <2>1. rows \in [1..n -> Seq(Nat)] /\ DOMAIN rows = 1..n
    BY <1>1
  <2> HIDE DEF rows
  <2> QED BY <2>1
<1>3. fs \in Seq(AnyField) /\ Len(fs) = n
  <2>1. fs \in [1..n -> AnyField]
    BY <1>0, <1>1
  <2> QED BY <2>1
<1>4. Inventory(devices, n, odd, first) = Surrounded(FlattenSeq(rows), odd, first)
  BY DEF Inventory
<1> HIDE DEF rows
<1>5. Leads(FlattenSeq(rows), fs)
  BY <1>1, <1>2, <1>3, FlattenLeads
<1>6. Leads(Surrounded(FlattenSeq(rows), odd, first), Around(fs, odd, first))
  BY <1>5, SurroundedLeads
<1> QED BY <1>3, <1>4, <1>6, LeadsYields

(* An inventory, or a beginning of it.                                        *)
LEMMA InventoryRead ==
    ASSUME NEW n \in Nat, NEW devices \in [1..n -> Devices], NEW odd \in Unknown \cup {<<>>},
           NEW first \in BOOLEAN, NEW u, u = Inventory(devices, n, odd, first), NEW k \in 0..Len(u),
           NEW decoded, decoded = DecodeDevices(SubSeq(u, 1, k))
    PROVE  /\ decoded.error = "none" => \E m \in 0..n : decoded = Message("none", SubSeq(devices, 1, m))
           /\ k = Len(u) => (decoded.error = "none" <=>
                               Known(odd) /\ \A i \in 1..n : Fine(DeviceFields, devices[i]))
           /\ k = Len(u) /\ decoded.error = "none" => decoded = Message("none", devices)
<1> DEFINE fieldAt(i) == <<1, 2, Body(devices[i], odd, first)>>
<1>1. PICK fs \in Seq(AnyField) : fs = [i \in 1..n |-> fieldAt(i)] /\ Len(fs) = n
  <2>1. PICK fs : fs = RowFields(devices, n, odd, first)
    OBVIOUS
  <2>2. fs \in Seq(AnyField) /\ Len(fs) = n
    BY <2>1, InventoryYields
  <2> QED BY <2>1, <2>2 DEF RowFields
<1>2. PICK all \in Seq(AnyField) : all = Around(fs, odd, first)
  BY AroundElements
<1>3. Yields(u, all)
  <2>1. fs = RowFields(devices, n, odd, first)
    BY <1>1 DEF RowFields
  <2> QED BY <1>2, <2>1, InventoryYields
<1>4. PICK taken : taken = FieldsOf(SubSeq(u, 1, k)) /\ ReadOf(taken, all, k = Len(u))
  BY <1>3, YieldsFields
<1>5. PICK lg \in Nat, la \in Nat : taken \in Seq(AnyField) /\ lg = Len(taken) /\ la = Len(all)
  BY <1>4 DEF ReadOf
<1>6. /\ \A i \in 1..lg : taken[i] = Broken \/ (i <= la /\ taken[i] = all[i])
      /\ k = Len(u) => (IsBroken(taken) <=> IsBroken(all)) /\ (~IsBroken(taken) => lg = la)
  BY <1>4, <1>5 DEF ReadOf
<1>7. PICK off \in Nat :
         /\ off + n <= la
         /\ \A i \in 1..la : IF off < i /\ i <= off + n THEN all[i] = fs[i - off]
                             ELSE all[i] = Broken \/ all[i][1] \notin {0, 1}
  <2>1. PICK off \in Nat : PlacedAt(off, fs, all)
    BY <1>2, Places
  <2> QED BY <1>1, <1>5, <2>1 DEF PlacedAt
<1> DEFINE fine == decoded.error = "none"
<1>8. /\ fine <=> \A i \in 1..lg : Row(taken[i]).error = "none"
      /\ fine => decoded = Message("none", FlattenSeq(RowValues(taken)))
  BY <1>4, <1>5, RowsDecoded
<1> HIDE DEF fine
<1>9. fine => ~IsBroken(taken)
  BY <1>5, <1>8, OtherRows DEF IsBroken
<1>10. ASSUME NEW i \in 1..la, off < i, i <= off + n
       PROVE  /\ i - off \in 1..n /\ all[i] = fieldAt(i - off) /\ all[i][1] = 1
              /\ Row(all[i]).error = "none" <=> Known(odd) /\ Fine(DeviceFields, devices[i - off])
              /\ Row(all[i]).error = "none" => Row(all[i]).value = devices[i - off]
  <2>1. PICK h \in 1..n : h = i - off
    BY <1>10
  <2>2. all[i] = fieldAt(h)
    BY <1>1, <1>7, <1>10, <2>1
  <2>3. fieldAt(h)[1] = 1
    OBVIOUS
  <2>4. /\ Row(fieldAt(h)).error = "none" <=> Known(odd) /\ Fine(DeviceFields, devices[h])
        /\ Row(fieldAt(h)).error = "none" => Row(fieldAt(h)).value = devices[h]
    BY RowRead
  <2> QED BY <2>1, <2>2, <2>3, <2>4
<1> HIDE DEF fieldAt
<1>11. devices \in Seq(Devices) /\ Len(devices) = n
  OBVIOUS
<1>12. ASSUME fine
       PROVE  /\ lg <= la /\ decoded = Message("none", SubSeq(devices, 1, Clamp(lg - off, n)))
  <2>1. \A i \in 1..lg : i <= la /\ taken[i] = all[i] /\ Row(all[i]).error = "none" /\ all[i] # Broken
    BY <1>5, <1>6, <1>8, <1>9, <1>12 DEF IsBroken
  <2>2. lg <= la
    <3>1. lg = 0 \/ lg \in 1..lg
      BY <1>5
    <3> QED BY <1>5, <2>1, <3>1
  <2> DEFINE rows == RowValues(taken)
  <2>3. \A i \in 1..lg : rows[i] = RowValue(taken[i])
    BY <1>5 DEF RowValues
  <2>4. DOMAIN rows = 1..lg
    BY <1>5 DEF RowValues
  <2>41. rows = [i \in 1..lg |-> rows[i]]
    BY <1>5 DEF RowValues
  <2> HIDE DEF rows
  <2>5. ASSUME NEW i \in 1..lg
        PROVE  /\ rows[i] = IF off < i /\ i <= off + n THEN <<devices[i - off]>> ELSE <<>>
               /\ rows[i] \in Seq(Devices)
    <3>1. i \in 1..la
      BY <1>5, <2>2
    <3>2. CASE off < i /\ i <= off + n
      <4>1. rows[i] = <<devices[i - off]>> /\ i - off \in 1..n
        <5>1. i - off \in 1..n /\ all[i][1] = 1 /\ (Row(all[i]).error = "none" => Row(all[i]).value = devices[i - off])
          BY <1>10, <3>1, <3>2
        <5>2. Row(all[i]).value = devices[i - off] /\ rows[i] = RowValue(all[i])
          BY <2>1, <2>3, <5>1
        <5> QED BY <5>1, <5>2 DEF RowValue
      <4>2. devices[i - off] \in Devices
        BY <4>1
      <4> QED BY <3>2, <4>1, <4>2
    <3>3. CASE ~(off < i /\ i <= off + n)
      <4>1. all[i][1] # 1
        BY <1>7, <2>1, <3>1, <3>3
      <4>2. rows[i] = <<>>
        BY <2>1, <2>3, <4>1 DEF RowValue
      <4> QED BY <3>3, <4>2
    <3> QED BY <3>2, <3>3
  <2>6. rows \in Seq(Seq(Devices)) /\ Len(rows) = lg
    <3>1. rows \in [1..lg -> Seq(Devices)]
      BY <2>41, <2>5
    <3>2. \A T : \A h \in [1..lg -> T] : h \in Seq(T) /\ Len(h) = lg
      BY <1>5
    <3> QED BY <3>1, <3>2, Zenon
  <2>7. FlattenSeq(rows) = SubSeq(devices, 1, Clamp(lg - off, n))
    BY <1>11, <2>5, <2>6, FlattenKept
  <2> QED BY <1>8, <1>12, <2>2, <2>7 DEF rows
<1>13. fine => \E m \in 0..n : decoded = Message("none", SubSeq(devices, 1, m))
  <2>1. Clamp(lg - off, n) \in 0..n
    BY <1>5 DEF Clamp
  <2> QED BY <1>12, <2>1
<1>14. ASSUME k = Len(u) PROVE fine <=> Known(odd) /\ \A i \in 1..n : Fine(DeviceFields, devices[i])
  <2>1. IsBroken(all) <=> Broken \in Elements(fs) \cup Elements(OddFields(odd))
    BY <1>2, BrokenElement, AroundElements, ZenonT(30)
  <2>2. Broken \notin Elements(fs)
    <3>1. \A i \in 1..n : fs[i][1] = 1
      BY <1>1 DEF fieldAt
    <3>2. Broken[1] = 0
      BY DEF Broken
    <3> QED BY <1>1, <3>1, <3>2 DEF Elements
  <2>3. IsBroken(all) <=> ~Known(odd)
    BY <2>1, <2>2, OddElements
  <2>4. CASE ~Known(odd)
    <3>1. IsBroken(taken)
      BY <1>6, <1>14, <2>3, <2>4
    <3> QED BY <1>9, <2>4, <3>1
  <2>5. CASE Known(odd)
    <3>1. ~IsBroken(taken) /\ lg = la
      BY <1>6, <1>14, <2>3, <2>5
    <3>2. \A i \in 1..la : taken[i] = all[i] /\ all[i] # Broken
      BY <1>5, <1>6, <3>1 DEF IsBroken
    <3>3. fine <=> \A i \in 1..la : Row(all[i]).error = "none"
      BY <1>8, <3>1, <3>2
    <3>4. ASSUME \A i \in 1..la : Row(all[i]).error = "none", NEW h \in 1..n
          PROVE  Fine(DeviceFields, devices[h])
      <4>1. off + h \in 1..la /\ off < off + h /\ off + h <= off + n /\ (off + h) - off = h
        BY <1>5, <1>7
      <4> QED BY <1>10, <3>4, <4>1
    <3>5. ASSUME \A h \in 1..n : Fine(DeviceFields, devices[h]), NEW i \in 1..la
          PROVE  Row(all[i]).error = "none"
      <4>1. CASE off < i /\ i <= off + n
        BY <1>10, <2>5, <3>5, <4>1
      <4>2. CASE ~(off < i /\ i <= off + n)
        <5>1. all[i][1] \notin {0, 1}
          BY <1>7, <3>2, <4>2
        <5> QED BY <5>1, OtherRows
      <4> QED BY <4>1, <4>2
    <3> QED BY <2>5, <3>3, <3>4, <3>5
  <2> QED BY <2>4, <2>5
<1>15. ASSUME k = Len(u), fine PROVE decoded = Message("none", devices)
  <2>1. lg = la
    BY <1>6, <1>9, <1>15
  <2>2. Clamp(la - off, n) = n
    BY <1>5, <1>7 DEF Clamp
  <2>3. SubSeq(devices, 1, n) = devices
    BY <1>11, SubSeqFull
  <2> QED BY <1>12, <1>15, <2>1, <2>2, <2>3
<1> QED BY <1>13, <1>14, <1>15 DEF fine

--------------------------------------------------------------------------------
(* What is read of a message is exact.                                        *)

(* What was sent is one of the messages of the server.                        *)
DevicesSent(m) ==
    \E n \in 0..MaxDevices : \E devices \in [1..n -> Devices], odd \in Unknown \cup {<<>>}, first \in BOOLEAN :
      m = [kind |-> "devices", value |-> devices, odd |-> odd, bytes |-> Inventory(devices, n, odd, first)]
StatusSent(m) ==
    \E status \in Statuses, odd \in Unknown \cup {<<>>}, first \in BOOLEAN :
      m = [kind |-> "status", value |-> status, odd |-> odd,
           bytes |-> Surrounded(EncodeStatus(status), odd, first)]

(* ReportExact of what was sent, how much of it arrived and what was read.    *)
TextsFine(m) ==
    IF m.kind = "status" THEN ~Contains(m.value.version, NotUtf8)
    ELSE \A i \in DOMAIN m.value : ~Contains(m.value[i].serial, NotUtf8) /\ m.value[i].transport_id >= 0
Exact(m, k, r) ==
    /\ k = Len(m.bytes) => (r = Message("none", m.value) <=> Known(m.odd) /\ TextsFine(m))
    /\ m.kind = "devices" /\ r.error = "none" => IsPrefix(r.value, m.value)

ProtoInv ==
    /\ sent = <<>> => read = <<>>
    /\ sent # <<>> => DevicesSent(sent[1]) \/ StatusSent(sent[1])
    /\ ReportExact

(* Of an inventory, or of any beginning of it, what is decoded is exact: all  *)
(* of it when all arrived and nothing is refused, otherwise an error or a     *)
(* beginning of the devices.                                                  *)
LEMMA DevicesExact ==
    ASSUME NEW m, DevicesSent(m), NEW k \in 0..Len(m.bytes)
    PROVE  Exact(m, k, DecodeDevices(SubSeq(m.bytes, 1, k)))
<1>0. PICK n \in Nat : \E devices \in [1..n -> Devices], odd \in Unknown \cup {<<>>}, first \in BOOLEAN :
         m = [kind |-> "devices", value |-> devices, odd |-> odd, bytes |-> Inventory(devices, n, odd, first)]
  <2>1. PICK n \in 0..MaxDevices : \E devices \in [1..n -> Devices], odd \in Unknown \cup {<<>>}, first \in BOOLEAN :
          m = [kind |-> "devices", value |-> devices, odd |-> odd, bytes |-> Inventory(devices, n, odd, first)]
    BY DEF DevicesSent
  <2>2. n \in Nat
    BY ProtoAssumption
  <2> QED BY <2>1, <2>2
<1>1. PICK devices \in [1..n -> Devices], odd \in Unknown \cup {<<>>}, first \in BOOLEAN :
         m = [kind |-> "devices", value |-> devices, odd |-> odd, bytes |-> Inventory(devices, n, odd, first)]
  BY <1>0
<1>2. PICK u : u = m.bytes /\ u = Inventory(devices, n, odd, first)
  BY <1>1
<1>3. m.kind = "devices" /\ m.value = devices /\ m.odd = odd
  BY <1>1
<1>4. PICK r : r = DecodeDevices(SubSeq(u, 1, k))
  OBVIOUS
<1>5. k \in 0..Len(u)
  BY <1>2
<1>6. /\ r.error = "none" => \E h \in 0..n : r = Message("none", SubSeq(devices, 1, h))
      /\ k = Len(u) => (r.error = "none" <=> Known(odd) /\ \A i \in 1..n : Fine(DeviceFields, devices[i]))
      /\ k = Len(u) /\ r.error = "none" => r = Message("none", devices)
  BY <1>2, <1>4, <1>5, InventoryRead
<1>7. TextsFine(m) <=> \A i \in 1..n : Fine(DeviceFields, devices[i])
  <2>1. \A i \in 1..n : Fine(DeviceFields, devices[i])
          <=> ~Contains(devices[i].serial, NotUtf8) /\ devices[i].transport_id >= 0
    BY DeviceFits
  <2>2. DOMAIN devices = 1..n
    OBVIOUS
  <2> QED BY <1>3, <2>1, <2>2 DEF TextsFine
<1>8. Message("none", devices).error = "none"
  BY DEF Message
<1>9. k = Len(u) => (r = Message("none", devices) <=> Known(odd) /\ TextsFine(m))
  BY <1>6, <1>7, <1>8
<1>10. ASSUME r.error = "none" PROVE IsPrefix(r.value, devices)
  <2>1. PICK h \in 0..n : r.value = SubSeq(devices, 1, h)
    BY <1>6, <1>10 DEF Message
  <2>2. devices \in Seq(Devices) /\ Len(devices) = n
    OBVIOUS
  <2>3. PICK s \in Seq(Devices) : s = SubSeq(devices, 1, h) /\ Len(s) = h
    BY <2>2, SubSeqStart
  <2>4. SubSeq(s, 1, h) = s
    BY <2>3, SubSeqFull
  <2> QED BY <2>1, <2>2, <2>3, <2>4 DEF IsPrefix
<1> QED BY <1>2, <1>3, <1>4, <1>9, <1>10 DEF Exact

(* Of a status the same, except that a beginning of it may leave out values.  *)
LEMMA StatusExact ==
    ASSUME NEW m, StatusSent(m), NEW k \in 0..Len(m.bytes)
    PROVE  Exact(m, k, DecodeMessage(StatusFields, SubSeq(m.bytes, 1, k)))
<1>1. PICK status \in Statuses, odd \in Unknown \cup {<<>>}, first \in BOOLEAN :
         m = [kind |-> "status", value |-> status, odd |-> odd,
              bytes |-> Surrounded(EncodeStatus(status), odd, first)]
  BY DEF StatusSent
<1>2. PICK u : u = m.bytes /\ u = Surrounded(EncodeStatus(status), odd, first)
  BY <1>1
<1>3. m.kind = "status" /\ m.value = status /\ m.odd = odd
  BY <1>1
<1>4. TextsFine(m) <=> Fine(StatusFields, status)
  BY <1>3, StatusFits DEF TextsFine
<1>5. ASSUME k = Len(u)
      PROVE  DecodeMessage(StatusFields, SubSeq(u, 1, k)) = Message("none", status)
               <=> Known(odd) /\ TextsFine(m)
  <2>1. Leads(u, Around(StatusParts(status), odd, first))
    BY <1>2, StatusLeads, SurroundedLeads
  <2>2. SubSeq(u, 1, k) = u
    <3>1. u \in Seq(Nat)
      BY <2>1 DEF Leads
    <3> QED BY <1>5, <3>1, SubSeqFull
  <2>3. IsTable(StatusFields) /\ Fits(StatusFields, status) /\ Leads(EncodeStatus(status), StatusParts(status))
        /\ Elements(StatusParts(status)) = Written(StatusFields, status)
        /\ Elements(OddFields(odd)) \subseteq Skipped(StatusFields)
    BY StatusTable, StatusFits, StatusLeads, OddElements
  <2>4. /\ DecodeMessage(StatusFields, u).error = "none" <=> Known(odd) /\ Fine(StatusFields, status)
        /\ Known(odd) /\ Fine(StatusFields, status) => DecodeMessage(StatusFields, u) = Message("none", status)
    BY <1>2, <2>3, MessageRead
  <2>5. Message("none", status).error = "none"
    BY DEF Message
  <2> QED BY <1>4, <2>2, <2>4, <2>5
<1> QED BY <1>2, <1>3, <1>5 DEF Exact

(* ReportExact speaks of one message, how much of it arrived and what was     *)
(* read.                                                                      *)
LEMMA ReadIsExact ==
    ASSUME sent # <<>>, read # <<>>
    PROVE  ReportExact <=> Exact(sent[1], arrived, read[1])
BY DEF ReportExact, Exact, Readable, TextsFine, Known

(* Before anything is sent there is nothing to be exact about.                *)
LEMMA ProtoInitInv == ProtoInit => ProtoInv
BY DEF ProtoInit, ProtoInv, ReportExact

(* Every message, cut anywhere, is read exactly.                              *)
LEMMA ProtoNextInv == ProtoInv /\ ProtoNext => ProtoInv'
<1> SUFFICES ASSUME ProtoInv, ProtoNext PROVE ProtoInv'
  OBVIOUS
<1>1. CASE SendDevices
  <2>1. PICK n \in 0..MaxDevices : \E devices \in [1..n -> Devices], odd \in Unknown \cup {<<>>}, first \in BOOLEAN :
          sent' = <<[kind |-> "devices", value |-> devices, odd |-> odd, bytes |-> Inventory(devices, n, odd, first)]>>
    BY <1>1 DEF SendDevices, Inventory, Body
  <2>2. PICK m : sent' = <<m>> /\ DevicesSent(m)
    BY <2>1 DEF DevicesSent
  <2>3. sent' # <<>> /\ sent'[1] = m
    BY <2>2
  <2>4. read' = <<>>
    BY <1>1 DEF SendDevices, ProtoInv
  <2> QED BY <2>2, <2>3, <2>4 DEF ProtoInv, ReportExact
<1>2. CASE SendStatus
  <2>1. PICK m : sent' = <<m>> /\ StatusSent(m)
    BY <1>2 DEF SendStatus, StatusSent
  <2>2. sent' # <<>> /\ sent'[1] = m
    BY <2>1
  <2>3. read' = <<>>
    BY <1>2 DEF SendStatus, ProtoInv
  <2> QED BY <2>1, <2>2, <2>3 DEF ProtoInv, ReportExact
<1>3. CASE Read
  <2>1. PICK m : m = sent[1] /\ (DevicesSent(m) \/ StatusSent(m)) /\ sent # <<>>
    BY <1>3 DEF Read, ProtoInv
  <2>2. PICK k \in 0..Len(m.bytes) :
          /\ k = arrived' /\ sent' = sent
          /\ read' = <<IF m.kind = "devices" THEN DecodeDevices(SubSeq(m.bytes, 1, k))
                       ELSE DecodeMessage(StatusFields, SubSeq(m.bytes, 1, k))>>
    BY <1>3, <2>1 DEF Read
  <2>3. CASE DevicesSent(m)
    <3>1. m.kind = "devices"
      BY <2>3 DEF DevicesSent
    <3>2. read' = <<DecodeDevices(SubSeq(m.bytes, 1, k))>>
      BY <2>2, <3>1
    <3>3. Exact(m, k, DecodeDevices(SubSeq(m.bytes, 1, k)))
      BY <2>3, DevicesExact
    <3>4. read' # <<>> /\ read'[1] = DecodeDevices(SubSeq(m.bytes, 1, k))
      BY <3>2
    <3>5. Exact(sent'[1], arrived', read'[1])
      BY <2>1, <2>2, <3>3, <3>4
    <3>6. ReportExact'
      BY <2>1, <2>2, <3>4, <3>5 DEF ReportExact, Exact, Readable, TextsFine, Known
    <3> QED BY <2>1, <2>2, <2>3, <3>6 DEF ProtoInv
  <2>4. CASE StatusSent(m)
    <3>1. m.kind = "status"
      BY <2>4 DEF StatusSent
    <3>2. read' = <<DecodeMessage(StatusFields, SubSeq(m.bytes, 1, k))>>
      BY <2>2, <3>1
    <3>3. Exact(m, k, DecodeMessage(StatusFields, SubSeq(m.bytes, 1, k)))
      BY <2>4, StatusExact
    <3>4. read' # <<>> /\ read'[1] = DecodeMessage(StatusFields, SubSeq(m.bytes, 1, k))
      BY <3>2
    <3>5. Exact(sent'[1], arrived', read'[1])
      BY <2>1, <2>2, <3>3, <3>4
    <3>6. ReportExact'
      BY <2>1, <2>2, <3>4, <3>5 DEF ReportExact, Exact, Readable, TextsFine, Known
    <3> QED BY <2>1, <2>2, <2>4, <3>6 DEF ProtoInv
  <2> QED BY <2>1, <2>3, <2>4
<1> QED BY <1>1, <1>2, <1>3 DEF ProtoNext

(* What the client makes of a device list or a server status is exact, for    *)
(* every width of the numbers, every text and every number of devices: a      *)
(* whole report is read as it was sent, also with a field of another version  *)
(* before or after the rest, unless something in it must be refused; of a     *)
(* report that breaks off the devices read are a beginning of those sent      *)
(* (proto.py 33-185).                                                         *)
THEOREM ReportsAreExact == KernelSpec => []ReportExact
<1>1. KernelInit => ProtoInv
  BY ProtoInitInv DEF KernelInit
<1>2. ProtoInv /\ [KernelNext]_kernelVars => ProtoInv'
  <2> SUFFICES ASSUME ProtoInv, [KernelNext]_kernelVars PROVE ProtoInv'
    OBVIOUS
  <2>1. CASE ProtoNext
    BY <2>1, ProtoNextInv
  <2>2. CASE UNCHANGED protoVars
    BY <2>2 DEF protoVars, ProtoInv, ReportExact, Readable
  <2> QED BY <2>1, <2>2 DEF KernelNext, kernelVars
<1>3. ProtoInv => ReportExact
  BY DEF ProtoInv
<1> QED BY <1>1, <1>2, <1>3, PTL DEF KernelSpec

--------------------------------------------------------------------------------
(* The inspector: reading a text line by line.                                *)

(* What is found after each line.                                             *)
After(c, lines, r) == \A k \in 1..Len(lines) : r[k] = LineRead(c, r[k - 1], lines[k])

(* Reading line by line: what is found in a text is what is found after its   *)
(* last line, starting from nothing (_runtime_parsers.py 229-253, the loop).  *)
LEMMA LinesReadDef ==
    ASSUME NEW c, NEW s, NEW lines, Len(lines) \in Nat
    PROVE  \E r : r[0] = s /\ LinesRead(c, s, lines) = r[Len(lines)] /\ After(c, lines, r)
<1> DEFINE n == Len(lines)
           Is(h, f) == f = [k \in 0..h |-> IF k = 0 THEN s ELSE LineRead(c, f[k - 1], lines[k])]
           T == {h \in Nat : \E f : Is(h, f)}
<1>1. 0 \in T
  <2>1. Is(0, [k \in 0..0 |-> s])
    OBVIOUS
  <2> HIDE DEF Is
  <2> QED BY <2>1
<1>2. ASSUME NEW h \in Nat, h \in T PROVE h + 1 \in T
  <2>1. PICK f : Is(h, f)
    BY <1>2
  <2>2. PICK g : g = [k \in 0..h + 1 |-> IF k = h + 1 THEN LineRead(c, f[h], lines[h + 1]) ELSE f[k]]
    OBVIOUS
  <2>3. g[h + 1] = LineRead(c, g[h], lines[h + 1])
    BY <2>2
  <2>4. ASSUME NEW k \in 0..h PROVE g[k] = IF k = 0 THEN s ELSE LineRead(c, g[k - 1], lines[k])
    <3>1. g[k] = f[k]
      BY <2>2
    <3>2. k # 0 => k - 1 \in 0..h /\ g[k - 1] = f[k - 1]
      BY <2>2
    <3> QED BY <2>1, <3>1, <3>2
  <2>5. \A k \in 0..h + 1 : g[k] = IF k = 0 THEN s ELSE LineRead(c, g[k - 1], lines[k])
    BY <2>3, <2>4
  <2>6. Is(h + 1, g)
    <3>1. g = [k \in 0..h + 1 |-> g[k]]
      BY <2>2
    <3> QED BY <2>5, <3>1
  <2> HIDE DEF Is
  <2> QED BY <2>6
<1> HIDE DEF T
<1>3. n \in T
  BY <1>1, <1>2, InductionOverNat
<1>4. \E f : Is(n, f)
  BY <1>3 DEF T
<1>5. PICK f : f = CHOOSE g : Is(n, g)
  OBVIOUS
<1>6. Is(n, f)
  <2> HIDE DEF Is
  <2> QED BY <1>4, <1>5
<1>7. LinesRead(c, s, lines) = f[n]
  BY <1>5 DEF LinesRead
<1>8. f[0] = s /\ \A k \in 1..n : f[k] = LineRead(c, f[k - 1], lines[k])
  BY <1>6
<1>9. After(c, lines, f)
  BY <1>8 DEF After
<1> QED BY <1>7, <1>8, <1>9

(* It is enough to know what is found after each line.                        *)
LEMMA LinesReadIs ==
    ASSUME NEW c, NEW lines, Len(lines) \in Nat, NEW a, After(c, lines, a)
    PROVE  LinesRead(c, a[0], lines) = a[Len(lines)]
<1> DEFINE n == Len(lines)
<1>1. PICK r : r[0] = a[0] /\ LinesRead(c, a[0], lines) = r[n] /\ After(c, lines, r)
  BY LinesReadDef
<1> DEFINE T == {k \in Nat : k <= n => r[k] = a[k]}
<1>2. 0 \in T
  BY <1>1
<1>3. ASSUME NEW k \in Nat, k \in T PROVE k + 1 \in T
  <2> SUFFICES ASSUME k + 1 <= n PROVE r[k + 1] = a[k + 1]
    OBVIOUS
  <2>1. k + 1 \in 1..n /\ (k + 1) - 1 = k /\ r[k] = a[k]
    BY <1>3
  <2>2. r[k + 1] = LineRead(c, r[k], lines[k + 1]) /\ a[k + 1] = LineRead(c, a[k], lines[k + 1])
    BY <1>1, <2>1 DEF After
  <2> QED BY <2>1, <2>2
<1> HIDE DEF T
<1>4. n \in T
  BY <1>2, <1>3, InductionOverNat
<1> QED BY <1>1, <1>4 DEF T

(* Of no lines nothing more is found.                                         *)
LEMMA LinesReadNone == ASSUME NEW c, NEW s PROVE LinesRead(c, s, <<>>) = s
<1>1. Len(<<>>) = 0
  OBVIOUS
<1> QED BY <1>1, LinesReadDef

(* Of one line what it says is found.                                         *)
LEMMA LinesReadOne == ASSUME NEW c, NEW s, NEW l PROVE LinesRead(c, s, <<l>>) = LineRead(c, s, l)
<1>1. Len(<<l>>) = 1 /\ <<l>>[1] = l
  OBVIOUS
<1>2. PICK x : x = <<l>> /\ Len(x) = 1 /\ x[1] = l
  BY <1>1
<1>3. PICK r : r[0] = s /\ LinesRead(c, s, x) = r[Len(x)] /\ After(c, x, r)
  BY <1>2, LinesReadDef
<1>4. r[1] = LineRead(c, r[1 - 1], x[1])
  BY <1>2, <1>3 DEF After
<1> QED BY <1>2, <1>3, <1>4

(* Reading goes on where it stopped.                                          *)
LEMMA LinesReadConcat ==
    ASSUME NEW S, NEW a \in Seq(S), NEW b \in Seq(S), NEW c, NEW s
    PROVE  LinesRead(c, s, a \o b) = LinesRead(c, LinesRead(c, s, a), b)
<1>1. PICK n \in Nat, m \in Nat : n = Len(a) /\ m = Len(b)
  OBVIOUS
<1>2. PICK f : f[0] = s /\ LinesRead(c, s, a) = f[n] /\ After(c, a, f)
  BY <1>1, LinesReadDef
<1>3. PICK g : g[0] = f[n] /\ LinesRead(c, f[n], b) = g[m] /\ After(c, b, g)
  BY <1>1, LinesReadDef
<1>4. PICK h : h = [k \in 0..n + m |-> IF k <= n THEN f[k] ELSE g[k - n]]
  OBVIOUS
<1>5. PICK ab \in Seq(S) : ab = a \o b /\ Len(ab) = n + m
  BY <1>1, ConcatProperties
<1>6. ASSUME NEW k \in 1..n + m PROVE h[k] = LineRead(c, h[k - 1], ab[k])
  <2>1. CASE k <= n
    <3>1. ab[k] = a[k]
      BY <1>1, <1>5, <2>1, ConcatProperties
    <3>2. h[k] = f[k] /\ h[k - 1] = f[k - 1] /\ k \in 1..n
      BY <1>4, <2>1
    <3> QED BY <1>1, <1>2, <3>1, <3>2 DEF After
  <2>2. CASE k > n
    <3>1. PICK j \in 1..m : j = k - n /\ k = n + j
      BY <2>2
    <3>2. ab[k] = b[j]
      BY <1>1, <1>5, <3>1, ConcatProperties
    <3>3. h[k] = g[j]
      BY <1>4, <2>2, <3>1
    <3>4. h[k - 1] = g[j - 1]
      <4>1. CASE j = 1
        <5>1. k - 1 = n /\ j - 1 = 0
          BY <3>1, <4>1
        <5> QED BY <1>3, <1>4, <5>1
      <4>2. CASE j # 1
        <5>1. k - 1 \in 0..n + m /\ ~(k - 1 <= n) /\ (k - 1) - n = j - 1
          BY <3>1, <4>2
        <5> QED BY <1>4, <5>1
      <4> QED BY <4>1, <4>2
    <3> QED BY <1>1, <1>3, <3>1, <3>2, <3>3, <3>4 DEF After
  <2> QED BY <2>1, <2>2
<1>7. h[0] = s
  BY <1>2, <1>4
<1>8. h[n + m] = g[m]
  <2>1. CASE m = 0
    BY <1>3, <1>4, <2>1
  <2>2. CASE m # 0
    <3>1. n + m \in 0..n + m /\ ~(n + m <= n) /\ (n + m) - n = m
      BY <2>2
    <3> QED BY <1>4, <3>1
  <2> QED BY <2>1, <2>2
<1>9. LinesRead(c, h[0], ab) = h[n + m]
  <2>1. After(c, ab, h)
    BY <1>5, <1>6 DEF After
  <2>2. Len(ab) \in Nat
    OBVIOUS
  <2>3. LinesRead(c, h[0], ab) = h[Len(ab)]
    BY <2>1, <2>2, LinesReadIs
  <2> QED BY <1>5, <2>3
<1> QED BY <1>2, <1>3, <1>5, <1>7, <1>8, <1>9

(* Of a text of sections it is enough to know what is found after each.       *)
LEMMA SectionsRead ==
    ASSUME NEW S, NEW seqs \in Seq(Seq(S)), NEW c, NEW a,
           \A i \in 1..Len(seqs) : LinesRead(c, a[i - 1], seqs[i]) = a[i]
    PROVE  LinesRead(c, a[0], FlattenSeq(seqs)) = a[Len(seqs)]
<1>1. PICK n \in Nat : n = Len(seqs) /\ \A i \in 1..n : seqs[i] \in Seq(S)
  OBVIOUS
<1>2. PICK j : j = Joined(seqs)
  OBVIOUS
<1>3. j[0] = <<>> /\ (\A i \in 0..n : j[i] \in Seq(S)) /\ \A i \in 1..n : j[i] = j[i - 1] \o seqs[i]
  BY <1>1, <1>2, JoinedDef
<1>4. FlattenSeq(seqs) = j[n]
  BY <1>1, <1>2, FlattenIsJoined
<1> DEFINE T == {k \in Nat : k <= n => LinesRead(c, a[0], j[k]) = a[k]}
<1>5. 0 \in T
  BY <1>3, LinesReadNone
<1>6. ASSUME NEW k \in Nat, k \in T PROVE k + 1 \in T
  <2> SUFFICES ASSUME k + 1 <= n PROVE LinesRead(c, a[0], j[k + 1]) = a[k + 1]
    OBVIOUS
  <2>1. k + 1 \in 1..n /\ (k + 1) - 1 = k /\ k \in 0..n /\ LinesRead(c, a[0], j[k]) = a[k]
    BY <1>1, <1>6
  <2>2. PICK x \in Seq(S), y \in Seq(S) : x = j[k] /\ y = seqs[k + 1] /\ j[k + 1] = x \o y
    <3>1. j[k + 1] = j[(k + 1) - 1] \o seqs[k + 1]
      BY <1>3, <2>1
    <3> QED BY <1>1, <1>3, <2>1, <3>1
  <2>3. LinesRead(c, a[0], x \o y) = LinesRead(c, LinesRead(c, a[0], x), y)
    BY LinesReadConcat
  <2>4. LinesRead(c, a[k], y) = a[k + 1]
    BY <1>1, <2>1, <2>2
  <2> QED BY <2>1, <2>2, <2>3, <2>4
<1> HIDE DEF T
<1>7. n \in T
  BY <1>1, <1>5, <1>6, InductionOverNat
<1> QED BY <1>1, <1>4, <1>7 DEF T

--------------------------------------------------------------------------------
(* Texts that are searched, and when an inspection is faithful.               *)

(* A search finds the first line that holds the pattern.                      *)
LEMMA SearchFirst ==
    ASSUME NEW n \in Nat, NEW lines, DOMAIN lines = 1..n, NEW p, NEW i \in 1..n, Holds(lines[i], p),
           \A j \in 1..n : Holds(lines[j], p) => i <= j
    PROVE  Search(lines, p) = <<lines[i][p]>> /\ Holding(lines, p) # {}
<1> DEFINE those == Holding(lines, p)
<1>1. those \subseteq Nat /\ i \in those /\ \A j \in those : i <= j
  BY DEF Holding
<1>2. Search(lines, p) = Captured(lines, p, Min(those))
  BY <1>1 DEF Search
<1> HIDE DEF those
<1>3. Min(those) = i
  BY <1>1, MinIs
<1> QED BY <1>1, <1>2, <1>3 DEF Captured, those

(* A search of lines that hold no pattern finds nothing.                      *)
LEMMA SearchNone ==
    ASSUME NEW n \in Nat, NEW lines, DOMAIN lines = 1..n, NEW p, \A i \in 1..n : ~Holds(lines[i], p)
    PROVE  Search(lines, p) = Nothing /\ Holding(lines, p) = {}
<1>1. Holding(lines, p) = {}
  BY DEF Holding
<1> QED BY <1>1 DEF Search

(* InspectionExact of one text.                                               *)
Faithful(r) ==
    /\ r.form \in {"known", "partial"} => Parse(r) = <<r.facts>>
    /\ r.form = "odd" => Parse(r) = Nothing

(* Each command has its parser (query.py, the inspections).                   *)
LEMMA ParseOf ==
    ASSUME NEW r
    PROVE  /\ r.command = "boot" => Parse(r) = ParseBoot(r.lines)
           /\ r.command = "build" => Parse(r) = ParseBuildInfo(r.lines)
           /\ r.command = "current_user" => Parse(r) = ParseCurrentUser(r.lines)
           /\ r.command = "power" => Parse(r) = ParsePower(r.lines)
           /\ r.command = "keyguard" => Parse(r) = ParseKeyguard(r.lines)
           /\ r.command = "user_state" => Parse(r) = ParseUserState(r.lines, r.about)
           /\ r.command = "package" => Parse(r) = ParsePackageState(r.lines, r.about)
           /\ r.command = "launcher" => Parse(r) = ParseLauncher(r.lines, r.about)
           /\ r.command = "users" => Parse(r) = ParseUsers(r.lines)
           /\ r.command = "resumed" => Parse(r) = ParseResumed(r.lines)
           /\ r.command = "displays" => Parse(r) = ParseDisplays(r.lines)
           /\ r.command = "physical" => Parse(r) = ParsePhysical(r.lines)
           /\ r.command = "windows" => Parse(r) = ParseWindows(r.lines)
           /\ r.command = "occlusions" => Parse(r) = ParseOcclusions(r.lines, r.about)
BY DEF Parse

(* The parts of a report.                                                     *)
LEMMA ReportParts ==
    ASSUME NEW command, NEW about, NEW form, NEW facts, NEW lines, NEW r,
           r = Report(command, about, form, facts, lines)
    PROVE  r.command = command /\ r.about = about /\ r.form = form /\ r.facts = facts /\ r.lines = lines
BY DEF Report

(* A report on one line is in a known form or in an odd one.                  *)
LEMMA SingleIs ==
    ASSUME NEW command, NEW known, NEW odd, NEW r \in SingleReport(command, known, odd)
    PROVE  \/ \E k \in known : r = Report(command, 0, "known", k[1], k[2])
           \/ \E o \in odd : r = Report(command, 0, "odd", 0, o)
BY DEF SingleReport

(* The state of the boot is told exactly (_runtime_parsers.py, the boot       *)
(* states).                                                                   *)
LEMMA BootExact ==
    ASSUME NEW r \in SingleReport("boot",
        {<<"booted", <<NumberLine(1)>>>>, <<"booting", <<NumberLine(0)>>>>, <<"booting", <<>>>>},
        {<<Noise>>, <<NumberLine(2)>>})
    PROVE  Faithful(r)
<1>1. CASE r = Report("boot", 0, "known", "booted", <<NumberLine(1)>>)
  BY <1>1, ReportParts, ParseOf DEF ParseBoot, Faithful, NumberLine, Holds
<1>2. CASE r = Report("boot", 0, "known", "booting", <<NumberLine(0)>>)
  BY <1>2, ReportParts, ParseOf DEF ParseBoot, Faithful, NumberLine, Holds
<1>3. CASE r = Report("boot", 0, "known", "booting", <<>>)
  BY <1>3, ReportParts, ParseOf DEF ParseBoot, Faithful, NumberLine, Holds
<1>4. CASE r = Report("boot", 0, "odd", 0, <<Noise>>)
  BY <1>4, ReportParts, ParseOf DEF ParseBoot, Faithful, Noise, Holds
<1>5. CASE r = Report("boot", 0, "odd", 0, <<NumberLine(2)>>)
  BY <1>5, ReportParts, ParseOf, SMTT(30) DEF ParseBoot, Faithful, NumberLine, Holds
<1> QED BY <1>1, <1>2, <1>3, <1>4, <1>5, SingleIs

(* The build is told exactly; a report that lacks one of its three lines, or  *)
(* has one in an unknown form, is an error.                                   *)
LEMMA BuildExact ==
    ASSUME NEW r \in SingleReport("build",
        {<<<<30, "11", "f">>, <<NumberLine(30), TextLine("11"), TextLine("f")>>>>},
        {<<NumberLine(30), Noise, TextLine("f")>>, <<NumberLine(30), TextLine("11")>>, <<Noise>>})
    PROVE  Faithful(r)
<1>1. CASE r = Report("build", 0, "known", <<30, "11", "f">>, <<NumberLine(30), TextLine("11"), TextLine("f")>>)
  BY <1>1, ReportParts, ParseOf DEF ParseBuildInfo, Faithful, NumberLine, TextLine, Holds
<1>2. CASE r = Report("build", 0, "odd", 0, <<NumberLine(30), Noise, TextLine("f")>>)
  BY <1>2, ReportParts, ParseOf DEF ParseBuildInfo, Faithful, NumberLine, TextLine, Noise, Holds
<1>3. CASE r = Report("build", 0, "odd", 0, <<NumberLine(30), TextLine("11")>>)
  BY <1>3, ReportParts, ParseOf DEF ParseBuildInfo, Faithful, NumberLine, TextLine, Holds
<1>4. CASE r = Report("build", 0, "odd", 0, <<Noise>>)
  BY <1>4, ReportParts, ParseOf DEF ParseBuildInfo, Faithful, Noise, Holds
<1> QED BY <1>1, <1>2, <1>3, <1>4, SingleIs

(* The current user is told exactly.                                          *)
LEMMA CurrentUserExact ==
    ASSUME NEW r \in SingleReport("current_user", {<<u, <<NumberLine(u)>>>> : u \in Users}, {<<Noise>>, <<>>})
    PROVE  Faithful(r)
<1>1. ASSUME NEW u \in Users, r = Report("current_user", 0, "known", u, <<NumberLine(u)>>) PROVE Faithful(r)
  BY <1>1, ReportParts, ParseOf DEF ParseCurrentUser, Faithful, NumberLine, Holds
<1>2. CASE r = Report("current_user", 0, "odd", 0, <<Noise>>)
  BY <1>2, ReportParts, ParseOf DEF ParseCurrentUser, Faithful, Noise, Holds
<1>3. CASE r = Report("current_user", 0, "odd", 0, <<>>)
  BY <1>3, ReportParts, ParseOf DEF ParseCurrentUser, Faithful, Noise, Holds
<1> QED BY <1>1, <1>2, <1>3, SingleIs

(* The power state is told exactly, whichever of the two lines is printed;    *)
(* mWakefulness goes first.                                                   *)
LEMMA PowerExact ==
    ASSUME NEW r \in SingleReport("power",
        {<<w, <<Noise, [mWakefulness |-> w], [wakefulness |-> w]>>>> : w \in {"Awake", "Dozing"}}
        \cup {<<"Asleep", <<[wakefulness |-> "Asleep"]>>>>}, {<<Noise>>})
    PROVE  Faithful(r)
<1>1. ASSUME NEW w, r = Report("power", 0, "known", w, <<Noise, [mWakefulness |-> w], [wakefulness |-> w]>>)
      PROVE  Faithful(r)
  <2>1. PICK t : t = <<Noise, [mWakefulness |-> w], [wakefulness |-> w]>>
    OBVIOUS
  <2>2. DOMAIN t = 1..3 /\ 2 \in 1..3 /\ Holds(t[2], "mWakefulness") /\ t[2]["mWakefulness"] = w
        /\ \A j \in 1..3 : Holds(t[j], "mWakefulness") => 2 <= j
    BY <2>1 DEF Holds, Noise
  <2>3. Search(t, "mWakefulness") = <<w>> /\ Holding(t, "mWakefulness") # {}
    BY <2>2, SearchFirst
  <2>4. ParsePower(t) = <<w>>
    BY <2>3 DEF ParsePower
  <2> QED BY <1>1, <2>1, <2>4, ReportParts, ParseOf DEF Faithful
<1>2. CASE r = Report("power", 0, "known", "Asleep", <<[wakefulness |-> "Asleep"]>>)
  <2>1. PICK t : t = <<[wakefulness |-> "Asleep"]>>
    OBVIOUS
  <2>2. PICK n \in Nat :
          /\ n = 1 /\ DOMAIN t = 1..n /\ Holds(t[1], "wakefulness") /\ t[1]["wakefulness"] = "Asleep"
          /\ \A j \in 1..n : ~Holds(t[j], "mWakefulness")
    BY <2>1 DEF Holds
  <2>3. Search(t, "wakefulness") = <<"Asleep">>
    <3>1. PICK i \in 1..n :
            i = 1 /\ Holds(t[i], "wakefulness") /\ \A j \in 1..n : Holds(t[j], "wakefulness") => i <= j
      BY <2>2
    <3>2. PICK p : p = "wakefulness"
      OBVIOUS
    <3>3. Holds(t[i], p) /\ \A j \in 1..n : Holds(t[j], p) => i <= j
      BY <3>1, <3>2
    <3>4. DOMAIN t = 1..n
      BY <2>2
    <3>5. Search(t, p) = <<t[i][p]>>
      BY <3>3, <3>4, SearchFirst
    <3> QED BY <2>2, <3>1, <3>2, <3>5
  <2>4. Holding(t, "mWakefulness") = {}
    BY <2>2, SearchNone
  <2>5. ParsePower(t) = <<"Asleep">>
    BY <2>3, <2>4 DEF ParsePower
  <2> QED BY <1>2, <2>1, <2>5, ReportParts, ParseOf DEF Faithful
<1>3. CASE r = Report("power", 0, "odd", 0, <<Noise>>)
  <2>1. PICK t : t = <<Noise>>
    OBVIOUS
  <2>2. DOMAIN t = 1..1 /\ (\A j \in 1..1 : ~Holds(t[j], "mWakefulness"))
        /\ \A j \in 1..1 : ~Holds(t[j], "wakefulness")
    BY <2>1 DEF Holds, Noise
  <2>3. Holding(t, "mWakefulness") = {} /\ Search(t, "wakefulness") = Nothing
    BY <2>2, SearchNone
  <2>4. ParsePower(t) = Nothing
    BY <2>3 DEF ParsePower
  <2> QED BY <1>3, <2>1, <2>4, ReportParts, ParseOf DEF Faithful
<1> QED BY <1>1, <1>2, <1>3, SingleIs

(* The keyguard is told exactly, and an answer without it is an error.        *)
LEMMA KeyguardExact ==
    ASSUME NEW r \in SingleReport("keyguard",
        {<<b, <<Noise, [mKeyguardShowing |-> b]>>>> : b \in BOOLEAN}, {<<>>})
    PROVE  Faithful(r)
<1>1. ASSUME NEW b \in BOOLEAN, r = Report("keyguard", 0, "known", b, <<Noise, [mKeyguardShowing |-> b]>>)
      PROVE  Faithful(r)
  <2>1. PICK t : t = <<Noise, [mKeyguardShowing |-> b]>>
    OBVIOUS
  <2>2. DOMAIN t = 1..2 /\ 2 \in 1..2 /\ Holds(t[2], "mKeyguardShowing") /\ t[2]["mKeyguardShowing"] = b
        /\ \A j \in 1..2 : Holds(t[j], "mKeyguardShowing") => 2 <= j
    BY <2>1 DEF Holds, Noise
  <2>3. Search(t, "mKeyguardShowing") = <<b>>
    BY <2>2, SearchFirst
  <2>4. ParseKeyguard(t) = <<b>>
    BY <2>3 DEF ParseKeyguard
  <2> QED BY <1>1, <2>1, <2>4, ReportParts, ParseOf DEF Faithful
<1>2. CASE r = Report("keyguard", 0, "odd", 0, <<>>)
  <2>1. PICK t : t = <<>> /\ DOMAIN t = 1..0
    OBVIOUS
  <2>2. ParseKeyguard(t) = Nothing
    BY <2>1, SearchNone DEF ParseKeyguard
  <2> QED BY <1>2, <2>1, <2>2, ReportParts, ParseOf DEF Faithful
<1> QED BY <1>1, <1>2, SingleIs

(* All reports on one line are told exactly.                                  *)
LEMMA SinglesExact == \A r \in SingleReports : Faithful(r)
BY BootExact, BuildExact, CurrentUserExact, PowerExact, KeyguardExact DEF SingleReports

--------------------------------------------------------------------------------
(* Users and packages.                                                        *)

(* The state of a user is told exactly; an answer about another user, or a    *)
(* state without a name, is an error.                                         *)
LEMMA UserStatesExact == \A r \in UserReports : Faithful(r)
<1> SUFFICES ASSUME NEW r \in UserReports PROVE Faithful(r)
  OBVIOUS
<1>1. PICK u \in Users, v \in Users :
        \/ r = Report("user_state", u, KnownIf(u = v), "not_started", <<[not_started |-> v]>>)
        \/ r = Report("user_state", u, KnownIf(u = v), "STOPPING", <<Noise, [user_state |-> <<v, "STOPPING">>]>>)
        \/ r = Report("user_state", u, "odd", 0, <<[user_state |-> <<u, "FROZEN">>]>>)
  <2>1. PICK u \in Users, v \in Users : r \in UserReport(u, v)
    BY DEF UserReports
  <2> QED BY <2>1 DEF UserReport
<1>2. CASE r = Report("user_state", u, KnownIf(u = v), "not_started", <<[not_started |-> v]>>)
  <2>1. ParseUserState(<<[not_started |-> v]>>, u) = IF v = u THEN <<"not_started">> ELSE Nothing
    BY DEF ParseUserState, Holds
  <2>2. r.form = KnownIf(u = v) /\ r.facts = "not_started" /\ Parse(r) = ParseUserState(<<[not_started |-> v]>>, u)
    BY <1>2, ReportParts, ParseOf
  <2> QED BY <2>1, <2>2 DEF Faithful, KnownIf
<1>3. CASE r = Report("user_state", u, KnownIf(u = v), "STOPPING", <<Noise, [user_state |-> <<v, "STOPPING">>]>>)
  <2>1. PICK t : t = <<Noise, [user_state |-> <<v, "STOPPING">>]>>
    OBVIOUS
  <2>2. DOMAIN t = 1..2 /\ 2 \in 1..2 /\ Holds(t[2], "user_state") /\ t[2]["user_state"] = <<v, "STOPPING">>
        /\ \A j \in 1..2 : Holds(t[j], "user_state") => 2 <= j
    BY <2>1 DEF Holds, Noise
  <2>3. Search(t, "user_state") = <<<<v, "STOPPING">>>>
    BY <2>2, SearchFirst, ZenonT(30)
  <2>4. Len(t) = 2
    BY <2>1
  <2>5. ParseUserState(t, u) = IF v = u THEN <<"STOPPING">> ELSE Nothing
    BY <2>3, <2>4 DEF ParseUserState, Phases, Nothing
  <2>6. r.form = KnownIf(u = v) /\ r.facts = "STOPPING" /\ Parse(r) = ParseUserState(t, u)
    BY <1>3, <2>1, ReportParts, ParseOf
  <2> QED BY <2>5, <2>6 DEF Faithful, KnownIf
<1>4. CASE r = Report("user_state", u, "odd", 0, <<[user_state |-> <<u, "FROZEN">>]>>)
  <2>0. PICK n \in Nat : n = 1
    OBVIOUS
  <2>5. PICK t, p : t = <<[user_state |-> <<u, "FROZEN">>]>> /\ p = "user_state"
    OBVIOUS
  <2>1. PICK i \in 1..n :
          /\ Len(t) = 1 /\ ~Holds(t[1], "not_started") /\ p = "user_state"
          /\ DOMAIN t = 1..n /\ Holds(t[i], p) /\ t[i][p] = <<u, "FROZEN">>
          /\ \A j \in 1..n : Holds(t[j], p) => i <= j
    <3>1. 1 \in 1..n
      BY <2>0
    <3>2. /\ Len(t) = 1 /\ ~Holds(t[1], "not_started")
          /\ DOMAIN t = 1..n /\ Holds(t[1], p) /\ t[1][p] = <<u, "FROZEN">>
          /\ \A j \in 1..n : Holds(t[j], p) => 1 <= j
      BY <2>0, <2>5 DEF Holds
    <3> QED BY <2>5, <3>1, <3>2
  <2>2. Search(t, p) = <<t[i][p]>>
    BY <2>1, SearchFirst, ZenonT(30)
  <2>3. Search(t, "user_state") = <<<<u, "FROZEN">>>>
    BY <2>1, <2>2
  <2>4. ParseUserState(t, u) = Nothing
    BY <2>1, <2>3 DEF ParseUserState, Phases, Nothing
  <2> QED BY <1>4, <2>5, <2>4, ReportParts, ParseOf DEF Faithful
<1> QED BY <1>1, <1>2, <1>3, <1>4

(* The rows of a package: the first of the user that was asked for.           *)
LEMMA PackageRead ==
    ASSUME NEW t, NEW n \in Nat, DOMAIN t = 1..n, NEW user, NEW i \in 1..n,
           \A j \in 1..n : ~Holds(t[j], "not_found"),
           Holds(t[i], "package_user"), t[i].package_user.user = user,
           \A j \in 1..n : Holds(t[j], "package_user") /\ t[j].package_user.user = user => i <= j
    PROVE  ParsePackageState(t, user) = PackageState(t[i].package_user)
<1> DEFINE mine == {j \in Holding(t, "package_user") : t[j].package_user.user = user}
<1>1. mine \subseteq Nat /\ i \in mine /\ \A j \in mine : i <= j
  BY DEF Holding
<1>2. Holding(t, "not_found") = {}
  BY DEF Holding
<1>3. ParsePackageState(t, user) = PackageState(t[Min(mine)].package_user)
  BY <1>1, <1>2 DEF ParsePackageState
<1> HIDE DEF mine
<1>4. Min(mine) = i
  BY <1>1, MinIs
<1> QED BY <1>3, <1>4

IsPackageRow(line, u, facts) ==
    /\ Holds(line, "package_user") /\ ~Holds(line, "not_found") /\ line.package_user.user = u
    /\ PackageState(line.package_user) = <<facts>>

(* A row of a package says what is so of it, its flags and whether it is      *)
(* enabled.                                                                   *)
LEMMA PackageRowIs ==
    ASSUME NEW u, NEW b, NEW enabled \in 0..4
    PROVE  IsPackageRow(PackageRow(u, b, enabled), u, <<Flags(b), enabled>>)
<1>1. {"installed", "hidden", "suspended"} \subseteq DOMAIN Flags(b)
  BY DEF Flags
<1>2. PICK row : row = PackageRow(u, b, enabled).package_user
  OBVIOUS
<1>3. row.user = u /\ row.flags = Flags(b) /\ row.enabled = <<enabled>>
  BY <1>2 DEF PackageRow
<1>4. PackageState(row) = <<<<Flags(b), enabled>>>>
  BY <1>1, <1>3 DEF PackageState, EnabledStates, Nothing
<1>5. Holds(PackageRow(u, b, enabled), "package_user") /\ ~Holds(PackageRow(u, b, enabled), "not_found")
  BY DEF PackageRow, Holds
<1> QED BY <1>2, <1>3, <1>4, <1>5 DEF IsPackageRow

(* A package is told as it is for the user that was asked for, whatever the   *)
(* rows of other users say.                                                   *)
LEMMA PackagesExact ==
    ASSUME NEW u \in Users, NEW v \in Users, NEW w \in Users, NEW r \in PackageReport(u, v, w)
    PROVE  Faithful(r)
<1>1. CASE r = Report("package", u, KnownIf(u \in {v, w}), PackageFacts(u = v),
                      <<Noise, PackageRow(v, TRUE, 1), PackageRow(w, FALSE, 0)>>)
  <2>0. PICK n \in Nat : n = 3
    OBVIOUS
  <2>1. PICK t : t = <<Noise, PackageRow(v, TRUE, 1), PackageRow(w, FALSE, 0)>>
    OBVIOUS
  <2>2. DOMAIN t = 1..n /\ t[1] = Noise /\ t[2] = PackageRow(v, TRUE, 1) /\ t[3] = PackageRow(w, FALSE, 0)
    BY <2>0, <2>1
  <2>3. ~Holds(Noise, "not_found") /\ ~Holds(Noise, "package_user")
    BY DEF Holds, Noise
  <2>4. /\ ~Holds(t[2], "not_found") /\ Holds(t[2], "package_user") /\ t[2].package_user.user = v
        /\ PackageState(t[2].package_user) = <<<<Flags(TRUE), 1>>>>
    <3>1. 1 \in 0..4
      OBVIOUS
    <3>2. IsPackageRow(PackageRow(v, TRUE, 1), v, <<Flags(TRUE), 1>>)
      BY <3>1, PackageRowIs, Zenon
    <3> QED BY <2>2, <3>2 DEF IsPackageRow
  <2>5. /\ ~Holds(t[3], "not_found") /\ Holds(t[3], "package_user") /\ t[3].package_user.user = w
        /\ PackageState(t[3].package_user) = <<<<Flags(FALSE), 0>>>>
    <3>1. 0 \in 0..4
      OBVIOUS
    <3>2. IsPackageRow(PackageRow(w, FALSE, 0), w, <<Flags(FALSE), 0>>)
      BY <3>1, PackageRowIs, Zenon
    <3> QED BY <2>2, <3>2 DEF IsPackageRow
  <2>6. \A j \in 1..n : j = 1 \/ j = 2 \/ j = 3
    BY <2>0
  <2>7. (\A j \in 1..n : ~Holds(t[j], "not_found")) /\ 2 \in 1..n /\ 3 \in 1..n
    <3>1. ~Holds(t[1], "not_found")
      BY <2>2, <2>3
    <3>2. 2 \in 1..n /\ 3 \in 1..n
      BY <2>0
    <3>3. ASSUME NEW j \in 1..n PROVE ~Holds(t[j], "not_found")
      BY <2>4, <2>5, <2>6, <3>1
    <3> QED BY <3>2, <3>3
  <2>8. r.form = KnownIf(u \in {v, w}) /\ r.facts = PackageFacts(u = v) /\ Parse(r) = ParsePackageState(t, u)
    <3>1. r.command = "package" /\ r.about = u /\ r.lines = t
          /\ r.form = KnownIf(u \in {v, w}) /\ r.facts = PackageFacts(u = v)
      <4>1. PICK known, facts : known = KnownIf(u \in {v, w}) /\ facts = PackageFacts(u = v)
        OBVIOUS
      <4>2. r = Report("package", u, known, facts, t)
        BY <1>1, <2>1, <4>1, Zenon
      <4> QED BY <4>1, <4>2, ReportParts
    <3> QED BY <3>1, ParseOf
  <2>9. CASE u = v
    <3>1. \A j \in 1..n : Holds(t[j], "package_user") /\ t[j].package_user.user = u => 2 <= j
      BY <2>2, <2>3, <2>6
    <3>2. ParsePackageState(t, u) = PackageState(t[2].package_user)
      BY <2>2, <2>4, <2>7, <2>9, <3>1, PackageRead, ZenonT(30)
    <3>3. r.facts = <<Flags(TRUE), 1>>
      <4>1. (u = v) = TRUE
        BY <2>9
      <4>2. r.facts = PackageFacts(TRUE)
        BY <2>8, <4>1
      <4> QED BY <4>2 DEF PackageFacts
    <3>4. r.form = "known"
      BY <2>8, <2>9 DEF KnownIf
    <3> QED BY <2>4, <2>8, <3>2, <3>3, <3>4 DEF Faithful
  <2>10. CASE u # v /\ u = w
    <3>1. \A j \in 1..n : Holds(t[j], "package_user") /\ t[j].package_user.user = u => 3 <= j
      <4>1. ~Holds(t[1], "package_user")
        BY <2>2, <2>3
      <4>2. ASSUME NEW j \in 1..n, Holds(t[j], "package_user"), t[j].package_user.user = u PROVE 3 <= j
        BY <2>4, <2>6, <2>10, <4>1, <4>2
      <4> QED BY <4>2
    <3>2. ParsePackageState(t, u) = PackageState(t[3].package_user)
      <4>1. PICK i \in 1..n : i = 3
        BY <2>7
      <4>2. Holds(t[i], "package_user") /\ t[i].package_user.user = u /\ DOMAIN t = 1..n
        BY <2>2, <2>5, <2>10, <4>1
      <4>3. \A j \in 1..n : Holds(t[j], "package_user") /\ t[j].package_user.user = u => i <= j
        BY <3>1, <4>1
      <4>4. ParsePackageState(t, u) = PackageState(t[i].package_user)
        BY <2>7, <4>2, <4>3, PackageRead
      <4> QED BY <4>1, <4>4
    <3>3. r.facts = <<Flags(FALSE), 0>>
      <4>1. (u = v) = FALSE
        BY <2>10
      <4>2. r.facts = PackageFacts(FALSE)
        BY <2>8, <4>1
      <4> QED BY <4>2 DEF PackageFacts
    <3>4. r.form = "known"
      BY <2>8, <2>10 DEF KnownIf
    <3> QED BY <2>5, <2>8, <3>2, <3>3, <3>4 DEF Faithful
  <2>11. CASE u # v /\ u # w
    <3>1. \A j \in 1..n : ~(Holds(t[j], "package_user") /\ t[j].package_user.user = u)
      BY <2>2, <2>3, <2>4, <2>5, <2>6, <2>11
    <3>2. {j \in Holding(t, "package_user") : t[j].package_user.user = u} = {}
      BY <2>2, <3>1 DEF Holding
    <3>3. Holding(t, "not_found") = {}
      BY <2>2, <2>7 DEF Holding
    <3>4. ParsePackageState(t, u) = Nothing
      BY <3>2, <3>3 DEF ParsePackageState
    <3>5. r.form = "odd"
      BY <2>8, <2>11 DEF KnownIf
    <3> QED BY <2>8, <3>4, <3>5 DEF Faithful
  <2> QED BY <2>9, <2>10, <2>11
<1>2. CASE r = Report("package", u, "odd", 0, <<PackageRow(u, TRUE, 9)>>)
  <2>1. PICK t : t = <<PackageRow(u, TRUE, 9)>>
    OBVIOUS
  <2>2. PICK n \in Nat : n = 1
    OBVIOUS
  <2>3. PICK i \in 1..n : i = 1
    BY <2>2
  <2>4. DOMAIN t = 1..n /\ t[i] = PackageRow(u, TRUE, 9) /\ \A j \in 1..n : j = i
    BY <2>1, <2>2, <2>3
  <2>5. t[i].package_user.user = u /\ Holds(t[i], "package_user") /\ ~Holds(t[i], "not_found")
        /\ t[i].package_user.enabled = <<9>>
    BY <2>4 DEF PackageRow, Holds
  <2>6. \A j \in 1..n : ~Holds(t[j], "not_found")
    BY <2>4, <2>5
  <2>7. \A j \in 1..n : Holds(t[j], "package_user") /\ t[j].package_user.user = u => i <= j
    BY <2>4
  <2>8. ParsePackageState(t, u) = PackageState(t[i].package_user)
    BY <2>4, <2>5, <2>6, <2>7, PackageRead
  <2>9. PackageState(t[i].package_user) = Nothing
    BY <2>5 DEF PackageState, EnabledStates
  <2> QED BY <1>2, <2>1, <2>8, <2>9, ReportParts, ParseOf DEF Faithful
<1>3. CASE r = Report("package", u, "known", "not_installed", <<[not_found |-> TRUE]>>)
  <2>1. PICK t : t = <<[not_found |-> TRUE]>>
    OBVIOUS
  <2>2. 1 \in Holding(t, "not_found")
    BY <2>1 DEF Holding, Holds
  <2>3. ParsePackageState(t, u) = <<"not_installed">>
    BY <2>2 DEF ParsePackageState
  <2> QED BY <1>3, <2>1, <2>3, ReportParts, ParseOf DEF Faithful
<1> QED BY <1>1, <1>2, <1>3 DEF PackageReport

--------------------------------------------------------------------------------
(* Launchers, and texts of a first line and rows.                             *)

(* The launcher of a package is told exactly; one of another package is an    *)
(* error.                                                                     *)
LEMMA LaunchersExact ==
    ASSUME NEW p \in Packages, NEW q \in Packages, NEW r \in LauncherReport(p, q)
    PROVE  Faithful(r)
<1>1. CASE r = Report("launcher", p, KnownIf(p = q), <<q, "Main">>, <<Noise, [component |-> <<q, "Main">>]>>)
  <2>1. PICK t : t = <<Noise, [component |-> <<q, "Main">>]>>
    OBVIOUS
  <2>2. DOMAIN t = 1..2 /\ t[1] = Noise /\ t[2] = [component |-> <<q, "Main">>]
    BY <2>1
  <2>3. Holding(t, "component") = {2}
    BY <2>2 DEF Holding, Holds, Noise
  <2>4. Holding(t, "no_activity") # DOMAIN t
    <3>1. ~Holds(t[1], "no_activity") /\ 1 \in DOMAIN t
      BY <2>2 DEF Holds, Noise
    <3> QED BY <3>1 DEF Holding
  <2>5. Cardinality({2}) = 1 /\ Min({2}) = 2
    <3>1. Cardinality({2}) = 1
      BY FS_Singleton
    <3>2. PICK i \in Nat : i = 2
      OBVIOUS
    <3>5. PICK s : s = {i}
      OBVIOUS
    <3>3. s \subseteq Nat /\ i \in s /\ \A m \in s : i <= m
      BY <3>2, <3>5
    <3>4. Min(s) = i
      BY <3>3, MinIs
    <3> QED BY <3>1, <3>2, <3>4, <3>5
  <2>6. ParseLauncher(t, p) = IF q = p THEN <<<<q, "Main">>>> ELSE Nothing
    BY <2>2, <2>3, <2>4, <2>5 DEF ParseLauncher
  <2>7. PICK known : known = KnownIf(p = q)
    OBVIOUS
  <2>8. r = Report("launcher", p, known, <<q, "Main">>, t)
    BY <1>1, <2>1, <2>7, Zenon
  <2>9. r.form = known /\ r.facts = <<q, "Main">> /\ Parse(r) = ParseLauncher(t, p)
    BY <2>8, ReportParts, ParseOf
  <2> QED BY <2>6, <2>7, <2>9 DEF Faithful, KnownIf
<1>2. CASE r = Report("launcher", p, "known", "none", <<[no_activity |-> TRUE]>>)
  <2>1. PICK t : t = <<[no_activity |-> TRUE]>>
    OBVIOUS
  <2>2. Holding(t, "no_activity") = DOMAIN t
    BY <2>1 DEF Holding, Holds
  <2>3. ParseLauncher(t, p) = <<"none">>
    BY <2>2 DEF ParseLauncher
  <2> QED BY <1>2, <2>1, <2>3, ReportParts, ParseOf DEF Faithful
<1>3. CASE r = Report("launcher", p, "odd", 0, <<Noise>>)
  <2>1. PICK t : t = <<Noise>>
    OBVIOUS
  <2>2. DOMAIN t = {1} /\ ~Holds(t[1], "no_activity") /\ ~Holds(t[1], "component")
    BY <2>1 DEF Holds, Noise
  <2>3. Holding(t, "no_activity") # DOMAIN t /\ Holding(t, "component") = {}
    BY <2>2 DEF Holding
  <2>4. ParseLauncher(t, p) = Nothing
    BY <2>3, FS_EmptySet DEF ParseLauncher
  <2> QED BY <1>3, <2>1, <2>4, ReportParts, ParseOf DEF Faithful
<1> QED BY <1>1, <1>2, <1>3 DEF LauncherReport

(* Of a first line and then one row for each value, all the values are found. *)
LEMMA FoundAfter ==
    ASSUME NEW S, NEW values \in Seq(S), NEW n \in Nat, n = Len(values), NEW t, DOMAIN t = 1..n + 1, NEW p,
           ~Holds(t[1], p), \A i \in 1..n : Holds(t[i + 1], p) /\ t[i + 1][p] = values[i]
    PROVE  FindAll(t, p) = values
<1>1. PICK seqs : seqs = [i \in DOMAIN t |-> IF Holds(t[i], p) THEN <<t[i][p]>> ELSE <<>>]
  OBVIOUS
<1>2. ASSUME NEW i \in 1..n + 1
      PROVE  seqs[i] = (IF 1 < i /\ i <= 1 + n THEN <<values[i - 1]>> ELSE <<>>) /\ seqs[i] \in Seq(S)
  <2>1. CASE i = 1
    <3>1. seqs[i] = <<>>
      BY <1>1, <2>1
    <3>2. ~(1 < i)
      BY <2>1
    <3>3. <<>> \in Seq(S)
      OBVIOUS
    <3> QED BY <3>1, <3>2, <3>3
  <2>2. CASE i # 1
    <3>1. PICK j \in 1..n : i = j + 1 /\ j = i - 1
      BY <2>2
    <3>2. seqs[i] = <<values[j]>>
      BY <1>1, <3>1
    <3>3. values[j] \in S
      BY <3>1
    <3>4. <<values[j]>> \in Seq(S)
      BY <3>3
    <3>5. 1 < i /\ i <= 1 + n
      BY <3>1
    <3>6. <<values[i - 1]>> = <<values[j]>>
      BY <3>1
    <3> QED BY <3>2, <3>4, <3>5, <3>6
  <2> QED BY <2>1, <2>2
<1>3. seqs \in [1..n + 1 -> Seq(S)]
  BY <1>1, <1>2
<1>4. seqs \in Seq(Seq(S)) /\ Len(seqs) = n + 1
  <2>1. \A X : \A h \in [1..n + 1 -> X] : h \in Seq(X) /\ Len(h) = n + 1
    OBVIOUS
  <2> QED BY <1>3, <2>1
<1>5. PICK off \in Nat : off = 1
  OBVIOUS
<1>6. \A i \in 1..Len(seqs) : seqs[i] = IF off < i /\ i <= off + Len(values) THEN <<values[i - off]>> ELSE <<>>
  BY <1>2, <1>4, <1>5
<1>7. FlattenSeq(seqs) = SubSeq(values, 1, Clamp(Len(seqs) - off, Len(values)))
  BY <1>4, <1>6, FlattenKept
<1>8. Clamp(Len(seqs) - off, Len(values)) = n
  BY <1>4, <1>5 DEF Clamp
<1>9. SubSeq(values, 1, n) = values
  BY SubSeqFull
<1> QED BY <1>1, <1>7, <1>8, <1>9 DEF FindAll

(* If one line holds a pattern, the last that holds it is that one.           *)
LEMMA SearchLastOnly ==
    ASSUME NEW n \in Nat, NEW i \in 1..n, NEW t, NEW p, Holding(t, p) = {i}
    PROVE  SearchLast(t, p) = <<t[i][p]>>
<1>1. Max({i}) \in {i}
  BY MaxIn
<1> QED BY <1>1 DEF SearchLast, Captured

(* A text of a first line and some rows.                                      *)
LEMMA LinesAfter ==
    ASSUME NEW first, NEW n \in Nat, NEW rows, rows = [i \in 1..n |-> rows[i]]
    PROVE  /\ DOMAIN (<<first>> \o rows) = 1..n + 1 /\ (<<first>> \o rows)[1] = first
           /\ \A i \in 1..n : (<<first>> \o rows)[i + 1] = rows[i]
<1> DEFINE S == {first} \cup {rows[i] : i \in 1..n}
<1>1. rows \in Seq(S) /\ Len(rows) = n
  <2>1. rows \in [1..n -> S]
    OBVIOUS
  <2>2. \A X : \A h \in [1..n -> X] : h \in Seq(X) /\ Len(h) = n
    OBVIOUS
  <2> QED BY <2>1, <2>2
<1>2. PICK one \in Seq(S) : one = <<first>> /\ Len(one) = 1 /\ one[1] = first
  <2>1. first \in S
    OBVIOUS
  <2> HIDE DEF S
  <2>2. <<first>> \in Seq(S)
    BY <2>1
  <2>3. Len(<<first>>) = 1 /\ <<first>>[1] = first
    OBVIOUS
  <2> QED BY <2>2, <2>3
<1> HIDE DEF S
<1>3. PICK t \in Seq(S) : t = one \o rows /\ Len(t) = 1 + n
  <2>1. one \o rows \in Seq(S) /\ Len(one \o rows) = Len(one) + Len(rows)
    BY <1>1, ConcatProperties
  <2> QED BY <1>1, <1>2, <2>1
<1>4. t[1] = first
  BY <1>1, <1>2, <1>3, ConcatProperties
<1>5. ASSUME NEW i \in 1..n PROVE t[i + 1] = rows[i]
  <2>1. (one \o rows)[1 + i] = rows[i]
    BY <1>1, <1>2, ConcatProperties
  <2> QED BY <1>3, <2>1
<1>6. DOMAIN t = 1..n + 1
  BY <1>3
<1> QED BY <1>2, <1>3, <1>4, <1>5, <1>6

(* A list of a finite set is a sequence without repetition.                   *)
LEMMA ListIs ==
    ASSUME NEW S, IsFiniteSet(S), NEW q \in Lists(S)
    PROVE  \E n \in Nat : q \in [1..n -> S] /\ Len(q) = n /\ Distinct(q)
<1>1. Cardinality(S) \in Nat
  BY FS_CardinalityType
<1>2. PICK n \in 0..Cardinality(S) : q \in [1..n -> S]
  BY DEF Lists, SeqOf
<1>3. n \in Nat
  BY <1>1
<1>4. \A X : \A h \in [1..n -> X] : h \in Seq(X) /\ Len(h) = n
  BY <1>3
<1> QED BY <1>2, <1>3, <1>4 DEF Lists

(* All users are told in their order; a count that is not theirs, or a row    *)
(* that cannot be read, is an error.                                          *)
LEMMA UsersExact == \A r \in UsersReports : Faithful(r)
<1> SUFFICES ASSUME NEW r \in UsersReports PROVE Faithful(r)
  OBVIOUS
<1>1. ASSUME NEW users \in Lists(Users), NEW ran \in Users, NEW k \in 0..Cardinality(Users),
             r = UsersReport(users, ran, k)
      PROVE  Faithful(r)
  <2>1. PICK n \in Nat : users \in [1..n -> Users] /\ Len(users) = n /\ Distinct(users)
    BY DumpsAssumption, ListIs
  <2>2. PICK values : values = UserRows(users, ran)
    OBVIOUS
  <2>3. values = [i \in 1..n |-> [id |-> users[i], running |-> users[i] = ran]]
    BY <2>1, <2>2 DEF UserRows
  <2>4. PICK rows : rows = [i \in DOMAIN users |-> [user |-> UserRows(users, ran)[i]]]
    OBVIOUS
  <2>5. rows = [i \in 1..n |-> rows[i]] /\ \A i \in 1..n : rows[i] = [user |-> values[i]]
    BY <2>1, <2>2, <2>4
  <2>6. PICK t : t = <<[users |-> k]>> \o rows
    OBVIOUS
  <2>7. DOMAIN t = 1..n + 1 /\ t[1] = [users |-> k] /\ \A i \in 1..n : t[i + 1] = rows[i]
    BY <2>5, <2>6, LinesAfter
  <2>8. \A j \in 1..n + 1 : j = 1 \/ \E i \in 1..n : j = i + 1
    <3>1. \A j \in 1..n + 1 : j = 1 \/ (j - 1 \in 1..n /\ j = (j - 1) + 1)
      OBVIOUS
    <3> QED BY <3>1
  <2>9. Holding(t, "odd_user") = {} /\ Holding(t, "users") = {1}
    <3>1. ~Holds(t[1], "odd_user") /\ Holds(t[1], "users") /\ t[1]["users"] = k
      BY <2>7 DEF Holds
    <3>2. \A i \in 1..n : ~Holds(t[i + 1], "odd_user") /\ ~Holds(t[i + 1], "users")
      BY <2>5, <2>7 DEF Holds
    <3>3. Holding(t, "odd_user") = {j \in 1..n + 1 : Holds(t[j], "odd_user")}
          /\ Holding(t, "users") = {j \in 1..n + 1 : Holds(t[j], "users")}
      BY <2>7 DEF Holding
    <3>4. \A j \in 1..n + 1 : ~Holds(t[j], "odd_user") /\ (Holds(t[j], "users") <=> j = 1)
      <4> SUFFICES ASSUME NEW j \in 1..n + 1
                   PROVE  ~Holds(t[j], "odd_user") /\ (Holds(t[j], "users") <=> j = 1)
        OBVIOUS
      <4>1. CASE j = 1
        BY <3>1, <4>1
      <4>2. CASE \E i \in 1..n : j = i + 1
        BY <3>2, <4>2
      <4> QED BY <2>8, <4>1, <4>2
    <3>5. 1 \in 1..n + 1
      OBVIOUS
    <3> QED BY <3>3, <3>4, <3>5
  <2>10. SearchLast(t, "users") = <<k>>
    <3>1. PICK i \in 1..n + 1 : i = 1
      OBVIOUS
    <3>2. SearchLast(t, "users") = <<t[i]["users"]>>
      BY <2>9, <3>1, SearchLastOnly
    <3> QED BY <2>7, <3>1, <3>2
  <2>11. FindAll(t, "user") = values /\ Len(values) = n
    <3>1. PICK S : S = {values[i] : i \in 1..n}
      OBVIOUS
    <3>2. values \in [1..n -> S]
      BY <2>3, <3>1
    <3>3. \A X : \A h \in [1..n -> X] : h \in Seq(X) /\ Len(h) = n
      OBVIOUS
    <3>4. values \in Seq(S) /\ Len(values) = n
      BY <3>2, <3>3
    <3>5. PICK p : p = "user"
      OBVIOUS
    <3>6. ~Holds(t[1], p) /\ \A i \in 1..n : Holds(t[i + 1], p) /\ t[i + 1][p] = values[i]
      BY <2>5, <2>7, <3>5 DEF Holds
    <3>7. FindAll(t, p) = values
      BY <2>7, <3>4, <3>6, FoundAfter
    <3> QED BY <3>4, <3>5, <3>7
  <2>12. Distinct([i \in DOMAIN values |-> values[i].id])
    <3>1. [i \in DOMAIN values |-> values[i].id] = users
      BY <2>1, <2>3
    <3> QED BY <2>1, <3>1
  <2>13. ParseUsers(t) = IF k = n THEN <<values>> ELSE Nothing
    <3>1. (<<k>> = <<n>>) <=> k = n
      OBVIOUS
    <3> QED BY <2>9, <2>10, <2>11, <2>12, <3>1 DEF ParseUsers
  <2>14. PICK known : known = KnownIf(k = n)
    OBVIOUS
  <2>15. r = Report("users", 0, known, values, t)
    <3>1. r = Report("users", 0, KnownIf(k = n), values, <<[users |-> k]>> \o rows)
      BY <1>1, <2>1, <2>2, <2>4, Zenon DEF UsersReport
    <3> QED BY <2>6, <2>14, <3>1, Zenon
  <2>16. r.form = known /\ r.facts = values /\ Parse(r) = ParseUsers(t)
    BY <2>15, ReportParts, ParseOf
  <2> QED BY <2>13, <2>14, <2>16 DEF Faithful, KnownIf
<1>2. CASE r = Report("users", 0, "odd", 0, <<>>)
  <2>1. PICK t : t = <<>>
    OBVIOUS
  <2>2. Holding(t, "users") = {}
    BY <2>1 DEF Holding
  <2>3. SearchLast(t, "users") = <<>>
    BY <2>2 DEF SearchLast, Nothing
  <2>4. ParseUsers(t) = Nothing
    BY <2>3 DEF ParseUsers
  <2> QED BY <1>2, <2>1, <2>4, ReportParts, ParseOf DEF Faithful
<1>3. CASE r = Report("users", 0, "odd", 0, <<[users |-> 1], [odd_user |-> TRUE]>>)
  <2>1. PICK t : t = <<[users |-> 1], [odd_user |-> TRUE]>>
    OBVIOUS
  <2>2. 2 \in Holding(t, "odd_user")
    BY <2>1 DEF Holding, Holds
  <2>3. ParseUsers(t) = Nothing
    BY <2>2 DEF ParseUsers
  <2> QED BY <1>3, <2>1, <2>3, ReportParts, ParseOf DEF Faithful
<1>4. CASE r \in {Report("users", 0, "odd", 0, lines) : lines \in {<<>>, <<[users |-> 1], [odd_user |-> TRUE]>>}}
  BY <1>2, <1>3, <1>4
<1>5. CASE \E users \in Lists(Users), ran \in Users, k \in 0..Cardinality(Users) :
             r = UsersReport(users, ran, k)
  BY <1>1, <1>5
<1> QED BY <1>4, <1>5 DEF UsersReports

(* A first part that is empty adds nothing to the whole.                      *)
LEMMA FlattenAfterEmpty ==
    ASSUME NEW S, NEW parts \in Seq(Seq(S)), NEW seqs \in Seq(Seq(S)), Len(seqs) = Len(parts) + 1,
           seqs[1] = <<>>, \A i \in 1..Len(parts) : seqs[i + 1] = parts[i]
    PROVE  FlattenSeq(seqs) = FlattenSeq(parts)
<1>1. PICK n \in Nat : n = Len(parts) /\ Len(seqs) = n + 1
  OBVIOUS
<1> DEFINE j == Joined(seqs)
           q == Joined(parts)
           T == {k \in Nat : k <= n => j[k + 1] = q[k]}
<1>2. j[0] = <<>> /\ \A k \in 1..n + 1 : j[k] = j[k - 1] \o seqs[k]
  BY <1>1, JoinedDef
<1>3. q[0] = <<>> /\ \A k \in 1..n : q[k] = q[k - 1] \o parts[k]
  BY <1>1, JoinedDef
<1>4. FlattenSeq(seqs) = j[n + 1] /\ FlattenSeq(parts) = q[n]
  BY <1>1, FlattenIsJoined
<1> HIDE DEF j, q
<1>5. 0 \in T
  <2>1. j[1] = <<>> \o <<>>
    <3>1. 1 \in 1..n + 1 /\ 1 - 1 = 0 /\ seqs[1] = <<>>
      BY <1>1
    <3> QED BY <1>2, <3>1
  <2> QED BY <1>3, <2>1
<1>6. ASSUME NEW k \in Nat, k \in T PROVE k + 1 \in T
  <2> SUFFICES ASSUME k + 1 <= n PROVE j[(k + 1) + 1] = q[k + 1]
    BY SMTT(30)
  <2>1. /\ k + 1 \in 1..n /\ (k + 1) - 1 = k
        /\ (k + 1) + 1 \in 1..n + 1 /\ ((k + 1) + 1) - 1 = k + 1
    BY <1>1
  <2>2. j[k + 1] = q[k]
    BY <1>1, <1>6, <2>1
  <2>3. q[k + 1] = q[k] \o parts[k + 1]
    BY <1>3, <2>1
  <2>4. j[(k + 1) + 1] = j[k + 1] \o seqs[(k + 1) + 1]
    BY <1>2, <2>1
  <2>5. seqs[(k + 1) + 1] = parts[k + 1]
    BY <1>1, <2>1
  <2> QED BY <2>2, <2>3, <2>4, <2>5
<1> HIDE DEF T
<1>7. n \in T
  BY <1>1, <1>5, <1>6, InductionOverNat
<1> QED BY <1>4, <1>7 DEF T

(* The physical displays with a row in a known form are told exactly; none at *)
(* all is an error.                                                           *)
LEMMA PhysicalExact ==
    ASSUME NEW displays \in Lists(Displays), NEW odd \in SUBSET Displays, NEW r, r = PhysicalReport(displays, odd)
    PROVE  Faithful(r)
<1>1. PICK n \in Nat : displays \in [1..n -> Displays] /\ DOMAIN displays = 1..n
  BY DumpsAssumption, ListIs
<1>2. PICK rows : rows = PhysicalRows(displays, odd)
  OBVIOUS
<1>3. /\ rows = [i \in 1..n |-> rows[i]]
      /\ \A i \in 1..n : rows[i] = IF displays[i] \in odd THEN Noise ELSE [physical |-> displays[i]]
  BY <1>1, <1>2 DEF PhysicalRows
<1>4. PICK t : t = <<Noise>> \o rows
  OBVIOUS
<1>5. DOMAIN t = 1..n + 1 /\ t[1] = Noise /\ \A i \in 1..n : t[i + 1] = rows[i]
  BY <1>3, <1>4, LinesAfter
<1>6. PICK p : p = "physical"
  OBVIOUS
<1>7. ~Holds(Noise, p) /\ \A d : Holds([physical |-> d], p) /\ [physical |-> d][p] = d
  BY <1>6 DEF Holds, Noise
<1>8. PICK parts : parts = [i \in 1..n |-> IF displays[i] \in odd THEN <<>> ELSE <<displays[i]>>]
  OBVIOUS
<1>9. PICK seqs : seqs = [i \in 1..n + 1 |-> IF Holds(t[i], p) THEN <<t[i][p]>> ELSE <<>>]
  OBVIOUS
<1>10. seqs[1] = <<>> /\ \A i \in 1..n : seqs[i + 1] = parts[i] /\ parts[i] \in Seq(Displays)
  <2>1. seqs[1] = <<>>
    <3>1. 1 \in 1..n + 1
      OBVIOUS
    <3> QED BY <1>5, <1>7, <1>9, <3>1
  <2>2. ASSUME NEW i \in 1..n PROVE seqs[i + 1] = parts[i] /\ parts[i] \in Seq(Displays)
    <3>1. i + 1 \in 1..n + 1 /\ t[i + 1] = rows[i]
      BY <1>5
    <3>2. seqs[i + 1] = IF Holds(rows[i], p) THEN <<rows[i][p]>> ELSE <<>>
      BY <1>9, <3>1
    <3>3. CASE displays[i] \in odd
      <4>1. rows[i] = Noise /\ parts[i] = <<>>
        BY <1>3, <1>8, <3>3
      <4> QED BY <1>7, <3>2, <4>1
    <3>4. CASE displays[i] \notin odd
      <4>1. rows[i] = [physical |-> displays[i]] /\ parts[i] = <<displays[i]>> /\ displays[i] \in Displays
        BY <1>1, <1>3, <1>8, <3>4
      <4>2. seqs[i + 1] = <<displays[i]>>
        BY <1>7, <3>2, <4>1
      <4> QED BY <4>1, <4>2
    <3> QED BY <3>3, <3>4
  <2> QED BY <2>1, <2>2
<1>11. /\ parts \in Seq(Seq(Displays)) /\ Len(parts) = n
       /\ seqs \in Seq(Seq(Displays)) /\ Len(seqs) = n + 1
  <2>1. parts \in [1..n -> Seq(Displays)]
    BY <1>8, <1>10
  <2>2. seqs \in [1..n + 1 -> Seq(Displays)]
    <3>1. ASSUME NEW k \in 1..n + 1 PROVE seqs[k] \in Seq(Displays)
      <4>1. CASE k = 1
        <5>1. <<>> \in Seq(Displays)
          OBVIOUS
        <5> QED BY <1>10, <4>1, <5>1
      <4>2. CASE k # 1
        <5>1. PICK i \in 1..n : k = i + 1
          <6>1. k - 1 \in 1..n /\ k = (k - 1) + 1
            BY <4>2
          <6> QED BY <6>1
        <5> QED BY <1>10, <5>1
      <4> QED BY <4>1, <4>2
    <3> QED BY <1>9, <3>1
  <2>3. \A X : \A m \in Nat : \A h \in [1..m -> X] : h \in Seq(X) /\ Len(h) = m
    OBVIOUS
  <2>4. n + 1 \in Nat
    OBVIOUS
  <2> QED BY <2>1, <2>2, <2>3, <2>4
<1>12. FlattenSeq(seqs) = FlattenSeq(parts)
  BY <1>10, <1>11, FlattenAfterEmpty
<1>13. FindAll(t, p) = Legible(displays, odd)
  BY <1>1, <1>5, <1>8, <1>9, <1>12 DEF FindAll, Legible
<1>14. PICK readable : readable = Legible(displays, odd)
  OBVIOUS
<1>15. ParsePhysical(t) = IF readable = <<>> THEN Nothing ELSE <<readable>>
  BY <1>6, <1>13, <1>14 DEF ParsePhysical
<1>16. PICK form : form = IF readable = <<>> THEN "odd"
                          ELSE IF \E i \in DOMAIN displays : displays[i] \in odd THEN "partial" ELSE "known"
  OBVIOUS
<1>17. r = Report("physical", 0, form, readable, t)
  BY <1>2, <1>4, <1>14, <1>16, Zenon DEF PhysicalReport
<1>18. /\ form = "odd" => readable = <<>>
       /\ form \in {"known", "partial"} => readable # <<>>
  BY <1>16
<1> QED BY <1>15, <1>17, <1>18, ReportParts, ParseOf DEF Faithful

--------------------------------------------------------------------------------
(* Texts of sections, each a header and rows.                                 *)

(* What the loop of each parser does with a line; a line that raises ends it. *)
LEMMA LineReadIs ==
    ASSUME NEW found, NEW line
    PROVE  /\ ~found.bad => /\ LineRead("resumed", found, line) = ResumedLine(found, line)
                            /\ LineRead("displays", found, line) = DisplayLine(found, line)
                            /\ LineRead("windows", found, line) = WindowLine(found, line)
                            /\ LineRead("occlusions", found, line) = OcclusionLine(found, line)
BY DEF LineRead

(* After an error no line is read.                                            *)
LEMMA RaisedLine == ASSUME NEW c, NEW line PROVE LineRead(c, NotParsed, line) = NotParsed
BY DEF LineRead, NotParsed

(* After an error no more lines are read.                                     *)
LEMMA RaisedStays ==
    ASSUME NEW c, NEW lines, Len(lines) \in Nat
    PROVE  LinesRead(c, NotParsed, lines) = NotParsed
<1>1. PICK a : a = [k \in 0..Len(lines) |-> NotParsed]
  OBVIOUS
<1>2. After(c, lines, a)
  BY <1>1, RaisedLine DEF After
<1>3. LinesRead(c, a[0], lines) = a[Len(lines)]
  BY <1>2, LinesReadIs
<1> QED BY <1>1, <1>3

(* Texts are sequences, whatever their lines are.                             *)
IsSeq(x) == \E m \in Nat : x = [j \in 1..m |-> x[j]]

(* A function whose values are of one type is a sequence of them.             *)
LEMMA SeqTyped ==
    ASSUME NEW n \in Nat, NEW x, x = [i \in 1..n |-> x[i]], NEW T, \A i \in 1..n : x[i] \in T
    PROVE  x \in Seq(T) /\ Len(x) = n
<1>1. x \in [1..n -> T]
  OBVIOUS
<1>2. \A X : \A h \in [1..n -> X] : h \in Seq(X) /\ Len(h) = n
  OBVIOUS
<1> QED BY <1>1, <1>2

(* A sequence of any type is a sequence.                                      *)
LEMMA TypedIsSeq == ASSUME NEW T, NEW x \in Seq(T) PROVE IsSeq(x)
<1>1. Len(x) \in Nat /\ x = [j \in 1..Len(x) |-> x[j]]
  OBVIOUS
<1> QED BY <1>1 DEF IsSeq

(* A text that begins with a header is read from what the header says.        *)
LEMMA HeadRead ==
    ASSUME NEW rows, IsSeq(rows), NEW l
    PROVE  /\ IsSeq(<<l>> \o rows)
           /\ \A c, s : LinesRead(c, s, <<l>> \o rows) = LinesRead(c, LineRead(c, s, l), rows)
<1>1. PICK m \in Nat : rows = [j \in 1..m |-> rows[j]]
  BY DEF IsSeq
<1>2. PICK S : S = {l} \cup {rows[j] : j \in 1..m}
  OBVIOUS
<1>3. l \in S /\ \A j \in 1..m : rows[j] \in S
  BY <1>2
<1>4. rows \in Seq(S)
  BY <1>1, <1>3, SeqTyped
<1>5. PICK one \in Seq(S) : one = <<l>>
  <2>1. <<l>> \in Seq(S)
    BY <1>3
  <2> QED BY <2>1
<1>6. one \o rows \in Seq(S)
  BY <1>4, ConcatProperties
<1>7. IsSeq(one \o rows)
  BY <1>6, TypedIsSeq
<1>8. ASSUME NEW c, NEW s PROVE LinesRead(c, s, one \o rows) = LinesRead(c, LineRead(c, s, l), rows)
  <2>1. LinesRead(c, s, one \o rows) = LinesRead(c, LinesRead(c, s, one), rows)
    BY <1>4, LinesReadConcat
  <2> QED BY <1>5, <2>1, LinesReadOne
<1> QED BY <1>5, <1>7, <1>8

(* A text of sections is one text.                                            *)
LEMMA SectionsAre ==
    ASSUME NEW n \in Nat, NEW seqs, seqs = [i \in 1..n |-> seqs[i]], \A i \in 1..n : IsSeq(seqs[i])
    PROVE  \E S : seqs \in Seq(Seq(S)) /\ Len(seqs) = n /\ FlattenSeq(seqs) \in Seq(S)
<1>1. PICK S : S = UNION {{seqs[i][j] : j \in DOMAIN seqs[i]} : i \in 1..n}
  OBVIOUS
<1>2. ASSUME NEW i \in 1..n PROVE seqs[i] \in Seq(S)
  <2>1. PICK m \in Nat : seqs[i] = [j \in 1..m |-> seqs[i][j]]
    BY DEF IsSeq
  <2>2. DOMAIN seqs[i] = 1..m
    BY <2>1
  <2>3. \A j \in 1..m : seqs[i][j] \in S
    <3> SUFFICES ASSUME NEW j \in 1..m PROVE seqs[i][j] \in S
      OBVIOUS
    <3>1. seqs[i][j] \in {seqs[i][h] : h \in DOMAIN seqs[i]}
      BY <2>2
    <3> QED BY <1>1, <3>1
  <2>4. PICK x : x = seqs[i]
    OBVIOUS
  <2>5. x = [j \in 1..m |-> x[j]] /\ \A j \in 1..m : x[j] \in S
    BY <2>1, <2>3, <2>4
  <2>6. x \in Seq(S)
    BY <2>5, SeqTyped
  <2> QED BY <2>4, <2>6
<1>3. seqs \in Seq(Seq(S)) /\ Len(seqs) = n
  BY <1>2, SeqTyped
<1>4. FlattenSeq(seqs) = Joined(seqs)[Len(seqs)] /\ Joined(seqs) \in [0..Len(seqs) -> Seq(S)]
  BY <1>3, FlattenIsJoined, JoinedDef
<1>5. FlattenSeq(seqs) \in Seq(S)
  <2>1. n \in 0..n
    OBVIOUS
  <2> QED BY <1>3, <1>4, <2>1
<1> QED BY <1>3, <1>5

EachRead(c, n, seqs, a) == \A i \in 1..n : LinesRead(c, a[i - 1], seqs[i]) = a[i]

(* Sections are read one after the other.                                     *)
LEMMA ManySectionsRead ==
    ASSUME NEW n \in Nat, NEW seqs, seqs = [i \in 1..n |-> seqs[i]], \A i \in 1..n : IsSeq(seqs[i]),
           NEW c, NEW a, EachRead(c, n, seqs, a)
    PROVE  LinesRead(c, a[0], FlattenSeq(seqs)) = a[n] /\ IsSeq(FlattenSeq(seqs))
<1>1. PICK S : seqs \in Seq(Seq(S)) /\ Len(seqs) = n /\ FlattenSeq(seqs) \in Seq(S)
  BY SectionsAre
<1>2. LinesRead(c, a[0], FlattenSeq(seqs)) = a[Len(seqs)]
  <2>1. \A i \in 1..Len(seqs) : LinesRead(c, a[i - 1], seqs[i]) = a[i]
    BY <1>1 DEF EachRead
  <2> QED BY <1>1, <2>1, SectionsRead
<1> QED BY <1>1, <1>2, TypedIsSeq

(* The resumed activities: what is found after a line.                        *)
Resumed(display, rows) ==
    [bad |-> FALSE, display |-> display, recognized |-> TRUE, rows |-> rows]

(* A header names the display of the rows that follow (_runtime_parsers.py    *)
(* 229-253).                                                                  *)
LEMMA ResumedHeader ==
    ASSUME NEW display, NEW rows, NEW d
    PROVE  LineRead("resumed", Resumed(display, rows), [display |-> d]) = Resumed(<<d>>, rows)
<1>1. ResumedLine(Resumed(display, rows), [display |-> d]) = Resumed(<<d>>, rows)
  BY DEF ResumedLine, Resumed, Holds
<1> QED BY <1>1, LineReadIs DEF Resumed

(* A row in an odd form is an error, whatever was found before.               *)
LEMMA ResumedOdd ==
    ASSUME NEW display, NEW rows
    PROVE  LineRead("resumed", Resumed(display, rows), [odd_resumed |-> TRUE]) = NotParsed
<1>1. ResumedLine(Resumed(display, rows), [odd_resumed |-> TRUE]) = NotParsed
  BY DEF ResumedLine, Resumed, Holds
<1> QED BY <1>1, LineReadIs DEF Resumed

(* A row is found for the display its header named.                           *)
LEMMA ResumedRow ==
    ASSUME NEW rows, NEW d, NEW p
    PROVE  LineRead("resumed", Resumed(<<d>>, rows), [resumed |-> p]) = Resumed(<<d>>, Append(rows, <<d, p>>))
<1>1. ResumedLine(Resumed(<<d>>, rows), [resumed |-> p]) = Resumed(<<d>>, Append(rows, <<d, p>>))
  BY DEF ResumedLine, Resumed, Holds, Nothing
<1> QED BY <1>1, LineReadIs DEF Resumed

--------------------------------------------------------------------------------
(* Resumed activities.                                                        *)

AnyOf(n, packages, odd) == \E i \in 1..n : packages[i] = odd

(* The rows of one display, all of them or an error.                          *)
LEMMA ResumedRowsRead ==
    ASSUME NEW n \in Nat, NEW packages, packages = [i \in 1..n |-> packages[i]],
           NEW odd, NEW d, NEW S, NEW before \in Seq(S), \A i \in 1..n : <<d, packages[i]>> \in S
    PROVE  LinesRead("resumed", Resumed(<<d>>, before), ResumedRows(packages, odd))
             = IF AnyOf(n, packages, odd) THEN NotParsed
               ELSE Resumed(<<d>>, before \o ResumedFacts(d, packages))
<1>1. PICK lines : lines = ResumedRows(packages, odd)
  OBVIOUS
<1>2. DOMAIN lines = 1..n /\ Len(lines) = n
      /\ \A i \in 1..n : lines[i] = IF packages[i] = odd THEN [odd_resumed |-> TRUE] ELSE [resumed |-> packages[i]]
  <2>1. lines = [i \in 1..n |-> lines[i]]
        /\ \A i \in 1..n : lines[i] = IF packages[i] = odd THEN [odd_resumed |-> TRUE] ELSE [resumed |-> packages[i]]
    BY <1>1 DEF ResumedRows
  <2>2. PICK T : T = {lines[i] : i \in 1..n}
    OBVIOUS
  <2>3. \A i \in 1..n : lines[i] \in T
    BY <2>2
  <2>4. lines \in Seq(T) /\ Len(lines) = n
    BY <2>1, <2>3, SeqTyped
  <2> QED BY <2>1, <2>4
<1>3. PICK facts : facts = ResumedFacts(d, packages)
  OBVIOUS
<1>4. facts \in Seq(S) /\ Len(facts) = n /\ \A i \in 1..n : facts[i] = <<d, packages[i]>>
  <2>1. facts = [i \in 1..n |-> facts[i]] /\ \A i \in 1..n : facts[i] = <<d, packages[i]>>
    BY <1>3 DEF ResumedFacts
  <2>2. \A i \in 1..n : facts[i] \in S
    BY <2>1
  <2> QED BY <2>1, <2>2, SeqTyped
<1> DEFINE Odd(k) == \E i \in 1..k : packages[i] = odd
           Rows(k) == before \o SubSeq(facts, 1, k)
           State(k) == IF Odd(k) THEN NotParsed ELSE Resumed(<<d>>, Rows(k))
<1>5. PICK a : a = [k \in 0..n |-> State(k)]
  OBVIOUS
<1>6. ASSUME NEW k \in 1..n PROVE State(k) = LineRead("resumed", State(k - 1), lines[k])
  <2>1. k - 1 \in 0..n /\ \A i \in 1..k : i = k \/ i \in 1..k - 1
    OBVIOUS
  <2>2. CASE Odd(k - 1)
    <3>1. Odd(k)
      BY <2>2
    <3> HIDE DEF Odd
    <3> QED BY <2>2, <3>1, RaisedLine
  <2>3. CASE ~Odd(k - 1) /\ packages[k] = odd
    <3>1. Odd(k)
      BY <2>3
    <3>2. lines[k] = [odd_resumed |-> TRUE]
      BY <1>2, <2>3
    <3> HIDE DEF Odd, Rows
    <3> QED BY <2>3, <3>1, <3>2, ResumedOdd
  <2>4. CASE ~Odd(k - 1) /\ packages[k] # odd
    <3>1. ~Odd(k)
      BY <2>1, <2>4
    <3>2. lines[k] = [resumed |-> packages[k]]
      BY <1>2, <2>4
    <3>3. Rows(k) = Append(Rows(k - 1), <<d, packages[k]>>)
      <4>1. PICK x \in Seq(S) : x = SubSeq(facts, 1, k - 1)
        <5>1. k - 1 \in 0..Len(facts)
          BY <1>4
        <5>2. SubSeq(facts, 1, k - 1) \in Seq(S)
          BY <1>4, <5>1, SubSeqStart
        <5> QED BY <5>2
      <4>2. SubSeq(facts, 1, k) = SubSeq(facts, 1, k - 1) \o <<facts[k]>>
        <5>1. 1 \in 1..Len(facts) /\ k \in 1..Len(facts)
          BY <1>4
        <5> QED BY <1>4, <5>1, SubSeqRecursiveSecond
      <4>3. SubSeq(facts, 1, k) = x \o <<facts[k]>> /\ <<facts[k]>> \in Seq(S) /\ facts[k] \in S
        BY <1>4, <4>1, <4>2, SMTT(30)
      <4>4. before \o (x \o <<facts[k]>>) = (before \o x) \o <<facts[k]>>
        BY <4>3, ConcatAssociative
      <4>5. PICK y \in Seq(S) : y = before \o x
        BY ConcatProperties
      <4>6. y \o <<facts[k]>> = Append(y, facts[k])
        BY <4>3, AppendIsConcat
      <4>7. Rows(k) = before \o (x \o <<facts[k]>>) /\ Rows(k - 1) = y
        BY <4>1, <4>3, <4>5
      <4> QED BY <1>4, <4>4, <4>5, <4>6, <4>7
    <3>4. PICK x, p : x = Rows(k - 1) /\ p = packages[k]
      OBVIOUS
    <3> HIDE DEF Odd, Rows
    <3>5. LineRead("resumed", Resumed(<<d>>, x), [resumed |-> p]) = Resumed(<<d>>, Append(x, <<d, p>>))
      BY ResumedRow
    <3> QED BY <2>4, <3>1, <3>2, <3>3, <3>4, <3>5
  <2> HIDE DEF Odd, State
  <2> QED BY <2>2, <2>3, <2>4
<1> HIDE DEF State
<1>7. After("resumed", lines, a)
  <2> SUFFICES ASSUME NEW k \in 1..n PROVE a[k] = LineRead("resumed", a[k - 1], lines[k])
    BY <1>2 DEF After
  <2>1. a[k] = State(k) /\ a[k - 1] = State(k - 1)
    BY <1>5
  <2> QED BY <1>6, <2>1
<1>8. LinesRead("resumed", a[0], lines) = a[n]
  BY <1>2, <1>7, LinesReadIs
<1>9. a[0] = Resumed(<<d>>, before)
  <2>1. SubSeq(facts, 1, 0) = <<>>
    BY <1>4, SubSeqEmpty
  <2>2. before \o <<>> = before
    BY ConcatEmptySeq
  <2>3. a[0] = State(0)
    BY <1>5
  <2>4. ~Odd(0)
    OBVIOUS
  <2> HIDE DEF Odd
  <2> QED BY <2>1, <2>2, <2>3, <2>4 DEF State
<1>10. a[n] = IF Odd(n) THEN NotParsed ELSE Resumed(<<d>>, before \o facts)
  <2>1. SubSeq(facts, 1, n) = facts
    BY <1>4, SubSeqFull
  <2>2. a[n] = State(n)
    BY <1>5
  <2> HIDE DEF Odd
  <2> QED BY <2>1, <2>2 DEF State
<1>11. Odd(n) <=> AnyOf(n, packages, odd)
  BY DEF AnyOf
<1> HIDE DEF Odd
<1> QED BY <1>1, <1>3, <1>8, <1>9, <1>10, <1>11

(* A report is hidden, odd or known, in this order.                           *)
LEMMA FormIs ==
    ASSUME NEW hidden \in BOOLEAN, NEW odd \in BOOLEAN
    PROVE  FormOf(hidden, odd) = IF hidden THEN "hidden" ELSE IF odd THEN "odd" ELSE "known"
BY DEF FormOf

ResumedSectionList(n, displays, on, hidden, odd) ==
    [i \in 1..n |-> Section(displays[i] = hidden, [display |-> displays[i]],
                            ResumedRows(on[displays[i]], odd))]
ResumedFactList(n, displays, on) == [i \in 1..n |-> ResumedFacts(displays[i], on[displays[i]])]

(* What is found in a text of sections: an error if there is an odd row, and  *)
(* otherwise all the facts.                                                   *)
ResumedFound(n, displays, on, odd, text, facts) ==
    LET anyOdd == \E i \in 1..n : Contains(on[displays[i]], odd)
        found == LinesRead("resumed", Resumed(Nothing, <<>>), text)
    IN  /\ IsSeq(text) /\ (anyOdd => found = NotParsed)
        /\ ~anyOdd => \E display : found = Resumed(display, facts)

(* All sections of a text whose headers are known.                            *)
LEMMA ResumedSections ==
    ASSUME NEW n \in Nat, NEW displays \in [1..n -> Displays], NEW on \in [Displays -> Lists(Packages)],
           NEW hidden, \A i \in 1..n : displays[i] # hidden, NEW odd
    PROVE  ResumedFound(n, displays, on, odd,
               FlattenSeq(ResumedSectionList(n, displays, on, hidden, odd)),
               FlattenSeq(ResumedFactList(n, displays, on)))
<1> DEFINE Header(i) == [display |-> displays[i]]
           Rows(i) == ResumedRows(on[displays[i]], odd)
           Facts(i) == ResumedFacts(displays[i], on[displays[i]])
           S == Displays \X Packages
<1>1. ASSUME NEW i \in 1..n
      PROVE  \E m \in Nat : /\ on[displays[i]] \in [1..m -> Packages] /\ Len(on[displays[i]]) = m
                            /\ IsSeq(Rows(i)) /\ Facts(i) \in Seq(S)
  <2>1. PICK m \in Nat : on[displays[i]] \in [1..m -> Packages] /\ Len(on[displays[i]]) = m
    <3>1. on[displays[i]] \in Lists(Packages)
      OBVIOUS
    <3> QED BY <3>1, DumpsAssumption, ListIs
  <2>2. PICK packages \in [1..m -> Packages] : packages = on[displays[i]]
    BY <2>1
  <2>3. IsSeq(Rows(i))
    <3>1. PICK x : x = ResumedRows(packages, odd)
      OBVIOUS
    <3>2. x = [j \in 1..m |-> x[j]]
      BY <3>1 DEF ResumedRows
    <3> QED BY <2>2, <3>1, <3>2 DEF IsSeq
  <2>4. Facts(i) \in Seq(S)
    <3>1. PICK x : x = ResumedFacts(displays[i], packages)
      OBVIOUS
    <3>2. x = [j \in 1..m |-> x[j]] /\ \A j \in 1..m : x[j] = <<displays[i], packages[j]>>
      BY <3>1 DEF ResumedFacts
    <3>3. \A j \in 1..m : x[j] \in S
      <4>1. displays[i] \in Displays /\ \A j \in 1..m : packages[j] \in Packages
        OBVIOUS
      <4>2. \A j \in 1..m : <<displays[i], packages[j]>> \in Displays \X Packages
        BY <4>1
      <4>3. \A j \in 1..m : x[j] = <<displays[i], packages[j]>>
        BY <3>2
      <4> QED BY <4>2, <4>3
    <3>4. x \in Seq(S)
      BY <3>2, <3>3, SeqTyped
    <3> QED BY <2>2, <3>1, <3>4
  <2> QED BY <2>1, <2>3, <2>4
<1>2. PICK sections : sections = ResumedSectionList(n, displays, on, hidden, odd)
  OBVIOUS
<1>3. \A i \in 1..n : sections[i] = <<Header(i)>> \o Rows(i)
  BY <1>2 DEF ResumedSectionList, Section
<1>4. PICK facts : facts = ResumedFactList(n, displays, on)
  OBVIOUS
<1>5. facts \in Seq(Seq(S)) /\ Len(facts) = n /\ \A i \in 1..n : facts[i] = Facts(i)
  <2>1. facts = [i \in 1..n |-> facts[i]] /\ \A i \in 1..n : facts[i] = Facts(i)
    BY <1>4 DEF ResumedFactList
  <2>2. \A i \in 1..n : facts[i] \in Seq(S)
    BY <1>1, <2>1
  <2> HIDE DEF S
  <2> QED BY <2>1, <2>2, SeqTyped
<1>6. PICK j : j = Joined(facts)
  OBVIOUS
<1>7. /\ j[0] = <<>> /\ \A i \in 0..n : j[i] \in Seq(S)
      /\ \A i \in 1..n : j[i] = j[i - 1] \o facts[i]
      /\ FlattenSeq(facts) = j[n]
  <2> HIDE DEF S
  <2> QED BY <1>5, <1>6, JoinedDef, FlattenIsJoined
<1> DEFINE OddAt(i) == Contains(on[displays[i]], odd)
           Odd(k) == \E i \in 1..k : OddAt(i)
           Display(k) == IF k = 0 THEN Nothing ELSE <<displays[k]>>
           State(k) == IF Odd(k) THEN NotParsed ELSE Resumed(Display(k), j[k])
<1>8. PICK a : a = [k \in 0..n |-> State(k)]
  OBVIOUS
<1>9. ASSUME NEW k \in 1..n PROVE LinesRead("resumed", State(k - 1), sections[k]) = State(k)
  <2>1. PICK m \in Nat : /\ on[displays[k]] \in [1..m -> Packages] /\ Len(on[displays[k]]) = m
                         /\ IsSeq(Rows(k)) /\ Facts(k) \in Seq(S)
    BY <1>1
  <2>2. LinesRead("resumed", State(k - 1), sections[k])
          = LinesRead("resumed", LineRead("resumed", State(k - 1), Header(k)), Rows(k))
    <3>1. PICK h, rows, s : h = Header(k) /\ rows = Rows(k) /\ s = State(k - 1)
      OBVIOUS
    <3>2. sections[k] = <<h>> \o rows /\ IsSeq(rows)
      BY <1>3, <2>1, <3>1
    <3>3. LinesRead("resumed", s, <<h>> \o rows) = LinesRead("resumed", LineRead("resumed", s, h), rows)
      BY <3>2, HeadRead
    <3> HIDE DEF State, Header, Rows
    <3> QED BY <3>1, <3>2, <3>3
  <2>3. Odd(k) <=> Odd(k - 1) \/ OddAt(k)
    <3>1. \A i \in 1..k : i = k \/ i \in 1..k - 1
      OBVIOUS
    <3> HIDE DEF OddAt
    <3> QED BY <3>1
  <2>4. CASE Odd(k - 1)
    <3>1. State(k - 1) = NotParsed /\ State(k) = NotParsed
      <4> HIDE DEF Odd
      <4> QED BY <2>3, <2>4
    <3>2. Len(Rows(k)) \in Nat
      <4>1. PICK x : x = Rows(k)
        OBVIOUS
      <4>2. PICK m2 \in Nat : x = [i \in 1..m2 |-> x[i]]
        BY <2>1, <4>1 DEF IsSeq
      <4>3. PICK T : T = {x[i] : i \in 1..m2}
        OBVIOUS
      <4>4. \A i \in 1..m2 : x[i] \in T
        BY <4>3
      <4>5. Len(x) = m2
        BY <4>2, <4>4, SeqTyped
      <4> QED BY <4>1, <4>5
    <3> HIDE DEF State, Header, Rows
    <3> QED BY <2>2, <3>1, <3>2, RaisedLine, RaisedStays
  <2>5. CASE ~Odd(k - 1)
    <3>1. State(k - 1) = Resumed(Display(k - 1), j[k - 1])
      <4> HIDE DEF Odd
      <4> QED BY <2>5
    <3>2. LineRead("resumed", State(k - 1), Header(k)) = Resumed(<<displays[k]>>, j[k - 1])
      <4> HIDE DEF State, Display
      <4> QED BY <3>1, ResumedHeader
    <3>3. PICK packages \in [1..m -> Packages] : packages = on[displays[k]]
      BY <2>1
    <3>4. PICK before \in Seq(S), d \in Displays : before = j[k - 1] /\ d = displays[k]
      <4>1. k - 1 \in 0..n
        OBVIOUS
      <4> QED BY <1>7, <4>1
    <3>5. packages = [i \in 1..m |-> packages[i]] /\ \A i \in 1..m : <<d, packages[i]>> \in S
      OBVIOUS
    <3>6. LinesRead("resumed", Resumed(<<d>>, before), ResumedRows(packages, odd))
            = IF AnyOf(m, packages, odd) THEN NotParsed
              ELSE Resumed(<<d>>, before \o ResumedFacts(d, packages))
      <4> HIDE DEF S
      <4> QED BY <3>5, ResumedRowsRead
    <3>7. OddAt(k) <=> AnyOf(m, packages, odd)
      BY <2>1, <3>3 DEF Contains, AnyOf
    <3>8. before \o ResumedFacts(d, packages) = j[k] /\ Display(k) = <<d>>
      <4>1. facts[k] = ResumedFacts(d, packages)
        BY <1>5, <3>3, <3>4
      <4>2. j[k] = j[k - 1] \o facts[k]
        BY <1>7
      <4>3. Display(k) = <<displays[k]>>
        OBVIOUS
      <4> HIDE DEF Display
      <4> QED BY <3>4, <4>1, <4>2, <4>3
    <3>9. LinesRead("resumed", State(k - 1), sections[k])
            = LinesRead("resumed", Resumed(<<d>>, before), ResumedRows(packages, odd))
      <4>1. Rows(k) = ResumedRows(packages, odd)
        BY <3>3
      <4> HIDE DEF State, Header, Rows
      <4> QED BY <2>2, <3>2, <3>4, <4>1
    <3>10. State(k) = IF OddAt(k) THEN NotParsed ELSE Resumed(<<d>>, j[k])
      <4> HIDE DEF Odd, OddAt, Display
      <4> QED BY <2>3, <2>5, <3>8
    <3> HIDE DEF State, OddAt, Odd
    <3> QED BY <3>6, <3>7, <3>8, <3>9, <3>10
  <2> QED BY <2>4, <2>5
<1> HIDE DEF State
<1>10. sections = [i \in 1..n |-> sections[i]] /\ \A i \in 1..n : IsSeq(sections[i])
  <2>1. ASSUME NEW i \in 1..n PROVE IsSeq(sections[i])
    <3>1. IsSeq(Rows(i))
      BY <1>1
    <3> HIDE DEF Header, Rows
    <3> QED BY <1>3, <3>1, HeadRead
  <2>2. sections = [i \in 1..n |-> sections[i]]
    BY <1>2 DEF ResumedSectionList
  <2> QED BY <2>1, <2>2
<1>11. \A i \in 1..n : LinesRead("resumed", a[i - 1], sections[i]) = a[i]
  <2> SUFFICES ASSUME NEW i \in 1..n PROVE LinesRead("resumed", a[i - 1], sections[i]) = a[i]
    OBVIOUS
  <2>1. a[i] = State(i) /\ a[i - 1] = State(i - 1)
    BY <1>8
  <2> QED BY <1>9, <2>1
<1>12. LinesRead("resumed", a[0], FlattenSeq(sections)) = a[n] /\ IsSeq(FlattenSeq(sections))
  <2>1. EachRead("resumed", n, sections, a)
    BY <1>11 DEF EachRead
  <2> QED BY <1>10, <2>1, ManySectionsRead
<1>13. a[0] = Resumed(Nothing, <<>>)
  <2>1. ~Odd(0) /\ Display(0) = Nothing /\ a[0] = State(0)
    BY <1>8
  <2> HIDE DEF Odd, Display
  <2> QED BY <1>7, <2>1 DEF State
<1>14. a[n] = IF Odd(n) THEN NotParsed ELSE Resumed(Display(n), FlattenSeq(facts))
  <2>1. a[n] = State(n)
    BY <1>8
  <2> HIDE DEF Odd, Display
  <2> QED BY <1>7, <2>1 DEF State
<1> HIDE DEF Display, OddAt
<1>15. ResumedFound(n, displays, on, odd, FlattenSeq(sections), FlattenSeq(facts))
  BY <1>12, <1>13, <1>14 DEF OddAt, ResumedFound
<1> QED BY <1>2, <1>4, <1>15

(* Resumed activities are told exactly: every row with its own display, and   *)
(* never those of another.                                                    *)
LEMMA ResumedExact == \A r \in ResumedReports : Faithful(r)
<1> SUFFICES ASSUME NEW r \in ResumedReports PROVE Faithful(r)
  OBVIOUS
<1>1. PICK displays \in Lists(Displays), on \in [Displays -> Lists(Packages)],
           hidden \in Displays \cup {NoDisplay}, odd \in Packages \cup {"none"} :
        r = ResumedReport(displays, on, hidden, odd)
  BY DEF ResumedReports
<1>2. PICK n \in Nat : displays \in [1..n -> Displays] /\ Len(displays) = n
  BY DumpsAssumption, ListIs
<1>3. PICK sections, facts :
        sections = ResumedSectionList(n, displays, on, hidden, odd) /\ facts = ResumedFactList(n, displays, on)
  OBVIOUS
<1>4. PICK t : t = FlattenSeq(sections)
  OBVIOUS
<1>5. PICK lines : lines = <<[title |-> TRUE]>> \o t
  OBVIOUS
<1>6. DOMAIN displays = 1..n
  BY <1>2
<1> DEFINE Hidden == Contains(displays, hidden)
           Odd == \E i \in 1..n : Contains(on[displays[i]], odd)
<1>7. PICK form : form = FormOf(Hidden, Odd)
  OBVIOUS
<1>8. r = Report("resumed", 0, form, FlattenSeq(facts), lines)
  <2>1. r = Report("resumed", 0, FormOf(Contains(displays, hidden), \E i \in 1..n : Contains(on[displays[i]], odd)),
                   FlattenSeq(facts), lines)
    BY <1>1, <1>3, <1>4, <1>5, <1>6, Zenon DEF ResumedReport, ResumedSectionList, ResumedFactList
  <2> QED BY <1>7, <2>1, Zenon
<1>9. r.form = form /\ r.facts = FlattenSeq(facts) /\ Parse(r) = ParseResumed(lines)
  BY <1>8, ReportParts, ParseOf
<1>10. form = IF Hidden THEN "hidden" ELSE IF Odd THEN "odd" ELSE "known"
  <2>1. Hidden \in BOOLEAN /\ Odd \in BOOLEAN
    BY DEF Contains
  <2> HIDE DEF Hidden, Odd
  <2> QED BY <1>7, <2>1, FormIs
<1>11. CASE ~Hidden
  <2>1. \A i \in 1..n : displays[i] # hidden
    BY <1>2, <1>11 DEF Contains
  <2>2. PICK found : found = LinesRead("resumed", Resumed(Nothing, <<>>), t)
    OBVIOUS
  <2>3. /\ IsSeq(t) /\ (Odd => found = NotParsed)
        /\ ~Odd => \E display : found = Resumed(display, FlattenSeq(facts))
    <3>1. ResumedFound(n, displays, on, odd, FlattenSeq(sections), FlattenSeq(facts))
      BY <1>2, <1>3, <2>1, ResumedSections
    <3> QED BY <1>4, <2>2, <3>1 DEF ResumedFound
  <2>4. PICK start : start = [bad |-> FALSE, display |-> Nothing, recognized |-> FALSE, rows |-> <<>>]
    OBVIOUS
  <2>5. LineRead("resumed", start, [title |-> TRUE]) = Resumed(Nothing, <<>>)
    <3>1. ResumedLine(start, [title |-> TRUE]) = Resumed(Nothing, <<>>)
      BY <2>4 DEF ResumedLine, Resumed, Holds
    <3>2. ~start.bad
      BY <2>4
    <3> QED BY <3>1, <3>2, LineReadIs
  <2>6. LinesRead("resumed", start, lines) = found
    <3>1. LinesRead("resumed", start, lines) = LinesRead("resumed", LineRead("resumed", start, [title |-> TRUE]), t)
      BY <1>5, <2>3, HeadRead
    <3> QED BY <2>2, <2>5, <3>1
  <2>7. ParseResumed(lines) = IF ~found.bad /\ found.recognized THEN <<found.rows>> ELSE Nothing
    BY <2>4, <2>6 DEF ParseResumed
  <2>8. CASE Odd
    <3>1. found = NotParsed
      BY <2>3, <2>8
    <3>2. ParseResumed(lines) = Nothing
      BY <2>7, <3>1 DEF NotParsed
    <3>3. form = "odd"
      <4> HIDE DEF Hidden, Odd
      <4> QED BY <1>10, <1>11, <2>8
    <3> QED BY <1>9, <3>2, <3>3 DEF Faithful
  <2>9. CASE ~Odd
    <3>1. PICK display : found = Resumed(display, FlattenSeq(facts))
      BY <2>3, <2>9
    <3>2. ParseResumed(lines) = <<FlattenSeq(facts)>>
      BY <2>7, <3>1 DEF Resumed
    <3>3. form = "known"
      <4> HIDE DEF Hidden, Odd
      <4> QED BY <1>10, <1>11, <2>9
    <3> QED BY <1>9, <3>2, <3>3 DEF Faithful
  <2> QED BY <2>8, <2>9
<1>12. CASE Hidden
  <2>1. form = "hidden"
    <3> HIDE DEF Hidden, Odd
    <3> QED BY <1>10, <1>12
  <2> QED BY <1>9, <2>1 DEF Faithful
<1> QED BY <1>11, <1>12

--------------------------------------------------------------------------------
(* What takes part of a display.                                              *)

(* Two lines, one after the other.                                            *)
LEMMA LinesReadTwo ==
    ASSUME NEW c, NEW s, NEW x, NEW y
    PROVE  LinesRead(c, s, <<x, y>>) = LineRead(c, LineRead(c, s, x), y) /\ IsSeq(<<x, y>>)
<1>0. PICK t : t = <<x, y>>
  OBVIOUS
<1>1. t = <<x, y>> /\ Len(t) = 2 /\ t[1] = x /\ t[2] = y /\ t = [j \in 1..2 |-> t[j]]
  BY <1>0
<1>2. PICK r : r[0] = s /\ LinesRead(c, s, t) = r[Len(t)] /\ After(c, t, r)
  BY <1>1, LinesReadDef
<1>3. r[1] = LineRead(c, r[0], t[1]) /\ r[2] = LineRead(c, r[1], t[2])
  <2>1. 1 \in 1..Len(t) /\ 2 \in 1..Len(t) /\ 1 - 1 = 0 /\ 2 - 1 = 1
    BY <1>1
  <2> QED BY <1>2, <2>1 DEF After
<1>4. IsSeq(t)
  BY <1>1 DEF IsSeq
<1> QED BY <1>1, <1>2, <1>3, <1>4

(* Three lines, one after the other.                                          *)
LEMMA LinesReadThree ==
    ASSUME NEW c, NEW s, NEW x, NEW y, NEW z
    PROVE  LinesRead(c, s, <<x, y, z>>) = LineRead(c, LineRead(c, LineRead(c, s, x), y), z) /\ IsSeq(<<x, y, z>>)
<1>0. PICK t : t = <<x, y, z>>
  OBVIOUS
<1>1. t = <<x, y, z>> /\ Len(t) = 3 /\ t[1] = x /\ t[2] = y /\ t[3] = z /\ t = [j \in 1..3 |-> t[j]]
  BY <1>0
<1>2. PICK r : r[0] = s /\ LinesRead(c, s, t) = r[Len(t)] /\ After(c, t, r)
  BY <1>1, LinesReadDef
<1>3. r[1] = LineRead(c, r[0], t[1]) /\ r[2] = LineRead(c, r[1], t[2]) /\ r[3] = LineRead(c, r[2], t[3])
  <2>1. 1 \in 1..Len(t) /\ 2 \in 1..Len(t) /\ 3 \in 1..Len(t) /\ 1 - 1 = 0 /\ 2 - 1 = 1 /\ 3 - 1 = 2
    BY <1>1
  <2> QED BY <1>2, <2>1 DEF After
<1>4. IsSeq(t)
  BY <1>1 DEF IsSeq
<1> QED BY <1>1, <1>2, <1>3, <1>4

(* The occlusions: what is found after a line.                                *)
Occluded(asked, display, seen, rows) ==
    [bad |-> FALSE, asked |-> asked, display |-> display, seen |-> seen, rows |-> rows]

(* A header names the display of the insets that follow, which was then       *)
(* seen.                                                                      *)
LEMMA OcclusionHeader ==
    ASSUME NEW asked, NEW display, NEW seen, NEW rows, NEW d
    PROVE  LineRead("occlusions", Occluded(asked, display, seen, rows), [display |-> d])
             = Occluded(asked, <<d>>, seen \cup {d}, rows)
<1>1. OcclusionLine(Occluded(asked, display, seen, rows), [display |-> d]) = Occluded(asked, <<d>>, seen \cup {d}, rows)
  BY DEF OcclusionLine, Occluded, Holds
<1> QED BY <1>1, LineReadIs DEF Occluded

(* Only the rows change where an inset is found.                              *)
LEMMA OccludedRows ==
    ASSUME NEW asked, NEW display, NEW seen, NEW rows, NEW more
    PROVE  [Occluded(asked, display, seen, rows) EXCEPT !.rows = more] = Occluded(asked, display, seen, more)
<1>1. PICK s, u : s = Occluded(asked, display, seen, rows) /\ u = Occluded(asked, display, seen, more)
  OBVIOUS
<1>2. PICK t : t = [s EXCEPT !.rows = more]
  OBVIOUS
<1> DEFINE F == {"bad", "asked", "display", "seen", "rows"}
<1>3. s = [k \in F |-> s[k]] /\ s.asked = asked /\ s.display = display /\ s.seen = seen /\ s.bad = FALSE
  BY <1>1 DEF Occluded
<1>4. /\ u = [k \in F |-> u[k]] /\ u.asked = asked /\ u.display = display /\ u.seen = seen /\ u.bad = FALSE
      /\ u.rows = more
  BY <1>1 DEF Occluded
<1>5. /\ t = [k \in F |-> t[k]] /\ t.asked = asked /\ t.display = display /\ t.seen = seen /\ t.bad = FALSE
      /\ t.rows = more
  BY <1>2, <1>3
<1>6. \A k \in F : t[k] = u[k]
  BY <1>4, <1>5
<1> HIDE DEF F
<1>7. t = u
  BY <1>4, <1>5, <1>6
<1> QED BY <1>1, <1>2, <1>7

(* An inset counts if it is of a kind that takes part and of the display      *)
(* that was asked for; if it does not say whether it is visible, that is an   *)
(* error.                                                                     *)
LEMMA InsetIs ==
    ASSUME NEW asked, NEW d, NEW seen, NEW rows, NEW type, NEW visible
    PROVE  LineRead("occlusions", Occluded(asked, <<d>>, seen, rows), Inset(<<type>>, visible))
             = IF d # asked \/ type \notin Kinds THEN Occluded(asked, <<d>>, seen, rows)
               ELSE IF visible = <<>> THEN NotParsed
               ELSE Occluded(asked, <<d>>, seen, Append(rows, <<type, 1, visible[1]>>))
<1>1. PICK found : found = Occluded(asked, <<d>>, seen, rows)
  OBVIOUS
<1>2. ~found.bad /\ found.display = <<d>> /\ found.asked = asked
  BY <1>1 DEF Occluded
<1>3. PICK inset : inset = [type |-> <<type>>, frame |-> <<1>>, visible |-> visible]
  OBVIOUS
<1>4. LineRead("occlusions", found, Inset(<<type>>, visible)) = InsetLine(found, inset)
  <2>1. OcclusionLine(found, Inset(<<type>>, visible)) = InsetLine(found, inset)
    BY <1>3 DEF OcclusionLine, Inset, Holds
  <2> QED BY <1>2, <2>1, LineReadIs
<1>5. inset.type = <<type>> /\ inset.frame = <<1>> /\ inset.visible = visible
  BY <1>3
<1>6. (<<d>> = <<asked>>) <=> d = asked
  OBVIOUS
<1>7. [found EXCEPT !.rows = Append(@, <<type, 1, visible[1]>>)]
        = Occluded(asked, <<d>>, seen, Append(rows, <<type, 1, visible[1]>>))
  <2>1. PICK row : row = <<type, 1, visible[1]>>
    OBVIOUS
  <2>2. PICK display, more : display = <<d>> /\ more = Append(rows, row)
    OBVIOUS
  <2>3. found.rows = rows
    BY <1>1 DEF Occluded
  <2>4. [Occluded(asked, display, seen, rows) EXCEPT !.rows = more] = Occluded(asked, display, seen, more)
    BY OccludedRows
  <2> QED BY <1>1, <2>1, <2>2, <2>3, <2>4
<1>8. InsetLine(found, inset)
        = IF d # asked \/ type \notin Kinds THEN found
          ELSE IF visible = <<>> THEN NotParsed
          ELSE [found EXCEPT !.rows = Append(@, <<type, 1, visible[1]>>)]
  BY <1>2, <1>5, <1>6 DEF InsetLine, Nothing
<1> QED BY <1>1, <1>4, <1>7, <1>8

OcclusionRows(d, asked, odd) ==
    <<Inset(<<"mandatory_gestures">>, Nothing),
      Inset(<<"ime">>, IF d = odd THEN Nothing ELSE <<d = asked>>)>>
OcclusionSectionList(n, displays, asked, hidden, odd) ==
    [i \in 1..n |-> Section(displays[i] = hidden, [display |-> displays[i]],
                            OcclusionRows(displays[i], asked, odd))]
Ime == <<<<"ime", 1, TRUE>>>>

(* The section of one display: what it says of the one that was asked for.    *)
LEMMA OcclusionRowsRead ==
    ASSUME NEW asked, NEW d, NEW seen, NEW odd, NEW rows, d = asked => rows = <<>>
    PROVE  LinesRead("occlusions", Occluded(asked, <<d>>, seen, rows), OcclusionRows(d, asked, odd))
             = IF d # asked THEN Occluded(asked, <<d>>, seen, rows)
               ELSE IF d = odd THEN NotParsed ELSE Occluded(asked, <<d>>, seen, Ime)
<1>1. PICK v : v = IF d = odd THEN Nothing ELSE <<d = asked>>
  OBVIOUS
<1>2. PICK s : s = Occluded(asked, <<d>>, seen, rows)
  OBVIOUS
<1>3. LineRead("occlusions", s, Inset(<<"mandatory_gestures">>, Nothing)) = s
  <2>1. PICK type, none : type = "mandatory_gestures" /\ type \notin Kinds /\ none = Nothing
    BY DEF Kinds
  <2>2. LineRead("occlusions", Occluded(asked, <<d>>, seen, rows), Inset(<<type>>, none))
          = IF d # asked \/ type \notin Kinds THEN Occluded(asked, <<d>>, seen, rows)
            ELSE IF none = <<>> THEN NotParsed
            ELSE Occluded(asked, <<d>>, seen, Append(rows, <<type, 1, none[1]>>))
    BY InsetIs
  <2> QED BY <1>2, <2>1, <2>2
<1>4. LineRead("occlusions", s, Inset(<<"ime">>, v))
        = IF d # asked THEN s ELSE IF v = <<>> THEN NotParsed
          ELSE Occluded(asked, <<d>>, seen, Append(rows, <<"ime", 1, v[1]>>))
  <2>1. PICK type : type = "ime" /\ type \in Kinds
    BY DEF Kinds
  <2>2. LineRead("occlusions", Occluded(asked, <<d>>, seen, rows), Inset(<<type>>, v))
          = IF d # asked \/ type \notin Kinds THEN Occluded(asked, <<d>>, seen, rows)
            ELSE IF v = <<>> THEN NotParsed
            ELSE Occluded(asked, <<d>>, seen, Append(rows, <<type, 1, v[1]>>))
    BY InsetIs
  <2> QED BY <1>2, <2>1, <2>2
<1>5. PICK x, y : x = Inset(<<"mandatory_gestures">>, Nothing) /\ y = Inset(<<"ime">>, v)
  OBVIOUS
<1>6. OcclusionRows(d, asked, odd) = <<x, y>>
  BY <1>1, <1>5, Zenon DEF OcclusionRows
<1>7. LinesRead("occlusions", s, <<x, y>>) = LineRead("occlusions", s, y)
  <2>1. LinesRead("occlusions", s, <<x, y>>) = LineRead("occlusions", LineRead("occlusions", s, x), y)
    BY LinesReadTwo
  <2> QED BY <1>3, <1>5, <2>1
<1>8. CASE d # asked
  BY <1>2, <1>4, <1>5, <1>6, <1>7, <1>8
<1>9. CASE d = asked /\ d = odd
  <2>1. v = <<>>
    BY <1>1, <1>9 DEF Nothing
  <2> QED BY <1>2, <1>4, <1>5, <1>6, <1>7, <1>9, <2>1
<1>10. CASE d = asked /\ d # odd
  <2>1. v = <<TRUE>>
    <3>1. v = <<d = asked>>
      BY <1>1, <1>10
    <3>2. (d = asked) = TRUE
      BY <1>10
    <3> QED BY <3>1, <3>2, Zenon
  <2>2. Append(rows, <<"ime", 1, v[1]>>) = Ime
    <3>1. PICK row : row = <<"ime", 1, v[1]>>
      OBVIOUS
    <3>2. row = <<"ime", 1, TRUE>>
      BY <2>1, <3>1
    <3>3. Append(<<>>, row) = <<row>>
      OBVIOUS
    <3> QED BY <1>10, <3>1, <3>2, <3>3 DEF Ime
  <2>3. v # <<>>
    BY <2>1
  <2> QED BY <1>2, <1>4, <1>5, <1>6, <1>7, <1>10, <2>2, <2>3
<1> QED BY <1>8, <1>9, <1>10

(* Sections, each a header and rows, are read one after the other.            *)
SectionsAt(n, seqs, h, rows) ==
    seqs = [i \in 1..n |-> seqs[i]] /\ \A i \in 1..n : seqs[i] = <<h[i]>> \o rows[i] /\ IsSeq(rows[i])
RowsRead(c, n, h, rows, a) ==
    \A i \in 1..n : LinesRead(c, LineRead(c, a[i - 1], h[i]), rows[i]) = a[i]

(* A text of sections is read if its headers and rows are.                    *)
LEMMA SectionedRead ==
    ASSUME NEW n \in Nat, NEW seqs, NEW h, NEW rows, SectionsAt(n, seqs, h, rows),
           NEW c, NEW a, RowsRead(c, n, h, rows, a)
    PROVE  LinesRead(c, a[0], FlattenSeq(seqs)) = a[n] /\ IsSeq(FlattenSeq(seqs))
<1>1. ASSUME NEW i \in 1..n
      PROVE  IsSeq(seqs[i]) /\ LinesRead(c, a[i - 1], seqs[i]) = a[i]
  <2>1. PICK l, r, s : l = h[i] /\ r = rows[i] /\ s = a[i - 1]
    OBVIOUS
  <2>2. seqs[i] = <<l>> \o r /\ IsSeq(r)
    BY <2>1 DEF SectionsAt
  <2>3. IsSeq(<<l>> \o r) /\ LinesRead(c, s, <<l>> \o r) = LinesRead(c, LineRead(c, s, l), r)
    BY <2>2, HeadRead
  <2>4. LinesRead(c, LineRead(c, s, l), r) = a[i]
    BY <2>1 DEF RowsRead
  <2> QED BY <2>1, <2>2, <2>3, <2>4
<1>2. EachRead(c, n, seqs, a)
  BY <1>1 DEF EachRead
<1>3. seqs = [i \in 1..n |-> seqs[i]]
  BY DEF SectionsAt
<1> QED BY <1>1, <1>2, <1>3, ManySectionsRead

(* A text has a length.                                                       *)
LEMMA SeqLen == ASSUME NEW x, IsSeq(x) PROVE Len(x) \in Nat
<1>1. PICK m \in Nat : x = [i \in 1..m |-> x[i]]
  BY DEF IsSeq
<1>2. PICK T : T = {x[i] : i \in 1..m}
  OBVIOUS
<1>3. \A i \in 1..m : x[i] \in T
  BY <1>2
<1> QED BY <1>1, <1>3, SeqTyped

(* What is found in a text of sections about the display that was asked for.  *)
OcclusionsFound(n, displays, asked, odd, text) ==
    LET anyAsked == \E i \in 1..n : displays[i] = asked
        found == LinesRead("occlusions", Occluded(asked, Nothing, {}, <<>>), text)
    IN  /\ anyAsked /\ asked = odd => found = NotParsed
        /\ ~(anyAsked /\ asked = odd) =>
             \E display : found = Occluded(asked, display, {displays[i] : i \in 1..n},
                                           IF anyAsked THEN Ime ELSE <<>>)

(* Sections of displays, each seen once, are found as what takes part of the  *)
(* one that was asked for.                                                    *)
LEMMA OcclusionSections ==
    ASSUME NEW n \in Nat, NEW displays \in [1..n -> Displays], Distinct(displays), NEW asked,
           NEW hidden, \A i \in 1..n : displays[i] # hidden, NEW odd
    PROVE  OcclusionsFound(n, displays, asked, odd,
               FlattenSeq(OcclusionSectionList(n, displays, asked, hidden, odd)))
<1>1. PICK sections : sections = OcclusionSectionList(n, displays, asked, hidden, odd)
  OBVIOUS
<1>2. PICK h : h = [i \in 1..n |-> [display |-> displays[i]]]
  OBVIOUS
<1>3. PICK rows : rows = [i \in 1..n |-> OcclusionRows(displays[i], asked, odd)]
  OBVIOUS
<1>4. SectionsAt(n, sections, h, rows)
  <2>1. ASSUME NEW i \in 1..n PROVE sections[i] = <<h[i]>> \o rows[i] /\ IsSeq(rows[i])
    <3>1. sections[i] = <<[display |-> displays[i]]>> \o OcclusionRows(displays[i], asked, odd)
      BY <1>1 DEF OcclusionSectionList, Section
    <3>2. IsSeq(OcclusionRows(displays[i], asked, odd))
      BY LinesReadTwo DEF OcclusionRows
    <3> QED BY <1>2, <1>3, <3>1, <3>2
  <2>2. sections = [i \in 1..n |-> sections[i]]
    BY <1>1 DEF OcclusionSectionList
  <2> QED BY <2>1, <2>2 DEF SectionsAt
<1> DEFINE Asked(k) == \E i \in 1..k : displays[i] = asked
           Seen(k) == {displays[i] : i \in 1..k}
           Rows(k) == IF Asked(k) THEN Ime ELSE <<>>
           Display(k) == IF k = 0 THEN Nothing ELSE <<displays[k]>>
           State(k) == IF Asked(k) /\ asked = odd THEN NotParsed
                       ELSE Occluded(asked, Display(k), Seen(k), Rows(k))
<1>5. PICK a : a = [k \in 0..n |-> State(k)]
  OBVIOUS
<1>6. ASSUME NEW k \in 1..n
      PROVE  LinesRead("occlusions", LineRead("occlusions", State(k - 1), h[k]), rows[k]) = State(k)
  <2>1. h[k] = [display |-> displays[k]] /\ rows[k] = OcclusionRows(displays[k], asked, odd) /\ IsSeq(rows[k])
    BY <1>2, <1>3, <1>4 DEF SectionsAt
  <2>2. \A i \in 1..k : i = k \/ i \in 1..k - 1
    OBVIOUS
  <2>3. Asked(k) <=> Asked(k - 1) \/ displays[k] = asked
    BY <2>2
  <2>4. displays[k] = asked => ~Asked(k - 1)
    <3>1. \A i \in 1..k - 1 : i \in 1..n /\ i # k
      OBVIOUS
    <3>2. \A i \in 1..n : displays[i] = displays[k] => i = k
      BY DEF Distinct, IsInjective
    <3> QED BY <3>1, <3>2
  <2>5. Seen(k) = Seen(k - 1) \cup {displays[k]}
    BY <2>2
  <2>6. Display(k) = <<displays[k]>>
    OBVIOUS
  <2>7. PICK d, s : d = displays[k] /\ s = Seen(k - 1)
    OBVIOUS
  <2>8. PICK b : b = Rows(k - 1)
    OBVIOUS
  <2>9. CASE Asked(k - 1) /\ asked = odd
    <3>1. State(k - 1) = NotParsed /\ State(k) = NotParsed
      <4> HIDE DEF Asked
      <4> QED BY <2>3, <2>9
    <3> HIDE DEF State
    <3> QED BY <2>1, <3>1, SeqLen, RaisedLine, RaisedStays
  <2>10. CASE ~(Asked(k - 1) /\ asked = odd)
    <3>1. State(k - 1) = Occluded(asked, Display(k - 1), s, b)
      <4> HIDE DEF Asked, Rows, Seen, Display
      <4> QED BY <2>7, <2>8, <2>10
    <3>2. LineRead("occlusions", State(k - 1), h[k]) = Occluded(asked, <<d>>, Seen(k), b)
      <4> HIDE DEF State, Display, Seen
      <4> QED BY <2>1, <2>5, <2>7, <3>1, OcclusionHeader
    <3>3. d = asked => b = <<>>
      <4> HIDE DEF Asked
      <4> QED BY <2>4, <2>7, <2>8
    <3>4. PICK e : e = Seen(k)
      OBVIOUS
    <3>5. LinesRead("occlusions", Occluded(asked, <<d>>, e, b), OcclusionRows(d, asked, odd))
             = IF d # asked THEN Occluded(asked, <<d>>, e, b)
               ELSE IF d = odd THEN NotParsed ELSE Occluded(asked, <<d>>, e, Ime)
      BY <3>3, OcclusionRowsRead
    <3>6. State(k) = IF d # asked THEN Occluded(asked, <<d>>, e, b)
                     ELSE IF d = odd THEN NotParsed ELSE Occluded(asked, <<d>>, e, Ime)
      <4>1. CASE d # asked
        <5>1. Rows(k) = b /\ ~(Asked(k) /\ asked = odd)
          <6> HIDE DEF Asked
          <6> QED BY <2>3, <2>7, <2>8, <2>10, <4>1
        <5> HIDE DEF Asked, Rows, Seen, Display
        <5> QED BY <2>6, <2>7, <3>4, <4>1, <5>1
      <4>2. CASE d = asked
        <5>1. Asked(k)
          <6> HIDE DEF Asked
          <6> QED BY <2>3, <2>7, <4>2
        <5>2. Rows(k) = Ime
          <6> HIDE DEF Asked
          <6> QED BY <5>1
        <5> HIDE DEF Asked, Rows, Seen, Display
        <5> QED BY <2>6, <2>7, <3>4, <4>2, <5>1, <5>2
      <4> QED BY <4>1, <4>2
    <3> HIDE DEF State, Seen
    <3> QED BY <2>1, <2>7, <3>2, <3>4, <3>5, <3>6
  <2> HIDE DEF Asked, State
  <2> QED BY <2>9, <2>10
<1> HIDE DEF State
<1>7. RowsRead("occlusions", n, h, rows, a)
  <2> SUFFICES ASSUME NEW i \in 1..n
               PROVE  LinesRead("occlusions", LineRead("occlusions", a[i - 1], h[i]), rows[i]) = a[i]
    BY DEF RowsRead
  <2>1. a[i] = State(i) /\ a[i - 1] = State(i - 1)
    BY <1>5
  <2> QED BY <1>6, <2>1
<1>8. LinesRead("occlusions", a[0], FlattenSeq(sections)) = a[n]
  BY <1>4, <1>7, SectionedRead
<1>9. a[0] = Occluded(asked, Nothing, {}, <<>>)
  <2>1. ~Asked(0) /\ Display(0) = Nothing /\ Seen(0) = {} /\ a[0] = State(0)
    BY <1>5
  <2>2. Rows(0) = <<>>
    <3> HIDE DEF Asked
    <3> QED BY <2>1
  <2> HIDE DEF Asked, Display, Seen, Rows
  <2> QED BY <2>1, <2>2 DEF State
<1>10. a[n] = State(n)
  BY <1>5
<1> HIDE DEF Display
<1>11. OcclusionsFound(n, displays, asked, odd, FlattenSeq(sections))
  BY <1>8, <1>9, <1>10 DEF State, OcclusionsFound
<1> QED BY <1>1, <1>11

(* Of the display that was asked for, all that takes part of it.              *)
LEMMA OcclusionsExact == \A r \in OcclusionReports : Faithful(r)
<1> SUFFICES ASSUME NEW r \in OcclusionReports PROVE Faithful(r)
  OBVIOUS
<1>1. PICK displays \in Lists(Displays), asked \in Displays, hidden \in Displays \cup {NoDisplay},
           odd \in Displays \cup {NoDisplay} :
        r = OcclusionReport(displays, asked, hidden, odd)
  BY DEF OcclusionReports
<1>2. PICK n \in Nat : displays \in [1..n -> Displays] /\ Len(displays) = n /\ Distinct(displays)
  BY DumpsAssumption, ListIs
<1>3. DOMAIN displays = 1..n
  BY <1>2
<1>4. PICK lines : lines = FlattenSeq(OcclusionSectionList(n, displays, asked, hidden, odd))
  OBVIOUS
<1> DEFINE Hidden == Contains(displays, hidden)
           Asked == Contains(displays, asked)
           Odd == displays = <<>> \/ (asked = odd /\ Asked)
<1>5. PICK form : form = FormOf(Hidden, Odd)
  OBVIOUS
<1>6. PICK facts : facts = IF Asked THEN <<<<<<"ime", 1, TRUE>>>>>> ELSE Nothing
  OBVIOUS
<1>7. r = Report("occlusions", asked, form, facts, lines)
  BY <1>1, <1>3, <1>4, <1>5, <1>6, Zenon DEF OcclusionReport, OcclusionSectionList, OcclusionRows
<1>8. r.form = form /\ r.facts = facts /\ Parse(r) = ParseOcclusions(lines, asked)
  BY <1>7, ReportParts, ParseOf
<1>9. form = IF Hidden THEN "hidden" ELSE IF Odd THEN "odd" ELSE "known"
  <2>1. Hidden \in BOOLEAN /\ Odd \in BOOLEAN
    BY DEF Contains
  <2> HIDE DEF Hidden, Odd
  <2> QED BY <1>5, <2>1, FormIs
<1>10. CASE ~Hidden
  <2>1. \A i \in 1..n : displays[i] # hidden
    BY <1>2, <1>10 DEF Contains
  <2>2. PICK found : found = LinesRead("occlusions", Occluded(asked, Nothing, {}, <<>>), lines)
    OBVIOUS
  <2>3. Asked <=> \E i \in 1..n : displays[i] = asked
    BY <1>2 DEF Contains
  <2>4. PICK seen : seen = {displays[i] : i \in 1..n}
    OBVIOUS
  <2>5. /\ Asked /\ asked = odd => found = NotParsed
        /\ ~(Asked /\ asked = odd) =>
             \E display : found = Occluded(asked, display, seen, IF Asked THEN Ime ELSE <<>>)
    <3>1. OcclusionsFound(n, displays, asked, odd, lines)
      BY <1>2, <1>4, <2>1, OcclusionSections
    <3> HIDE DEF Asked
    <3> QED BY <2>2, <2>3, <2>4, <3>1 DEF OcclusionsFound
  <2>6. (seen = {} <=> displays = <<>>) /\ (asked \in seen <=> Asked)
    <3>1. seen = {} <=> n = 0
      BY <2>4
    <3>2. displays = <<>> <=> n = 0
      BY <1>2
    <3>3. asked \in seen <=> Asked
      BY <2>3, <2>4
    <3> QED BY <3>1, <3>2, <3>3
  <2>7. ParseOcclusions(lines, asked)
          = IF found.bad \/ found.seen = {} THEN Nothing
            ELSE <<IF asked \in found.seen THEN <<found.rows>> ELSE Nothing>>
    BY <2>2 DEF ParseOcclusions, Occluded
  <2>8. CASE Asked /\ asked = odd
    <3>1. found = NotParsed
      BY <2>5, <2>8
    <3>2. ParseOcclusions(lines, asked) = Nothing
      BY <2>7, <3>1 DEF NotParsed
    <3>3. form = "odd"
      <4> HIDE DEF Hidden, Asked
      <4> QED BY <1>9, <1>10, <2>8
    <3> QED BY <1>8, <3>2, <3>3 DEF Faithful
  <2>9. CASE ~(Asked /\ asked = odd)
    <3>1. PICK display : found = Occluded(asked, display, seen, IF Asked THEN Ime ELSE <<>>)
      <4> HIDE DEF Asked
      <4> QED BY <2>5, <2>9
    <3>2. ~found.bad /\ found.seen = seen /\ found.rows = IF Asked THEN Ime ELSE <<>>
      <4> HIDE DEF Asked
      <4> QED BY <3>1 DEF Occluded
    <3>3. CASE displays = <<>>
      <4>1. ParseOcclusions(lines, asked) = Nothing
        BY <2>6, <2>7, <3>2, <3>3
      <4>2. form = "odd"
        <5> HIDE DEF Hidden, Asked
        <5> QED BY <1>9, <1>10, <3>3
      <4> QED BY <1>8, <4>1, <4>2 DEF Faithful
    <3>4. CASE displays # <<>>
      <4>1. ParseOcclusions(lines, asked) = <<facts>>
        <5> HIDE DEF Asked
        <5> QED BY <1>6, <2>6, <2>7, <3>2, <3>4 DEF Ime, Nothing
      <4>2. form = "known"
        <5> HIDE DEF Hidden, Asked
        <5> QED BY <1>9, <1>10, <2>9, <3>4
      <4> QED BY <1>8, <4>1, <4>2 DEF Faithful
    <3> QED BY <3>3, <3>4
  <2> HIDE DEF Asked
  <2> QED BY <2>8, <2>9
<1>11. CASE Hidden
  <2>1. form = "hidden"
    <3> HIDE DEF Hidden, Odd
    <3> QED BY <1>9, <1>11
  <2> QED BY <1>8, <2>1 DEF Faithful
<1> QED BY <1>10, <1>11

--------------------------------------------------------------------------------
(* Displays: base and override.                                               *)

(* The displays: what is found after a line.                                  *)
Displayed(display, info, rank) == [bad |-> FALSE, display |-> display, info |-> info, rank |-> rank]
SizeFound(rotation) == <<[size |-> <<1, 2>>, rotation |-> rotation]>>
Put(f, d, x) == [f EXCEPT ![d] = x]
RankOf(override) == <<IF override THEN 2 ELSE 1>>

(* A header names the display of the rows that follow (_display_parsers.py    *)
(* 32-148).                                                                   *)
LEMMA DisplayedHeader ==
    ASSUME NEW display, NEW info, NEW rank, NEW d
    PROVE  LineRead("displays", Displayed(display, info, rank), [section |-> d]) = Displayed(<<d>>, info, rank)
<1>1. DisplayLine(Displayed(display, info, rank), [section |-> d]) = Displayed(<<d>>, info, rank)
  BY DEF DisplayLine, Displayed, Holds
<1> QED BY <1>1, LineReadIs DEF Displayed

(* A line that says nothing changes nothing.                                  *)
LEMMA DisplayedNoise ==
    ASSUME NEW display, NEW info, NEW rank
    PROVE  LineRead("displays", Displayed(display, info, rank), Noise) = Displayed(display, info, rank)
<1>1. DisplayLine(Displayed(display, info, rank), Noise) = Displayed(display, info, rank)
  BY DEF DisplayLine, DisplayInfo, Displayed, Holds, Noise
<1> QED BY <1>1, LineReadIs DEF Displayed

PutBoth(s, d, x, y) == [s EXCEPT !.info[d] = x, !.rank[d] = y]

(* Both what is known of a display and its rank change together.              *)
LEMMA DisplayedPut ==
    ASSUME NEW display, NEW info, NEW rank, NEW d, NEW x, NEW y, NEW s, s = Displayed(display, info, rank)
    PROVE  PutBoth(s, d, x, y) = Displayed(display, Put(info, d, x), Put(rank, d, y))
<1>1. PICK u : u = Displayed(display, Put(info, d, x), Put(rank, d, y))
  OBVIOUS
<1>2. PICK t : t = [s EXCEPT !.info[d] = x, !.rank[d] = y]
  OBVIOUS
<1> DEFINE F == {"bad", "display", "info", "rank"}
<1>3. s = [k \in F |-> s[k]] /\ s.bad = FALSE /\ s.display = display /\ s.info = info /\ s.rank = rank
  BY DEF Displayed
<1>4. /\ u = [k \in F |-> u[k]] /\ u.bad = FALSE /\ u.display = display
      /\ u.info = Put(info, d, x) /\ u.rank = Put(rank, d, y)
  BY <1>1 DEF Displayed
<1>5. /\ t = [k \in F |-> t[k]] /\ t.bad = FALSE /\ t.display = display
      /\ t.info = Put(info, d, x) /\ t.rank = Put(rank, d, y)
  BY <1>2, <1>3 DEF Put
<1>6. \A k \in F : t[k] = u[k]
  BY <1>4, <1>5
<1> HIDE DEF F
<1>7. t = u
  BY <1>4, <1>5, <1>6
<1> QED BY <1>1, <1>2, <1>7 DEF PutBoth

(* A row about a display: that of its id, or of the section it is in.         *)
IdOf(id, display, d) == id = <<d>> \/ (id = Nothing /\ display = <<d>>)
Ranks(rank, d, override) == rank[d] = Nothing \/ RankOf(override)[1] >= rank[d][1]

(* Such a row is taken unless one of a higher rank was, and a rotation that   *)
(* is none is an error.                                                       *)
LEMMA InfoRowRead ==
    ASSUME NEW display, NEW info, NEW rank, NEW d, NEW id,
           IdOf(id, display, d),
           NEW rotation \in {0, 1, 4}, NEW override \in BOOLEAN
    PROVE  LineRead("displays", Displayed(display, info, rank), InfoRow(id, rotation, override))
             = IF rotation > 3 THEN NotParsed
               ELSE IF Ranks(rank, d, override)
               THEN Displayed(display, Put(info, d, SizeFound(rotation)), Put(rank, d, RankOf(override)))
               ELSE Displayed(display, info, rank)
<1>1. PICK s : s = Displayed(display, info, rank)
  OBVIOUS
<1>2. ~s.bad /\ s.display = display /\ s.rank = rank
  BY <1>1 DEF Displayed
<1>3. PICK row : row = [id |-> id, size |-> <<1, 2>>, rotation |-> rotation, density |-> <<1>>, override |-> override]
  OBVIOUS
<1>4. row.id = id /\ row.size = <<1, 2>> /\ row.rotation = rotation /\ row.density = <<1>> /\ row.override = override
  BY <1>3
<1>5. PICK those : those = IF row.id # Nothing THEN row.id ELSE s.display
  OBVIOUS
<1>6. those = <<d>>
  <2>1. CASE id = <<d>>
    <3>1. id # Nothing
      BY <2>1 DEF Nothing
    <3> QED BY <2>1, <3>1, <1>4, <1>5
  <2>2. CASE id = Nothing /\ display = <<d>>
    BY <2>2, <1>2, <1>4, <1>5
  <2> QED BY <2>1, <2>2 DEF IdOf
<1>7. LineRead("displays", s, InfoRow(id, rotation, override)) = DisplayRow(s, row, those)
  <2>1. PICK line : line = [info |-> row]
    OBVIOUS
  <2>2. InfoRow(id, rotation, override) = line
    BY <1>3, <2>1 DEF InfoRow
  <2>3. Holds(line, "info") /\ ~Holds(line, "section") /\ ~Holds(line, "mDisplayId") /\ line.info = row
    BY <2>1 DEF Holds
  <2>4. DisplayLine(s, line) = DisplayRow(s, row, those)
    BY <1>5, <2>3 DEF DisplayLine, DisplayInfo
  <2> QED BY <1>2, <2>2, <2>4, LineReadIs
<1>8. InfoComplete(row, those) <=> ~(rotation > 3)
  BY <1>4, <1>6 DEF InfoComplete, Nothing
<1>9. Replaces(s.rank[those[1]], row) <=> Ranks(rank, d, override)
  BY <1>2, <1>4, <1>6 DEF Replaces, Ranks, RankOf
<1>10. [s EXCEPT !.info[those[1]] = <<[size |-> row.size, rotation |-> row.rotation]>>,
                 !.rank[those[1]] = <<IF row.override THEN 2 ELSE 1>>]
         = Displayed(display, Put(info, d, SizeFound(rotation)), Put(rank, d, RankOf(override)))
  <2>1. those[1] = d /\ <<[size |-> row.size, rotation |-> row.rotation]>> = SizeFound(rotation)
        /\ <<IF row.override THEN 2 ELSE 1>> = RankOf(override)
    BY <1>4, <1>6 DEF SizeFound, RankOf
  <2>2. PICK x, y, e : x = SizeFound(rotation) /\ y = RankOf(override) /\ e = those[1]
    OBVIOUS
  <2>3. [s EXCEPT !.info[e] = x, !.rank[e] = y]
          = Displayed(display, Put(info, e, x), Put(rank, e, y))
    <3>1. PutBoth(s, e, x, y) = Displayed(display, Put(info, e, x), Put(rank, e, y))
      BY <1>1, DisplayedPut
    <3> QED BY <3>1 DEF PutBoth
  <2> QED BY <2>1, <2>2, <2>3
<1>11. DisplayRow(s, row, those)
         = IF ~InfoComplete(row, those) THEN NotParsed
           ELSE IF ~Replaces(s.rank[those[1]], row) THEN s
           ELSE [s EXCEPT !.info[those[1]] = <<[size |-> row.size, rotation |-> row.rotation]>>,
                          !.rank[those[1]] = <<IF row.override THEN 2 ELSE 1>>]
  BY Zenon DEF DisplayRow
<1> QED BY <1>1, <1>7, <1>8, <1>9, <1>10, <1>11, Zenon

(* The rows of one display: what overrides is never undone.                   *)
LEMMA InfoRowsRead ==
    ASSUME NEW display, NEW info, NEW rank, NEW d, NEW id,
           IdOf(id, display, d),
           d \in DOMAIN rank, rank[d] = Nothing,
           NEW rotation \in {1, 4}, NEW overridden \in BOOLEAN, NEW late \in BOOLEAN
    PROVE  /\ IsSeq(InfoRows(id, overridden, late, rotation))
           /\ LinesRead("displays", Displayed(display, info, rank), InfoRows(id, overridden, late, rotation))
                = IF overridden /\ rotation > 3 THEN NotParsed
                  ELSE Displayed(display, Put(info, d, InfoFact(overridden, rotation)),
                                 Put(rank, d, RankOf(overridden)))
<1>1. PICK s : s = Displayed(display, info, rank)
  OBVIOUS
<1>2. PICK base, over : base = InfoRow(id, 0, FALSE) /\ over = InfoRow(id, rotation, TRUE)
  OBVIOUS
<1>3. PICK zero, yes, no : zero = 0 /\ yes = TRUE /\ no = FALSE
  OBVIOUS
<1>4. RankOf(no) = <<1>> /\ RankOf(yes) = <<2>>
  BY <1>3 DEF RankOf
<1> DEFINE After1(info1, rank1, rot, ov) ==
             Displayed(display, Put(info1, d, SizeFound(rot)), Put(rank1, d, RankOf(ov)))
<1>5. LineRead("displays", s, base) = After1(info, rank, zero, no)
  <2>1. LineRead("displays", Displayed(display, info, rank), InfoRow(id, zero, no))
             = IF zero > 3 THEN NotParsed
               ELSE IF Ranks(rank, d, no)
               THEN Displayed(display, Put(info, d, SizeFound(zero)), Put(rank, d, RankOf(no)))
               ELSE Displayed(display, info, rank)
    <3>1. zero \in {0, 1, 4} /\ no \in BOOLEAN
      BY <1>3
    <3> QED BY <3>1, InfoRowRead
  <2>2. ~(zero > 3) /\ Ranks(rank, d, no)
    BY <1>3 DEF Ranks
  <2> QED BY <1>1, <1>2, <1>3, <2>1, <2>2
<1>6. LineRead("displays", s, over) = IF rotation > 3 THEN NotParsed ELSE After1(info, rank, rotation, yes)
  <2>1. LineRead("displays", Displayed(display, info, rank), InfoRow(id, rotation, yes))
             = IF rotation > 3 THEN NotParsed
               ELSE IF Ranks(rank, d, yes)
               THEN Displayed(display, Put(info, d, SizeFound(rotation)), Put(rank, d, RankOf(yes)))
               ELSE Displayed(display, info, rank)
    <3>1. rotation \in {0, 1, 4} /\ yes \in BOOLEAN
      BY <1>3
    <3> QED BY <3>1, InfoRowRead
  <2>2. Ranks(rank, d, yes)
    BY DEF Ranks
  <2> QED BY <1>1, <1>2, <1>3, <2>1, <2>2
<1>7. CASE ~overridden
  <2>1. InfoRows(id, overridden, late, rotation) = <<base>>
    BY <1>2, <1>7 DEF InfoRows
  <2>2. InfoFact(overridden, rotation) = SizeFound(zero) /\ RankOf(overridden) = RankOf(no)
    BY <1>3, <1>7 DEF InfoFact, SizeFound, RankOf
  <2>3. LinesRead("displays", s, <<base>>) = LineRead("displays", s, base)
    BY LinesReadOne
  <2>4. IsSeq(<<base>>)
    <3>1. PICK t : t = <<base>>
      OBVIOUS
    <3>2. t = [j \in 1..1 |-> t[j]]
      BY <3>1
    <3> QED BY <3>1, <3>2 DEF IsSeq
  <2> QED BY <1>1, <1>5, <1>7, <2>1, <2>2, <2>3, <2>4
<1>8. CASE overridden
  <2>1. InfoFact(overridden, rotation) = SizeFound(rotation) /\ RankOf(overridden) = RankOf(yes)
    BY <1>3, <1>8 DEF InfoFact, SizeFound, RankOf
  <2>2. CASE late
    <3>1. InfoRows(id, overridden, late, rotation) = <<base, over>>
      BY <1>2, <1>8, <2>2 DEF InfoRows
    <3>2. /\ LinesRead("displays", s, <<base, over>>) = LineRead("displays", LineRead("displays", s, base), over)
          /\ IsSeq(<<base, over>>)
      BY LinesReadTwo
    <3>3. PICK info1, rank1 : info1 = Put(info, d, SizeFound(zero)) /\ rank1 = Put(rank, d, RankOf(no))
      OBVIOUS
    <3>4. rank1[d] = RankOf(no)
      BY <3>3 DEF Put
    <3>5. LineRead("displays", Displayed(display, info1, rank1), InfoRow(id, rotation, yes))
             = IF rotation > 3 THEN NotParsed
               ELSE IF Ranks(rank1, d, yes)
               THEN Displayed(display, Put(info1, d, SizeFound(rotation)), Put(rank1, d, RankOf(yes)))
               ELSE Displayed(display, info1, rank1)
      <4>1. rotation \in {0, 1, 4} /\ yes \in BOOLEAN
        BY <1>3
      <4> QED BY <4>1, InfoRowRead
    <3>6. Ranks(rank1, d, yes)
      BY <1>4, <3>4 DEF Ranks
    <3>7. /\ Put(info1, d, SizeFound(rotation)) = Put(info, d, SizeFound(rotation))
          /\ Put(rank1, d, RankOf(yes)) = Put(rank, d, RankOf(yes))
      BY <3>3 DEF Put
    <3>8. LineRead("displays", LineRead("displays", s, base), over)
            = IF rotation > 3 THEN NotParsed ELSE After1(info, rank, rotation, yes)
      BY <1>2, <1>3, <1>5, <3>3, <3>5, <3>6, <3>7
    <3> QED BY <1>1, <1>8, <2>1, <3>1, <3>2, <3>8
  <2>3. CASE ~late
    <3>1. PICK noise : noise = Noise
      OBVIOUS
    <3>2. InfoRows(id, overridden, late, rotation) = <<over, noise, base>>
      BY <1>2, <1>8, <2>3, <3>1 DEF InfoRows
    <3>3. /\ LinesRead("displays", s, <<over, noise, base>>)
               = LineRead("displays", LineRead("displays", LineRead("displays", s, over), noise), base)
          /\ IsSeq(<<over, noise, base>>)
      BY LinesReadThree
    <3>4. CASE rotation > 3
      <4>1. LinesRead("displays", s, <<over, noise, base>>) = NotParsed
        BY <1>6, <3>3, <3>4, RaisedLine
      <4> QED BY <1>1, <1>8, <3>2, <3>3, <3>4, <4>1
    <3>5. CASE ~(rotation > 3)
      <4>1. PICK info1, rank1 : info1 = Put(info, d, SizeFound(rotation)) /\ rank1 = Put(rank, d, RankOf(yes))
        OBVIOUS
      <4>2. rank1[d] = RankOf(yes)
        BY <4>1 DEF Put
      <4>3. LineRead("displays", s, over) = Displayed(display, info1, rank1)
        BY <1>6, <3>5, <4>1
      <4>4. LineRead("displays", Displayed(display, info1, rank1), noise) = Displayed(display, info1, rank1)
        BY <3>1, DisplayedNoise
      <4>5. LineRead("displays", Displayed(display, info1, rank1), InfoRow(id, zero, no))
             = IF zero > 3 THEN NotParsed
               ELSE IF Ranks(rank1, d, no)
               THEN Displayed(display, Put(info1, d, SizeFound(zero)), Put(rank1, d, RankOf(no)))
               ELSE Displayed(display, info1, rank1)
        <5>1. zero \in {0, 1, 4} /\ no \in BOOLEAN
          BY <1>3
        <5> QED BY <5>1, InfoRowRead
      <4>6. ~Ranks(rank1, d, no)
        BY <1>4, <4>2 DEF Ranks, Nothing
      <4>7. LineRead("displays", Displayed(display, info1, rank1), base) = Displayed(display, info1, rank1)
        <5>1. ~(zero > 3)
          BY <1>3
        <5> QED BY <1>2, <1>3, <4>5, <4>6, <5>1
      <4>8. LinesRead("displays", s, <<over, noise, base>>) = Displayed(display, info1, rank1)
        BY <3>3, <4>3, <4>4, <4>7
      <4> QED BY <1>1, <2>1, <3>2, <3>3, <3>5, <4>1, <4>8
    <3> QED BY <3>4, <3>5
  <2> QED BY <2>2, <2>3
<1> QED BY <1>7, <1>8

DisplaySectionList(n, displays, hidden, overridden, late, embedded, rotation) ==
    [i \in 1..n |-> Section(displays[i] = hidden, [section |-> displays[i]],
                            InfoRows(IF embedded THEN <<displays[i]>> ELSE Nothing,
                                     displays[i] \in overridden, late, rotation))]
InfoUpTo(k, displays, overridden, rotation) ==
    [d \in Displays |-> IF \E i \in 1..k : displays[i] = d THEN InfoFact(d \in overridden, rotation) ELSE Nothing]
RankUpTo(k, displays, overridden) ==
    [d \in Displays |-> IF \E i \in 1..k : displays[i] = d THEN RankOf(d \in overridden) ELSE Nothing]

(* What is known up to one more display.                                      *)
LEMMA UpToNext ==
    ASSUME NEW k \in Nat \ {0}, NEW displays, displays[k] \in Displays, NEW overridden, NEW rotation
    PROVE  /\ Put(InfoUpTo(k - 1, displays, overridden, rotation), displays[k],
                  InfoFact(displays[k] \in overridden, rotation)) = InfoUpTo(k, displays, overridden, rotation)
           /\ Put(RankUpTo(k - 1, displays, overridden), displays[k], RankOf(displays[k] \in overridden))
                = RankUpTo(k, displays, overridden)
           /\ displays[k] \in DOMAIN RankUpTo(k - 1, displays, overridden)
<1>1. \A i \in 1..k : i = k \/ i \in 1..k - 1
  OBVIOUS
<1> DEFINE Info(d) == InfoFact(d \in overridden, rotation)
           Rank(d) == RankOf(d \in overridden)
           Among(h, d) == \E i \in 1..h : displays[i] = d
<1>2. PICK i0, i1, r0, r1 :
        /\ i0 = [d \in Displays |-> IF Among(k - 1, d) THEN Info(d) ELSE Nothing]
        /\ i1 = [d \in Displays |-> IF Among(k, d) THEN Info(d) ELSE Nothing]
        /\ r0 = [d \in Displays |-> IF Among(k - 1, d) THEN Rank(d) ELSE Nothing]
        /\ r1 = [d \in Displays |-> IF Among(k, d) THEN Rank(d) ELSE Nothing]
  OBVIOUS
<1>3. \A d : Among(k, d) <=> Among(k - 1, d) \/ d = displays[k]
  BY <1>1
<1>4. PICK e \in Displays : e = displays[k]
  OBVIOUS
<1> HIDE DEF Info, Rank, Among
<1>5. [i0 EXCEPT ![e] = Info(e)] = i1
  BY <1>2, <1>3, <1>4
<1>6. [r0 EXCEPT ![e] = Rank(e)] = r1
  BY <1>2, <1>3, <1>4
<1>7. DOMAIN r0 = Displays
  BY <1>2
<1> USE DEF Info, Rank, Among
<1>8. /\ i0 = InfoUpTo(k - 1, displays, overridden, rotation) /\ i1 = InfoUpTo(k, displays, overridden, rotation)
      /\ r0 = RankUpTo(k - 1, displays, overridden) /\ r1 = RankUpTo(k, displays, overridden)
  BY <1>2, Zenon DEF InfoUpTo, RankUpTo
<1> HIDE DEF Among
<1>9. Put(i0, e, Info(e)) = i1 /\ Put(r0, e, Rank(e)) = r1
  BY <1>5, <1>6, Zenon DEF Put
<1> QED BY <1>4, <1>7, <1>8, <1>9, Zenon

(* What is found in a text of sections: the base or the override of each      *)
(* display, unless an override cannot be read.                                *)
DisplaysFound(n, displays, overridden, rotation, text) ==
    LET anyOdd == rotation > 3 /\ \E i \in 1..n : displays[i] \in overridden
        found == LinesRead("displays",
                     Displayed(Nothing, InfoUpTo(0, displays, overridden, rotation),
                               RankUpTo(0, displays, overridden)), text)
    IN  /\ anyOdd => found = NotParsed
        /\ ~anyOdd => \E display :
             found = Displayed(display, InfoUpTo(n, displays, overridden, rotation),
                               RankUpTo(n, displays, overridden))

(* Sections, in which a display may be named by its header or by its rows,    *)
(* are found display by display.                                              *)
LEMMA DisplaySections ==
    ASSUME NEW n \in Nat, NEW displays \in [1..n -> Displays], Distinct(displays),
           NEW hidden, NEW overridden, NEW late \in BOOLEAN, NEW embedded \in BOOLEAN, NEW rotation \in {1, 4},
           embedded \/ \A i \in 1..n : displays[i] # hidden
    PROVE  DisplaysFound(n, displays, overridden, rotation,
               FlattenSeq(DisplaySectionList(n, displays, hidden, overridden, late, embedded, rotation)))
<1> DEFINE Overridden(i) == displays[i] \in overridden
           Id(i) == IF embedded THEN <<displays[i]>> ELSE Nothing
           Info(k) == InfoUpTo(k, displays, overridden, rotation)
           Rank(k) == RankUpTo(k, displays, overridden)
           Shown(k) == IF k = 0 THEN Nothing
                       ELSE IF displays[k] # hidden THEN <<displays[k]>>
                       ELSE IF k = 1 THEN Nothing ELSE <<displays[k - 1]>>
           Odd(k) == rotation > 3 /\ \E i \in 1..k : Overridden(i)
           State(k) == IF Odd(k) THEN NotParsed ELSE Displayed(Shown(k), Info(k), Rank(k))
<1>1. PICK sections : sections = DisplaySectionList(n, displays, hidden, overridden, late, embedded, rotation)
  OBVIOUS
<1>2. PICK h : h = [i \in 1..n |-> IF displays[i] = hidden THEN Noise ELSE [section |-> displays[i]]]
  OBVIOUS
<1>3. PICK rows : rows = [i \in 1..n |-> InfoRows(Id(i), Overridden(i), late, rotation)]
  OBVIOUS
<1>4. ASSUME NEW k \in 1..n
      PROVE  \A i \in 1..n : displays[i] = displays[k] => i = k
  BY DEF Distinct, IsInjective
<1>5. ASSUME NEW k \in 1..n PROVE IdOf(Id(k), Shown(k), displays[k])
  <2>1. CASE embedded
    BY <2>1 DEF IdOf
  <2>2. CASE ~embedded
    BY <2>2 DEF IdOf
  <2> QED BY <2>1, <2>2
<1>6. ASSUME NEW k \in 1..n
      PROVE  /\ IsSeq(rows[k])
             /\ LinesRead("displays", Displayed(Shown(k), Info(k - 1), Rank(k - 1)), rows[k])
                  = IF Overridden(k) /\ rotation > 3 THEN NotParsed ELSE Displayed(Shown(k), Info(k), Rank(k))
  <2>1. PICK d, id, s : d = displays[k] /\ id = Id(k) /\ s = Shown(k)
    OBVIOUS
  <2>2. PICK over \in BOOLEAN : over = Overridden(k)
    <3>1. Overridden(k) \in BOOLEAN
      OBVIOUS
    <3> HIDE DEF Overridden
    <3> QED BY <3>1
  <2>3. PICK info, rank : info = Info(k - 1) /\ rank = Rank(k - 1)
    OBVIOUS
  <2>4. /\ Put(Info(k - 1), displays[k], InfoFact(displays[k] \in overridden, rotation)) = Info(k)
        /\ Put(Rank(k - 1), displays[k], RankOf(displays[k] \in overridden)) = Rank(k)
        /\ displays[k] \in DOMAIN Rank(k - 1)
    <3>1. k \in Nat \ {0} /\ displays[k] \in Displays
      OBVIOUS
    <3> QED BY <3>1, UpToNext
  <2>5. rank[d] = Nothing
    <3>1. \A i \in 1..k - 1 : displays[i] # displays[k]
      <4>1. \A i \in 1..k - 1 : i \in 1..n /\ i # k
        OBVIOUS
      <4> QED BY <1>4, <4>1
    <3>2. displays[k] \in Displays
      OBVIOUS
    <3> QED BY <2>1, <2>3, <3>1, <3>2 DEF RankUpTo
  <2>6. IdOf(id, s, d)
    <3> HIDE DEF Id, Shown
    <3> QED BY <1>5, <2>1
  <2>7. d \in DOMAIN rank
    <3> HIDE DEF Rank, Info
    <3> QED BY <2>1, <2>3, <2>4
  <2>8. /\ IsSeq(InfoRows(id, over, late, rotation))
        /\ LinesRead("displays", Displayed(s, info, rank), InfoRows(id, over, late, rotation))
             = IF over /\ rotation > 3 THEN NotParsed
               ELSE Displayed(s, Put(info, d, InfoFact(over, rotation)), Put(rank, d, RankOf(over)))
    BY <2>5, <2>6, <2>7, InfoRowsRead
  <2>9. Put(info, d, InfoFact(over, rotation)) = Info(k) /\ Put(rank, d, RankOf(over)) = Rank(k)
    <3> HIDE DEF Info, Rank
    <3> QED BY <2>1, <2>2, <2>3, <2>4, Zenon
  <2>10. rows[k] = InfoRows(id, over, late, rotation)
    <3>1. rows[k] = InfoRows(Id(k), Overridden(k), late, rotation)
      <4> HIDE DEF Id, Overridden
      <4> QED BY <1>3
    <3> HIDE DEF Id, Overridden
    <3> QED BY <2>1, <2>2, <3>1, Zenon
  <2> HIDE DEF Id, Overridden, Info, Rank, Shown
  <2> QED BY <2>1, <2>2, <2>3, <2>8, <2>9, <2>10, Zenon
<1>7. SectionsAt(n, sections, h, rows)
  <2>1. ASSUME NEW i \in 1..n PROVE sections[i] = <<h[i]>> \o rows[i] /\ IsSeq(rows[i])
    <3>1. sections[i] = Section(displays[i] = hidden, [section |-> displays[i]], InfoRows(Id(i), Overridden(i), late, rotation))
      <4>1. PICK S : S = [j \in 1..n |-> Section(displays[j] = hidden, [section |-> displays[j]],
                                                 InfoRows(Id(j), Overridden(j), late, rotation))]
        OBVIOUS
      <4>2. sections = S
        BY <1>1, <4>1, Zenon DEF DisplaySectionList
      <4> HIDE DEF Id, Overridden
      <4> QED BY <4>1, <4>2
    <3>2. rows[i] = InfoRows(Id(i), Overridden(i), late, rotation)
      <4> HIDE DEF Id, Overridden
      <4> QED BY <1>3
    <3>3. h[i] = IF displays[i] = hidden THEN Noise ELSE [section |-> displays[i]]
      BY <1>2
    <3>4. PICK x : x = InfoRows(Id(i), Overridden(i), late, rotation)
      OBVIOUS
    <3> HIDE DEF Id, Overridden
    <3> QED BY <1>6, <3>1, <3>2, <3>3, <3>4 DEF Section
  <2>2. sections = [i \in 1..n |-> sections[i]]
    <3>1. PICK F : F = [i \in 1..n |-> Section(displays[i] = hidden, [section |-> displays[i]],
                            InfoRows(IF embedded THEN <<displays[i]>> ELSE Nothing,
                                     displays[i] \in overridden, late, rotation))]
      OBVIOUS
    <3>2. sections = F
      BY <1>1, <3>1, Zenon DEF DisplaySectionList
    <3>3. F = [i \in 1..n |-> F[i]]
      <4> DEFINE El(i) == Section(displays[i] = hidden, [section |-> displays[i]],
                            InfoRows(IF embedded THEN <<displays[i]>> ELSE Nothing,
                                     displays[i] \in overridden, late, rotation))
      <4>1. F = [i \in 1..n |-> El(i)]
        BY <3>1, Zenon
      <4> HIDE DEF El
      <4> QED BY <4>1
    <3> QED BY <3>2, <3>3
  <2> QED BY <2>1, <2>2 DEF SectionsAt
<1>8. PICK a : a = [k \in 0..n |-> State(k)]
  OBVIOUS
<1>9. ASSUME NEW k \in 1..n
      PROVE  LinesRead("displays", LineRead("displays", State(k - 1), h[k]), rows[k]) = State(k)
  <2>1. \A i \in 1..k : i = k \/ i \in 1..k - 1
    OBVIOUS
  <2>2. Odd(k) <=> Odd(k - 1) \/ (Overridden(k) /\ rotation > 3)
    BY <2>1
  <2>3. CASE Odd(k - 1)
    <3>1. State(k - 1) = NotParsed /\ State(k) = NotParsed
      <4> HIDE DEF Odd
      <4> QED BY <2>2, <2>3
    <3> HIDE DEF State, Overridden, Info, Rank, Shown
    <3> QED BY <1>6, <3>1, SeqLen, RaisedLine, RaisedStays
  <2>4. CASE ~Odd(k - 1)
    <3>1. State(k - 1) = Displayed(Shown(k - 1), Info(k - 1), Rank(k - 1))
      <4> HIDE DEF Odd
      <4> QED BY <2>4
    <3>2. LineRead("displays", State(k - 1), h[k]) = Displayed(Shown(k), Info(k - 1), Rank(k - 1))
      <4>1. PICK s, info, rank : s = Shown(k - 1) /\ info = Info(k - 1) /\ rank = Rank(k - 1)
        OBVIOUS
      <4>2. CASE displays[k] = hidden
        <5>1. h[k] = Noise
          BY <1>2, <4>2
        <5>2. Shown(k) = s
          <6>1. CASE k = 1
            BY <4>1, <4>2, <6>1
          <6>2. CASE k # 1
            <7>1. k - 1 \in 1..n /\ k - 1 # k /\ k - 1 # 0
              BY <6>2
            <7>2. displays[k - 1] # hidden
              BY <1>4, <4>2, <7>1
            <7> QED BY <4>1, <4>2, <6>2, <7>1, <7>2
          <6> QED BY <6>1, <6>2
        <5> HIDE DEF State, Shown, Info, Rank
        <5> QED BY <3>1, <4>1, <5>1, <5>2, DisplayedNoise
      <4>3. CASE displays[k] # hidden
        <5>1. PICK d : d = displays[k]
          OBVIOUS
        <5>2. h[k] = [section |-> d] /\ Shown(k) = <<d>>
          BY <1>2, <4>3, <5>1
        <5>3. LineRead("displays", Displayed(s, info, rank), [section |-> d]) = Displayed(<<d>>, info, rank)
          BY DisplayedHeader
        <5> HIDE DEF State, Shown, Info, Rank
        <5> QED BY <3>1, <4>1, <5>2, <5>3
      <4> QED BY <4>2, <4>3
    <3>3. State(k) = IF Overridden(k) /\ rotation > 3 THEN NotParsed ELSE Displayed(Shown(k), Info(k), Rank(k))
      <4> HIDE DEF Odd, Overridden, Shown, Info, Rank
      <4> QED BY <2>2, <2>4
    <3> HIDE DEF State, Shown, Info, Rank, Overridden, Odd
    <3> QED BY <1>6, <3>2, <3>3
  <2> HIDE DEF Odd, State
  <2> QED BY <2>3, <2>4
<1> HIDE DEF State
<1>10. RowsRead("displays", n, h, rows, a)
  <2> SUFFICES ASSUME NEW i \in 1..n
               PROVE  LinesRead("displays", LineRead("displays", a[i - 1], h[i]), rows[i]) = a[i]
    BY DEF RowsRead
  <2>1. a[i] = State(i) /\ a[i - 1] = State(i - 1)
    BY <1>8
  <2> QED BY <1>9, <2>1
<1>11. LinesRead("displays", a[0], FlattenSeq(sections)) = a[n]
  BY <1>7, <1>10, SectionedRead
<1>12. a[0] = Displayed(Nothing, Info(0), Rank(0))
  <2>1. ~Odd(0) /\ Shown(0) = Nothing /\ a[0] = State(0)
    BY <1>8
  <2> HIDE DEF Odd, Shown, Info, Rank
  <2> QED BY <2>1 DEF State
<1>13. a[n] = State(n)
  BY <1>8
<1> HIDE DEF Shown
<1>14. DisplaysFound(n, displays, overridden, rotation, FlattenSeq(sections))
  BY <1>11, <1>12, <1>13 DEF State, DisplaysFound
<1> QED BY <1>1, <1>14

(* Displays are told as they are, whatever overrides them and wherever that   *)
(* is printed.                                                                *)
LEMMA DisplayReportExact ==
    ASSUME NEW displays \in Lists(Displays), NEW hidden, NEW overridden, NEW late \in BOOLEAN,
           NEW embedded \in BOOLEAN, NEW rotation \in {1, 4}, NEW r,
           r = DisplayReport(displays, hidden, overridden, late, embedded, rotation)
    PROVE  Faithful(r)
<1>1. PICK n \in Nat : displays \in [1..n -> Displays] /\ Len(displays) = n /\ Distinct(displays)
  BY DumpsAssumption, ListIs
<1>2. DOMAIN displays = 1..n
  BY <1>1
<1>3. PICK lines : lines = FlattenSeq(DisplaySectionList(n, displays, hidden, overridden, late, embedded, rotation))
  OBVIOUS
<1> DEFINE Hidden == ~embedded /\ Contains(displays, hidden)
           AnyOdd == rotation > 3 /\ \E d \in overridden : Contains(displays, d)
           Odd == displays = <<>> \/ AnyOdd
<1>4. PICK form : form = FormOf(Hidden, Odd)
  OBVIOUS
<1>5. PICK facts : facts = [d \in Displays |-> IF Contains(displays, d) THEN InfoFact(d \in overridden, rotation)
                                               ELSE Nothing]
  OBVIOUS
<1>6. r = Report("displays", 0, form, facts, lines)
  BY <1>2, <1>3, <1>4, <1>5, Zenon DEF DisplayReport, DisplaySectionList
<1>7. r.form = form /\ r.facts = facts /\ Parse(r) = ParseDisplays(lines)
  BY <1>6, ReportParts, ParseOf
<1>8. form = IF Hidden THEN "hidden" ELSE IF Odd THEN "odd" ELSE "known"
  <2>1. Hidden \in BOOLEAN /\ Odd \in BOOLEAN
    BY DEF Contains
  <2> HIDE DEF Hidden, Odd
  <2> QED BY <1>4, <2>1, FormIs
<1>9. CASE ~Hidden
  <2>1. embedded \/ \A i \in 1..n : displays[i] # hidden
    BY <1>1, <1>9 DEF Contains
  <2>2. PICK none : none = [d \in Displays |-> Nothing]
    OBVIOUS
  <2>3. InfoUpTo(0, displays, overridden, rotation) = none /\ RankUpTo(0, displays, overridden) = none
    <3> DEFINE Among(d) == \E i \in 1..0 : displays[i] = d
    <3>1. \A d : ~Among(d)
      OBVIOUS
    <3>2. \A F : [d \in Displays |-> IF Among(d) THEN F ELSE Nothing] = none
      <4> HIDE DEF Among
      <4> QED BY <2>2, <3>1
    <3> DEFINE Info(d) == InfoFact(d \in overridden, rotation)
               Rank(d) == RankOf(d \in overridden)
    <3>3. PICK i0, r0 : /\ i0 = [d \in Displays |-> IF Among(d) THEN Info(d) ELSE Nothing]
                        /\ r0 = [d \in Displays |-> IF Among(d) THEN Rank(d) ELSE Nothing]
      OBVIOUS
    <3>4. i0 = none /\ r0 = none
      <4> HIDE DEF Among, Info, Rank
      <4> QED BY <2>2, <3>1, <3>3
    <3> QED BY <3>3, <3>4, Zenon DEF InfoUpTo, RankUpTo
  <2>4. InfoUpTo(n, displays, overridden, rotation) = facts
    <3>1. \A d : (\E i \in 1..n : displays[i] = d) <=> Contains(displays, d)
      BY <1>1 DEF Contains
    <3> DEFINE Among(d) == \E i \in 1..n : displays[i] = d
               Info(d) == InfoFact(d \in overridden, rotation)
    <3>2. PICK i0 : i0 = [d \in Displays |-> IF Among(d) THEN Info(d) ELSE Nothing]
      OBVIOUS
    <3>3. facts = [d \in Displays |-> IF Contains(displays, d) THEN Info(d) ELSE Nothing]
      BY <1>5, Zenon
    <3>4. i0 = facts
      <4> HIDE DEF Among, Info
      <4>1. \A d : Among(d) <=> Contains(displays, d)
        BY <3>1 DEF Among
      <4> QED BY <3>2, <3>3, <4>1
    <3> QED BY <3>2, <3>4, Zenon DEF InfoUpTo
  <2>5. PICK found : found = LinesRead("displays", Displayed(Nothing, none, none), lines)
    OBVIOUS
  <2>6. AnyOdd <=> rotation > 3 /\ \E i \in 1..n : displays[i] \in overridden
    <3>1. (\E d \in overridden : Contains(displays, d)) <=> \E i \in 1..n : displays[i] \in overridden
      BY <1>1 DEF Contains
    <3> QED BY <3>1
  <2>7. /\ AnyOdd => found = NotParsed
        /\ ~AnyOdd => \E display, rank : found = Displayed(display, facts, rank)
    <3>1. DisplaysFound(n, displays, overridden, rotation, lines)
      BY <1>1, <1>3, <2>1, DisplaySections
    <3> HIDE DEF AnyOdd
    <3> QED BY <2>3, <2>4, <2>5, <2>6, <3>1 DEF DisplaysFound
  <2>8. ParseDisplays(lines) = IF ~found.bad /\ found.info # none THEN <<found.info>> ELSE Nothing
    BY <2>2, <2>5 DEF ParseDisplays, Displayed
  <2>9. facts = none <=> displays = <<>>
    <3>1. CASE n = 0
      <4>1. displays = <<>>
        BY <1>1, <3>1
      <4>2. \A d : ~Contains(displays, d)
        BY <1>1, <3>1 DEF Contains
      <4> DEFINE Info(d) == InfoFact(d \in overridden, rotation)
      <4>3. facts = [d \in Displays |-> IF Contains(displays, d) THEN Info(d) ELSE Nothing]
        BY <1>5, Zenon
      <4>4. facts = none
        <5> HIDE DEF Info
        <5> QED BY <2>2, <4>2, <4>3
      <4> QED BY <4>1, <4>4
    <3>2. CASE n # 0
      <4>1. 1 \in 1..n /\ displays # <<>>
        BY <1>1, <3>2
      <4>2. PICK d \in Displays : d = displays[1]
        BY <1>1, <4>1
      <4>3. Contains(displays, d)
        BY <1>1, <4>1, <4>2 DEF Contains
      <4>4. facts[d] = InfoFact(d \in overridden, rotation)
        BY <1>5, <4>3
      <4>5. \A known : InfoFact(known, rotation) # Nothing
        BY DEF InfoFact, Nothing
      <4>6. none[d] = Nothing
        BY <2>2
      <4>7. PICK known : known = (d \in overridden)
        OBVIOUS
      <4>8. facts[d] = InfoFact(known, rotation)
        BY <4>4, <4>7, Zenon
      <4>9. facts[d] # none[d]
        BY <4>5, <4>6, <4>8
      <4> QED BY <4>1, <4>9
    <3> QED BY <3>1, <3>2
  <2>10. CASE AnyOdd
    <3>1. found = NotParsed
      BY <2>7, <2>10
    <3>2. ParseDisplays(lines) = Nothing
      BY <2>8, <3>1 DEF NotParsed
    <3>3. form = "odd"
      <4> HIDE DEF Hidden, AnyOdd
      <4> QED BY <1>8, <1>9, <2>10
    <3> QED BY <1>7, <3>2, <3>3 DEF Faithful
  <2>11. CASE ~AnyOdd
    <3>1. PICK display, rank : found = Displayed(display, facts, rank)
      BY <2>7, <2>11
    <3>2. ~found.bad /\ found.info = facts
      BY <3>1 DEF Displayed
    <3>3. ParseDisplays(lines) = IF displays = <<>> THEN Nothing ELSE <<facts>>
      BY <2>8, <2>9, <3>2
    <3>4. form = IF displays = <<>> THEN "odd" ELSE "known"
      <4> HIDE DEF Hidden, AnyOdd
      <4> QED BY <1>8, <1>9, <2>11
    <3> QED BY <1>7, <3>3, <3>4 DEF Faithful
  <2> HIDE DEF AnyOdd
  <2> QED BY <2>10, <2>11
<1>10. CASE Hidden
  <2>1. form = "hidden"
    <3> HIDE DEF Hidden, Odd
    <3> QED BY <1>8, <1>10
  <2> QED BY <1>7, <2>1 DEF Faithful
<1> QED BY <1>9, <1>10

(* Displays are told exactly.                                                 *)
LEMMA DisplaysExact == \A r \in DisplayReports : Faithful(r)
<1> SUFFICES ASSUME NEW r \in DisplayReports PROVE Faithful(r)
  OBVIOUS
<1>1. CASE \E displays \in Lists(Displays), hidden \in Displays \cup {NoDisplay},
              overridden \in SUBSET Displays, late \in BOOLEAN, embedded \in BOOLEAN, rotation \in {1, 4} :
           r = DisplayReport(displays, hidden, overridden, late, embedded, rotation)
  BY <1>1, DisplayReportExact
<1>2. CASE \E displays \in Lists(Displays), odd \in SUBSET Displays : r = PhysicalReport(displays, odd)
  BY <1>2, PhysicalExact, Zenon
<1> QED BY <1>1, <1>2 DEF DisplayReports

--------------------------------------------------------------------------------
(* Windows: blocks of lines.                                                  *)

(* The windows: the block of one, to which the line of the focus may belong.  *)
WindowHeader(w) == [window |-> [id |-> w, component |-> Nothing]]
IsBlock(m, w, lack, f, block) ==
    /\ DOMAIN block = 1..m /\ block[1] = WindowHeader(w) /\ block[2] = [mDisplayId |-> 0, package |-> w]
    /\ block[3] = (IF lack THEN Noise ELSE [frame |-> w])
    /\ block[4] = [mViewVisibility |-> 0, mHasSurface |-> TRUE] /\ block[5] = [mDisplayId |-> 1]
    /\ (m = 6 => block[6] = [mCurrentFocus |-> f])
FoundWindow(w, focused) ==
    [id |-> w, display |-> 0, frame |-> w, visibility |-> 0, surface |-> TRUE,
     focused |-> focused, package |-> <<w>>]

BlockFound(w, lack, block) ==
    /\ Search(block, "mDisplayId") = <<0>> /\ Search(block, "package") = <<w>>
    /\ Search(block, "frame") = (IF lack THEN Nothing ELSE <<w>>)
    /\ Search(block, "mViewVisibility") = <<0>> /\ Search(block, "mHasSurface") = <<TRUE>>
    /\ block[1].window.id = w /\ block[1].window.component = Nothing

(* In a block the first line of a pattern is found, so that the display of a  *)
(* window is that of its own line, not of a later one.                        *)
LEMMA BlockSearched ==
    ASSUME NEW m \in {5, 6}, NEW w, NEW lack \in BOOLEAN, NEW f, NEW block, IsBlock(m, w, lack, f, block)
    PROVE  BlockFound(w, lack, block)
<1>1. PICK n \in Nat : n = m
  OBVIOUS
<1>2. DOMAIN block = 1..n /\ \A j \in 1..n : j \in {1, 2, 3, 4, 5} \/ (j = 6 /\ m = 6)
  BY <1>1 DEF IsBlock
<1>3. PICK two \in 1..n, three \in 1..n, four \in 1..n : two = 2 /\ three = 3 /\ four = 4
  BY <1>1
<1>4. /\ DOMAIN block[1] = {"window"} /\ DOMAIN block[2] = {"mDisplayId", "package"}
      /\ DOMAIN block[3] = (IF lack THEN {"noise"} ELSE {"frame"})
      /\ DOMAIN block[4] = {"mViewVisibility", "mHasSurface"} /\ DOMAIN block[5] = {"mDisplayId"}
      /\ (m = 6 => DOMAIN block[6] = {"mCurrentFocus"})
  BY DEF IsBlock, WindowHeader, Noise
<1>5. Search(block, "mDisplayId") = <<0>>
  <2>1. PICK p : p = "mDisplayId"
    OBVIOUS
  <2>2. Holds(block[two], p) /\ \A j \in 1..n : Holds(block[j], p) => two <= j
    BY <1>2, <1>3, <1>4, <2>1 DEF Holds
  <2>3. Search(block, p) = <<block[two][p]>>
    BY <1>2, <2>2, SearchFirst
  <2> QED BY <1>3, <2>1, <2>3 DEF IsBlock
<1>6. Search(block, "package") = <<w>>
  <2>1. PICK p : p = "package"
    OBVIOUS
  <2>2. Holds(block[two], p) /\ \A j \in 1..n : Holds(block[j], p) => two <= j
    BY <1>2, <1>3, <1>4, <2>1 DEF Holds
  <2>3. Search(block, p) = <<block[two][p]>>
    BY <1>2, <2>2, SearchFirst
  <2> QED BY <1>3, <2>1, <2>3 DEF IsBlock
<1>7. Search(block, "mViewVisibility") = <<0>>
  <2>1. PICK p : p = "mViewVisibility"
    OBVIOUS
  <2>2. Holds(block[four], p) /\ \A j \in 1..n : Holds(block[j], p) => four <= j
    BY <1>2, <1>3, <1>4, <2>1 DEF Holds
  <2>3. Search(block, p) = <<block[four][p]>>
    BY <1>2, <2>2, SearchFirst
  <2> QED BY <1>3, <2>1, <2>3 DEF IsBlock
<1>8. Search(block, "mHasSurface") = <<TRUE>>
  <2>1. PICK p : p = "mHasSurface"
    OBVIOUS
  <2>2. Holds(block[four], p) /\ \A j \in 1..n : Holds(block[j], p) => four <= j
    BY <1>2, <1>3, <1>4, <2>1 DEF Holds
  <2>3. Search(block, p) = <<block[four][p]>>
    BY <1>2, <2>2, SearchFirst
  <2>4. PICK v : v = TRUE
    OBVIOUS
  <2>5. block[four] = [mViewVisibility |-> 0, mHasSurface |-> v]
    BY <1>3, <2>4, Zenon DEF IsBlock
  <2>6. block[four][p] = v
    BY <2>1, <2>5
  <2> QED BY <2>1, <2>3, <2>4, <2>6, Zenon
<1>9. Search(block, "frame") = (IF lack THEN Nothing ELSE <<w>>)
  <2>1. PICK p : p = "frame"
    OBVIOUS
  <2>2. CASE lack
    <3>1. \A j \in 1..n : ~Holds(block[j], p)
      BY <1>2, <1>4, <2>1, <2>2, SMTT(30) DEF Holds
    <3>2. Search(block, p) = Nothing
      BY <1>2, <3>1, SearchNone
    <3> QED BY <2>1, <2>2, <3>2
  <2>3. CASE ~lack
    <3>1. Holds(block[three], p) /\ \A j \in 1..n : Holds(block[j], p) => three <= j
      BY <1>2, <1>3, <1>4, <2>1, <2>3 DEF Holds
    <3>2. Search(block, p) = <<block[three][p]>>
      BY <1>2, <3>1, SearchFirst, SMTT(30)
    <3>3. block[three] = [frame |-> w]
      BY <1>3, <2>3 DEF IsBlock
    <3> QED BY <2>1, <2>3, <3>2, <3>3
  <2> QED BY <2>2, <2>3
<1>10. block[1].window.id = w /\ block[1].window.component = Nothing
  BY DEF IsBlock, WindowHeader
<1> QED BY <1>5, <1>6, <1>7, <1>8, <1>9, <1>10 DEF BlockFound

(* A block is told as its window, or as none if its frame is lacking.         *)
LEMMA WindowOfBlock ==
    ASSUME NEW m \in {5, 6}, NEW w, NEW lack \in BOOLEAN, NEW f, NEW block, IsBlock(m, w, lack, f, block),
           NEW focus, NEW focused, focused = (focus = <<w>>)
    PROVE  WindowOf(block, focus) = IF lack THEN Nothing ELSE <<FoundWindow(w, focused)>>
<1>1. PICK display, bounds, visibility, surface, package, header :
        /\ display = <<0>> /\ bounds = (IF lack THEN Nothing ELSE <<w>>) /\ visibility = <<0>>
        /\ surface = <<TRUE>> /\ package = <<w>> /\ header = block[1].window
  OBVIOUS
<1>2. WindowOf(block, focus) = WindowFacts(header, focus, display, bounds, visibility, surface, package)
  <2>1. BlockFound(w, lack, block)
    BY BlockSearched
  <2> QED BY <1>1, <2>1, Zenon DEF WindowOf, BlockFound
<1>3. header.id = w /\ header.component = Nothing
  <2>1. BlockFound(w, lack, block)
    BY BlockSearched
  <2> QED BY <1>1, <2>1 DEF BlockFound
<1>4. CASE lack
  BY <1>1, <1>2, <1>4 DEF WindowFacts, Nothing
<1>5. CASE ~lack
  <2>1. <<>> \notin {display, bounds, visibility, surface} /\ visibility[1] \in Visibilities
    BY <1>1, <1>5 DEF Visibilities
  <2>2. display[1] = 0 /\ bounds[1] = w /\ visibility[1] = 0 /\ surface[1] = TRUE
    BY <1>1, <1>5
  <2>3. WindowFacts(header, focus, display, bounds, visibility, surface, package)
          = <<[id |-> header.id, display |-> display[1], frame |-> bounds[1],
               visibility |-> visibility[1], surface |-> surface[1], focused |-> focus = <<header.id>>,
               package |-> IF header.component # Nothing THEN header.component ELSE package]>>
    BY <2>1, Zenon DEF WindowFacts
  <2>4. (IF header.component # Nothing THEN header.component ELSE package) = <<w>>
    BY <1>1, <1>3
  <2> QED BY <1>2, <1>3, <1>5, <2>2, <2>3, <2>4, Zenon DEF FoundWindow
<1> QED BY <1>4, <1>5

(* Four lines, one after the other.                                           *)
LEMMA LinesReadFour ==
    ASSUME NEW c, NEW s, NEW x, NEW y, NEW z, NEW v
    PROVE  /\ LinesRead(c, s, <<x, y, z, v>>)
                = LineRead(c, LineRead(c, LineRead(c, LineRead(c, s, x), y), z), v)
           /\ IsSeq(<<x, y, z, v>>)
<1>0. PICK t : t = <<x, y, z, v>>
  OBVIOUS
<1>1. /\ t = <<x, y, z, v>> /\ Len(t) = 4 /\ t[1] = x /\ t[2] = y /\ t[3] = z /\ t[4] = v
      /\ t = [j \in 1..4 |-> t[j]]
  BY <1>0
<1>2. PICK r : r[0] = s /\ LinesRead(c, s, t) = r[Len(t)] /\ After(c, t, r)
  BY <1>1, LinesReadDef
<1>3. /\ r[1] = LineRead(c, r[0], t[1]) /\ r[2] = LineRead(c, r[1], t[2]) /\ r[3] = LineRead(c, r[2], t[3])
      /\ r[4] = LineRead(c, r[3], t[4])
  <2>1. /\ 1 \in 1..Len(t) /\ 2 \in 1..Len(t) /\ 3 \in 1..Len(t) /\ 4 \in 1..Len(t)
        /\ 1 - 1 = 0 /\ 2 - 1 = 1 /\ 3 - 1 = 2 /\ 4 - 1 = 3
    BY <1>1
  <2> QED BY <1>2, <2>1 DEF After
<1>4. IsSeq(t)
  BY <1>1 DEF IsSeq
<1> QED BY <1>1, <1>2, <1>3, <1>4

(* A sequence with one more element after it.                                 *)
LEMMA Extended ==
    ASSUME NEW k \in Nat, NEW B, B = [i \in 1..k |-> B[i]], NEW b
    PROVE  Append(B, b) = [i \in 1..k + 1 |-> IF i = k + 1 THEN b ELSE B[i]]
<1>1. PICK S : S = {b} \cup {B[i] : i \in 1..k}
  OBVIOUS
<1>2. b \in S /\ \A i \in 1..k : B[i] \in S
  BY <1>1
<1>3. B \in Seq(S) /\ Len(B) = k
  BY <1>2, SeqTyped
<1> QED BY <1>2, <1>3

(* The windows: the blocks found after a line.                                *)
Blocks(B) == [bad |-> FALSE, blocks |-> B]

(* A header starts a block (_window_parsers.py 60-216).                       *)
LEMMA BlockStarts ==
    ASSUME NEW B, NEW w
    PROVE  LineRead("windows", Blocks(B), WindowHeader(w)) = Blocks(Append(B, <<WindowHeader(w)>>))
<1>1. PICK line : line = WindowHeader(w)
  OBVIOUS
<1>2. Holds(line, "window")
  BY <1>1 DEF Holds, WindowHeader
<1>3. WindowLine(Blocks(B), line) = Blocks(Append(B, <<line>>))
  BY <1>2 DEF WindowLine, Blocks
<1> QED BY <1>1, <1>3, LineReadIs DEF Blocks

(* A line that is no header belongs to the last block.                        *)
LEMMA BlockGrows ==
    ASSUME NEW k \in Nat, NEW B, B = [i \in 1..k |-> B[i]], NEW b, NEW line, ~Holds(line, "window")
    PROVE  LineRead("windows", Blocks(Append(B, b)), line) = Blocks(Append(B, Append(b, line)))
<1>1. PICK C, D, more : C = Append(B, b) /\ more = Append(b, line) /\ D = Append(B, more)
  OBVIOUS
<1>2. C = [i \in 1..k + 1 |-> IF i = k + 1 THEN b ELSE B[i]]
  BY <1>1, Extended
<1>3. D = [i \in 1..k + 1 |-> IF i = k + 1 THEN more ELSE B[i]]
  BY <1>1, Extended
<1>4. C = [i \in 1..k + 1 |-> C[i]] /\ C[k + 1] = b
  BY <1>2
<1>5. Len(C) = k + 1
  <2>1. PICK n \in Nat : n = k + 1
    OBVIOUS
  <2>2. PICK T : T = {C[i] : i \in 1..n}
    OBVIOUS
  <2>3. \A i \in 1..n : C[i] \in T
    BY <2>2
  <2>4. C = [i \in 1..n |-> C[i]]
    BY <1>4, <2>1
  <2>5. Len(C) = n
    BY <2>3, <2>4, SeqTyped
  <2> QED BY <2>1, <2>5
<1>6. C # <<>>
  BY <1>4, <1>5
<1>7. [C EXCEPT ![k + 1] = more] = D
  BY <1>2, <1>3
<1>8. WindowLine(Blocks(C), line) = Blocks(D)
  <2>1. Blocks(C).blocks = C
    BY DEF Blocks
  <2>2. WindowLine(Blocks(C), line) = [Blocks(C) EXCEPT !.blocks[k + 1] = Append(@, line)]
    BY <1>5, <1>6, <2>1, Zenon DEF WindowLine
  <2>3. [Blocks(C) EXCEPT !.blocks[k + 1] = more] = [bad |-> FALSE, blocks |-> [C EXCEPT ![k + 1] = more]]
    <3>1. PICK s : s = Blocks(C)
      OBVIOUS
    <3>2. PICK last, t : last = k + 1 /\ t = [s EXCEPT !.blocks[last] = more]
      OBVIOUS
    <3> DEFINE F == {"bad", "blocks"}
    <3>3. s = [x \in F |-> s[x]] /\ s.bad = FALSE /\ s.blocks = C
      BY <3>1 DEF Blocks
    <3>4. t = [x \in F |-> t[x]] /\ t.bad = FALSE /\ t.blocks = [C EXCEPT ![last] = more]
      BY <3>2, <3>3
    <3>5. t = [bad |-> FALSE, blocks |-> [C EXCEPT ![last] = more]]
      BY <3>4
    <3> QED BY <3>1, <3>2, <3>5
  <2>4. Append(Blocks(C).blocks[k + 1], line) = more
    BY <1>1, <1>4, <2>1
  <2> QED BY <1>7, <2>2, <2>3, <2>4 DEF Blocks
<1> QED BY <1>1, <1>8, LineReadIs DEF Blocks

(* The lines of a window are all in its block.                                *)
WindowBlock(w, lack) ==
    Append(Append(Append(Append(<<WindowHeader(w)>>,
        [mDisplayId |-> 0, package |-> w]), IF lack THEN Noise ELSE [frame |-> w]),
        [mViewVisibility |-> 0, mHasSurface |-> TRUE]), [mDisplayId |-> 1])

(* The rows of a window are added to its block one by one.                    *)
LEMMA WindowRowsRead ==
    ASSUME NEW k \in Nat, NEW B, B = [i \in 1..k |-> B[i]], NEW w, NEW lack \in BOOLEAN
    PROVE  /\ IsSeq(WindowRows(w, lack))
           /\ LinesRead("windows", Blocks(Append(B, <<WindowHeader(w)>>)), WindowRows(w, lack))
                = Blocks(Append(B, WindowBlock(w, lack)))
<1>1. PICK h, r1, r2, r3, r4 :
        /\ h = WindowHeader(w) /\ r1 = [mDisplayId |-> 0, package |-> w]
        /\ r2 = (IF lack THEN Noise ELSE [frame |-> w])
        /\ r3 = [mViewVisibility |-> 0, mHasSurface |-> TRUE] /\ r4 = [mDisplayId |-> 1]
  OBVIOUS
<1>2. WindowRows(w, lack) = <<r1, r2, r3, r4>>
  BY <1>1, Zenon DEF WindowRows
<1>3. PICK b0, b1, b2, b3, b4 :
        /\ b0 = <<h>> /\ b1 = Append(b0, r1) /\ b2 = Append(b1, r2) /\ b3 = Append(b2, r3)
        /\ b4 = Append(b3, r4)
  OBVIOUS
<1>4. WindowBlock(w, lack) = b4
  BY <1>1, <1>3, Zenon DEF WindowBlock
<1>5. ~Holds(r1, "window") /\ ~Holds(r2, "window") /\ ~Holds(r3, "window") /\ ~Holds(r4, "window")
  BY <1>1 DEF Holds, Noise
<1>6. LineRead("windows", Blocks(Append(B, b0)), r1) = Blocks(Append(B, b1))
  BY <1>3, <1>5, BlockGrows
<1>7. LineRead("windows", Blocks(Append(B, b1)), r2) = Blocks(Append(B, b2))
  BY <1>3, <1>5, BlockGrows
<1>8. LineRead("windows", Blocks(Append(B, b2)), r3) = Blocks(Append(B, b3))
  BY <1>3, <1>5, BlockGrows
<1>9. LineRead("windows", Blocks(Append(B, b3)), r4) = Blocks(Append(B, b4))
  BY <1>3, <1>5, BlockGrows
<1>10. /\ LinesRead("windows", Blocks(Append(B, b0)), <<r1, r2, r3, r4>>) = Blocks(Append(B, b4))
       /\ IsSeq(<<r1, r2, r3, r4>>)
  BY <1>6, <1>7, <1>8, <1>9, LinesReadFour
<1> QED BY <1>1, <1>2, <1>3, <1>4, <1>10

(* The block of a window has its header and its rows, and may have the line   *)
(* of the focus.                                                              *)
LEMMA WindowBlockIs ==
    ASSUME NEW w, NEW lack \in BOOLEAN, NEW f
    PROVE  /\ IsBlock(5, w, lack, f, WindowBlock(w, lack))
           /\ IsBlock(6, w, lack, f, Append(WindowBlock(w, lack), [mCurrentFocus |-> f]))
<1>1. PICK h, r1, r2, r3, r4, l :
        /\ h = WindowHeader(w) /\ r1 = [mDisplayId |-> 0, package |-> w]
        /\ r2 = (IF lack THEN Noise ELSE [frame |-> w])
        /\ r3 = [mViewVisibility |-> 0, mHasSurface |-> TRUE] /\ r4 = [mDisplayId |-> 1]
        /\ l = [mCurrentFocus |-> f]
  OBVIOUS
<1>2. PICK b0, b1, b2, b3, b4, b5 :
        /\ b0 = <<h>> /\ b1 = Append(b0, r1) /\ b2 = Append(b1, r2) /\ b3 = Append(b2, r3)
        /\ b4 = Append(b3, r4) /\ b5 = Append(b4, l)
  OBVIOUS
<1>3. WindowBlock(w, lack) = b4
  BY <1>1, <1>2, Zenon DEF WindowBlock
<1>4. PICK S : S = {h, r1, r2, r3, r4, l}
  OBVIOUS
<1>5. h \in S /\ r1 \in S /\ r2 \in S /\ r3 \in S /\ r4 \in S /\ l \in S
  BY <1>4
<1> HIDE <1>1, <1>4
<1>6. b0 \in Seq(S) /\ Len(b0) = 1 /\ b0[1] = h
  BY <1>2, <1>5
<1>7. b1 \in Seq(S) /\ Len(b1) = 2 /\ b1[1] = h /\ b1[2] = r1
  BY <1>2, <1>5, <1>6
<1>8. b2 \in Seq(S) /\ Len(b2) = 3 /\ b2[1] = h /\ b2[2] = r1 /\ b2[3] = r2
  BY <1>2, <1>5, <1>7
<1>9. b3 \in Seq(S) /\ Len(b3) = 4 /\ b3[1] = h /\ b3[2] = r1 /\ b3[3] = r2 /\ b3[4] = r3
  BY <1>2, <1>5, <1>8
<1>10. /\ b4 \in Seq(S) /\ Len(b4) = 5 /\ b4[1] = h /\ b4[2] = r1 /\ b4[3] = r2 /\ b4[4] = r3 /\ b4[5] = r4
  BY <1>2, <1>5, <1>9
<1>11. /\ b5 \in Seq(S) /\ Len(b5) = 6 /\ b5[1] = h /\ b5[2] = r1 /\ b5[3] = r2 /\ b5[4] = r3 /\ b5[5] = r4
       /\ b5[6] = l
  BY <1>2, <1>5, <1>10
<1>12. DOMAIN b4 = 1..5 /\ DOMAIN b5 = 1..6 /\ 5 # 6
  BY <1>10, <1>11
<1>13. IsBlock(5, w, lack, f, b4)
  BY <1>1, <1>10, <1>12, Zenon DEF IsBlock
<1>14. IsBlock(6, w, lack, f, b5)
  BY <1>1, <1>11, <1>12, Zenon DEF IsBlock
<1> QED BY <1>1, <1>2, <1>3, <1>13, <1>14

(* The lines about windows name no focus.                                     *)
WindowLines(w) ==
    {WindowHeader(w), [mDisplayId |-> 0, package |-> w], Noise, [frame |-> w],
     [mViewVisibility |-> 0, mHasSurface |-> TRUE], [mDisplayId |-> 1]}
WindowTexts == UNION {WindowLines(w) : w \in Windows}

(* No line about a window names the focus.                                    *)
LEMMA NoFocusNamed == \A l \in WindowTexts : ~Holds(l, "mCurrentFocus")
<1> SUFFICES ASSUME NEW w \in Windows, NEW l \in WindowLines(w) PROVE ~Holds(l, "mCurrentFocus")
  BY DEF WindowTexts
<1> QED BY DEF WindowLines, WindowHeader, Noise, Holds

(* The lines of a window are about that window.                               *)
LEMMA WindowTyped ==
    ASSUME NEW w \in Windows, NEW lack \in BOOLEAN
    PROVE  <<WindowHeader(w)>> \o WindowRows(w, lack) \in Seq(WindowTexts)
<1>1. PICK S : S = WindowTexts
  OBVIOUS
<1>2. PICK h, r1, r2, r3, r4 :
        /\ h = WindowHeader(w) /\ r1 = [mDisplayId |-> 0, package |-> w]
        /\ r2 = (IF lack THEN Noise ELSE [frame |-> w])
        /\ r3 = [mViewVisibility |-> 0, mHasSurface |-> TRUE] /\ r4 = [mDisplayId |-> 1]
  OBVIOUS
<1>3. WindowRows(w, lack) = <<r1, r2, r3, r4>>
  BY <1>2, Zenon DEF WindowRows
<1>4. WindowLines(w) \subseteq S
  BY <1>1 DEF WindowTexts
<1>5. /\ h \in WindowLines(w) /\ r1 \in WindowLines(w) /\ r2 \in WindowLines(w)
      /\ r3 \in WindowLines(w) /\ r4 \in WindowLines(w)
  <2>1. /\ WindowHeader(w) \in WindowLines(w) /\ [mDisplayId |-> 0, package |-> w] \in WindowLines(w)
        /\ Noise \in WindowLines(w) /\ [frame |-> w] \in WindowLines(w)
        /\ [mViewVisibility |-> 0, mHasSurface |-> TRUE] \in WindowLines(w)
        /\ [mDisplayId |-> 1] \in WindowLines(w)
    BY Zenon DEF WindowLines
  <2> QED BY <1>2, <2>1, Zenon
<1>6. h \in S /\ r1 \in S /\ r2 \in S /\ r3 \in S /\ r4 \in S
  BY <1>4, <1>5
<1> HIDE <1>1, <1>2, <1>4, <1>5
<1>7. <<h>> \in Seq(S) /\ <<r1, r2, r3, r4>> \in Seq(S)
  BY <1>6
<1>8. PICK a \in Seq(S), b \in Seq(S) : a = <<h>> /\ b = <<r1, r2, r3, r4>>
  BY <1>7
<1>9. a \o b \in Seq(S)
  BY ConcatProperties
<1> QED BY <1>1, <1>2, <1>3, <1>8, <1>9

WindowSectionList(n, windows, hidden, lacking) ==
    [i \in 1..n |-> Section(windows[i] = hidden, [window |-> [id |-> windows[i], component |-> Nothing]],
                            WindowRows(windows[i], windows[i] = lacking))]
BlockList(k, windows, lacking) == [i \in 1..k |-> WindowBlock(windows[i], windows[i] = lacking)]

(* One more window is one more block.                                         *)
LEMMA BlockListNext ==
    ASSUME NEW k \in Nat \ {0}, NEW windows, NEW lacking, NEW w, w = windows[k], NEW lack, lack = (w = lacking)
    PROVE  /\ Append(BlockList(k - 1, windows, lacking), WindowBlock(w, lack)) = BlockList(k, windows, lacking)
           /\ BlockList(k - 1, windows, lacking) = [i \in 1..k - 1 |-> BlockList(k - 1, windows, lacking)[i]]
<1> DEFINE El(i) == WindowBlock(windows[i], windows[i] = lacking)
<1>1. PICK B : B = [i \in 1..k - 1 |-> El(i)]
  OBVIOUS
<1>2. PICK D : D = [i \in 1..k |-> El(i)]
  OBVIOUS
<1>3. PICK b : b = El(k)
  OBVIOUS
<1>4. B = BlockList(k - 1, windows, lacking) /\ D = BlockList(k, windows, lacking)
  BY <1>1, <1>2, Zenon DEF BlockList
<1>5. b = WindowBlock(w, lack)
  BY <1>3, Zenon
<1> HIDE DEF El
<1>6. B = [i \in 1..k - 1 |-> B[i]] /\ k - 1 \in Nat /\ k - 1 + 1 = k
  BY <1>1
<1>7. Append(B, b) = [i \in 1..k |-> IF i = k THEN b ELSE B[i]]
  <2>1. PICK j \in Nat : j = k - 1 /\ B = [i \in 1..j |-> B[i]]
    BY <1>6
  <2>2. Append(B, b) = [i \in 1..j + 1 |-> IF i = j + 1 THEN b ELSE B[i]]
    BY <2>1, Extended
  <2> QED BY <2>1, <2>2
<1>8. Append(B, b) = D
  BY <1>1, <1>2, <1>3, <1>7
<1> QED BY <1>4, <1>5, <1>6, <1>8

WindowsFound(n, windows, lacking, text) ==
    /\ text \in Seq(WindowTexts)
    /\ LinesRead("windows", Blocks(<<>>), text) = Blocks(BlockList(n, windows, lacking))

(* All sections of a text whose headers are known.                            *)
LEMMA WindowSections ==
    ASSUME NEW n \in Nat, NEW windows \in [1..n -> Windows],
           NEW hidden, \A i \in 1..n : windows[i] # hidden, NEW lacking
    PROVE  WindowsFound(n, windows, lacking, FlattenSeq(WindowSectionList(n, windows, hidden, lacking)))
<1> DEFINE Lack(i) == windows[i] = lacking
<1>1. PICK sections : sections = WindowSectionList(n, windows, hidden, lacking)
  OBVIOUS
<1>2. PICK h : h = [i \in 1..n |-> WindowHeader(windows[i])]
  OBVIOUS
<1>3. PICK rows : rows = [i \in 1..n |-> WindowRows(windows[i], Lack(i))]
  OBVIOUS
<1>4. ASSUME NEW i \in 1..n PROVE \E lack \in BOOLEAN : lack = Lack(i)
  <2>1. Lack(i) \in BOOLEAN
    OBVIOUS
  <2> HIDE DEF Lack
  <2> QED BY <2>1
<1>5. ASSUME NEW i \in 1..n
      PROVE  /\ sections[i] = <<h[i]>> \o rows[i] /\ IsSeq(rows[i])
             /\ sections[i] \in Seq(WindowTexts)
  <2>1. PICK lack \in BOOLEAN : lack = Lack(i)
    BY <1>4
  <2>2. PICK w \in Windows : w = windows[i]
    OBVIOUS
  <2>3. rows[i] = WindowRows(windows[i], Lack(i))
    <3> HIDE DEF Lack
    <3> QED BY <1>3
  <2>4. h[i] = WindowHeader(w)
    BY <1>2, <2>2
  <2>5. sections[i] = Section(windows[i] = hidden, WindowHeader(windows[i]), WindowRows(windows[i], Lack(i)))
    <3>1. PICK S : S = [j \in 1..n |-> Section(windows[j] = hidden, WindowHeader(windows[j]),
                                               WindowRows(windows[j], Lack(j)))]
      OBVIOUS
    <3>2. sections = S
      BY <1>1, <3>1, Zenon DEF WindowSectionList, WindowHeader
    <3> HIDE DEF Lack
    <3> QED BY <3>1, <3>2
  <2>6. rows[i] = WindowRows(w, lack)
    <3> HIDE DEF Lack
    <3> QED BY <2>1, <2>2, <2>3
  <2>7. sections[i] = <<h[i]>> \o rows[i]
    <3>1. windows[i] # hidden
      OBVIOUS
    <3> HIDE DEF Lack
    <3> QED BY <2>2, <2>3, <2>4, <2>5, <3>1 DEF Section
  <2>8. IsSeq(WindowRows(w, lack))
    <3>1. PICK B : B = <<>>
      OBVIOUS
    <3>2. PICK zero \in Nat : zero = 0 /\ B = [j \in 1..zero |-> B[j]]
      BY <3>1
    <3> QED BY <3>2, WindowRowsRead
  <2>9. <<WindowHeader(w)>> \o WindowRows(w, lack) \in Seq(WindowTexts)
    BY WindowTyped
  <2> QED BY <2>4, <2>6, <2>7, <2>8, <2>9
<1>6. sections = [i \in 1..n |-> sections[i]]
  <2> DEFINE El(i) == Section(windows[i] = hidden, [window |-> [id |-> windows[i], component |-> Nothing]],
                            WindowRows(windows[i], windows[i] = lacking))
  <2>1. PICK F : F = [i \in 1..n |-> El(i)]
    OBVIOUS
  <2>2. sections = F
    BY <1>1, <2>1, Zenon DEF WindowSectionList
  <2> HIDE DEF El
  <2> QED BY <2>1, <2>2
<1>7. SectionsAt(n, sections, h, rows)
  <2> HIDE DEF Lack
  <2> QED BY <1>5, <1>6 DEF SectionsAt
<1> DEFINE List(k) == BlockList(k, windows, lacking)
           State(k) == Blocks(List(k))
<1>8. PICK a : a = [k \in 0..n |-> State(k)]
  OBVIOUS
<1>9. ASSUME NEW k \in 1..n
      PROVE  LinesRead("windows", LineRead("windows", State(k - 1), h[k]), rows[k]) = State(k)
  <2>1. PICK lack \in BOOLEAN : lack = Lack(k)
    BY <1>4
  <2>2. PICK w \in Windows : w = windows[k]
    OBVIOUS
  <2>3. rows[k] = WindowRows(w, lack) /\ h[k] = WindowHeader(w)
    <3> HIDE DEF Lack
    <3> QED BY <1>2, <1>3, <2>1, <2>2
  <2>4. PICK B : B = List(k - 1)
    OBVIOUS
  <2>5. Append(B, WindowBlock(w, lack)) = List(k) /\ B = [i \in 1..k - 1 |-> B[i]]
    <3>1. k \in Nat \ {0} /\ lack = (w = lacking)
      BY <2>1, <2>2
    <3>2. /\ Append(BlockList(k - 1, windows, lacking), WindowBlock(w, lack)) = BlockList(k, windows, lacking)
          /\ BlockList(k - 1, windows, lacking) = [i \in 1..k - 1 |-> BlockList(k - 1, windows, lacking)[i]]
      BY <2>2, <3>1, BlockListNext
    <3> QED BY <2>4, <3>2, Zenon
  <2>6. PICK j \in Nat : j = k - 1 /\ B = [i \in 1..j |-> B[i]]
    BY <2>5
  <2>7. LinesRead("windows", Blocks(Append(B, <<WindowHeader(w)>>)), WindowRows(w, lack))
          = Blocks(Append(B, WindowBlock(w, lack)))
    BY <2>6, WindowRowsRead
  <2>8. LineRead("windows", Blocks(B), WindowHeader(w)) = Blocks(Append(B, <<WindowHeader(w)>>))
    BY BlockStarts
  <2> HIDE DEF List
  <2> QED BY <2>3, <2>4, <2>5, <2>7, <2>8
<1> HIDE DEF State
<1>10. RowsRead("windows", n, h, rows, a)
  <2> SUFFICES ASSUME NEW i \in 1..n
               PROVE  LinesRead("windows", LineRead("windows", a[i - 1], h[i]), rows[i]) = a[i]
    BY DEF RowsRead
  <2>1. a[i] = State(i) /\ a[i - 1] = State(i - 1)
    BY <1>8
  <2> QED BY <1>9, <2>1
<1>11. LinesRead("windows", a[0], FlattenSeq(sections)) = a[n]
  BY <1>7, <1>10, SectionedRead
<1>12. a[0] = Blocks(<<>>) /\ a[n] = Blocks(List(n))
  <2>1. a[0] = State(0) /\ a[n] = State(n)
    BY <1>8
  <2>2. List(0) = <<>>
    <3> DEFINE El(i) == WindowBlock(windows[i], windows[i] = lacking)
    <3>1. PICK x : x = [i \in 1..0 |-> El(i)]
      OBVIOUS
    <3>2. x = List(0)
      BY <3>1, Zenon DEF BlockList
    <3> HIDE DEF El, List
    <3>3. x = <<>>
      BY <3>1
    <3> QED BY <3>2, <3>3
  <2> HIDE DEF List
  <2> QED BY <2>1, <2>2 DEF State
<1>13. FlattenSeq(sections) \in Seq(WindowTexts)
  <2>1. PICK T : T = WindowTexts
    OBVIOUS
  <2>2. \A i \in 1..n : sections[i] \in Seq(T)
    <3> HIDE DEF Lack
    <3> QED BY <1>5, <2>1
  <2>3. sections \in Seq(Seq(T)) /\ Len(sections) = n
    BY <1>6, <2>2, SeqTyped
  <2>4. FlattenSeq(sections) = Joined(sections)[Len(sections)]
        /\ Joined(sections) \in [0..Len(sections) -> Seq(T)]
    BY <2>3, FlattenIsJoined, JoinedDef
  <2>5. n \in 0..n
    OBVIOUS
  <2> QED BY <2>1, <2>3, <2>4, <2>5
<1> HIDE DEF Lack
<1> QED BY <1>1, <1>11, <1>12, <1>13 DEF WindowsFound

(* The focus is named last, or not at all.                                    *)
FocusLines(focus) == IF focus = "none" THEN <<>> ELSE <<[mCurrentFocus |-> focus]>>

(* The focus is found wherever it is named, and only there.                   *)
LEMMA FocusFound ==
    ASSUME NEW text \in Seq(WindowTexts), NEW focus
    PROVE  Search(text \o FocusLines(focus), "mCurrentFocus") = IF focus = "none" THEN Nothing ELSE <<focus>>
<1>1. PICK p : p = "mCurrentFocus"
  OBVIOUS
<1>2. PICK n \in Nat : n = Len(text)
  OBVIOUS
<1>3. DOMAIN text = 1..n /\ \A i \in 1..n : text[i] \in WindowTexts
  BY <1>2
<1>4. \A i \in 1..n : ~Holds(text[i], p)
  BY <1>1, <1>3, NoFocusNamed
<1>5. CASE focus = "none"
  <2>1. text \o FocusLines(focus) = text
    BY <1>5, ConcatEmptySeq DEF FocusLines
  <2>2. Search(text, p) = Nothing
    BY <1>3, <1>4, SearchNone
  <2> QED BY <1>1, <1>5, <2>1, <2>2
<1>6. CASE focus # "none"
  <2>1. PICK line : line = [mCurrentFocus |-> focus]
    OBVIOUS
  <2>2. PICK S : S = WindowTexts \cup {line}
    OBVIOUS
  <2>3. PICK t : t = text \o FocusLines(focus)
    OBVIOUS
  <2>4. text \in Seq(S) /\ line \in S
    <3>1. \A i \in 1..n : text[i] \in S
      BY <1>3, <2>2
    <3>2. text = [i \in 1..n |-> text[i]]
      BY <1>2
    <3> QED BY <2>2, <3>1, <3>2, SeqTyped
  <2>5. PICK one \in Seq(S) : one = <<line>> /\ Len(one) = 1 /\ one[1] = line
    <3>1. <<line>> \in Seq(S)
      BY <2>4
    <3> QED BY <3>1
  <2>6. t = text \o one
    BY <1>6, <2>1, <2>3, <2>5 DEF FocusLines
  <2>7. DOMAIN t = 1..n + 1 /\ t[n + 1] = line /\ \A i \in 1..n : t[i] = text[i]
    BY <1>2, <2>4, <2>5, <2>6
  <2>8. PICK m \in Nat : m = n + 1
    OBVIOUS
  <2>9. m \in 1..m /\ DOMAIN t = 1..m /\ Holds(t[m], p) /\ t[m][p] = focus
    BY <1>1, <2>1, <2>7, <2>8 DEF Holds
  <2>10. \A j \in 1..m : Holds(t[j], p) => m <= j
    <3>1. \A j \in 1..m : j = m \/ j \in 1..n
      BY <2>8
    <3>2. \A j \in 1..n : ~Holds(t[j], p)
      BY <1>4, <2>7
    <3> QED BY <3>1, <3>2
  <2>11. Search(t, p) = <<t[m][p]>>
    BY <2>9, <2>10, SearchFirst
  <2> QED BY <1>1, <1>6, <2>3, <2>9, <2>11
<1> QED BY <1>5, <1>6

BlocksFine(n, windows, lacking, f, blocks) ==
    /\ blocks = [i \in 1..n |-> blocks[i]]
    /\ \A i \in 1..n : \E m \in {5, 6} : IsBlock(m, windows[i], windows[i] = lacking, f, blocks[i])

(* The blocks of the windows are those of the rows of each.                   *)
LEMMA BlockListFine ==
    ASSUME NEW n \in Nat, NEW windows, NEW lacking, NEW f
    PROVE  BlocksFine(n, windows, lacking, f, BlockList(n, windows, lacking))
<1> DEFINE El(i) == WindowBlock(windows[i], windows[i] = lacking)
<1>1. PICK F : F = [i \in 1..n |-> El(i)]
  OBVIOUS
<1>2. F = BlockList(n, windows, lacking)
  BY <1>1, Zenon DEF BlockList
<1>3. ASSUME NEW i \in 1..n PROVE IsBlock(5, windows[i], windows[i] = lacking, f, F[i])
  <2>1. F[i] = El(i)
    <3> HIDE DEF El
    <3> QED BY <1>1
  <2>2. PICK lack \in BOOLEAN : lack = (windows[i] = lacking)
    <3>1. (windows[i] = lacking) \in BOOLEAN
      OBVIOUS
    <3> QED BY <3>1, Zenon
  <2>3. IsBlock(5, windows[i], lack, f, WindowBlock(windows[i], lack))
    BY WindowBlockIs
  <2> QED BY <2>1, <2>2, <2>3, Zenon
<1>4. F = [i \in 1..n |-> F[i]]
  <2> HIDE DEF El
  <2> QED BY <1>1
<1>5. \A i \in 1..n : \E m \in {5, 6} : IsBlock(m, windows[i], windows[i] = lacking, f, F[i])
  <2>1. 5 \in {5, 6}
    OBVIOUS
  <2> QED BY <1>3, <2>1, Zenon
<1> QED BY <1>2, <1>4, <1>5, Zenon DEF BlocksFine

(* The line of the focus is taken for one more of the last block.             *)
LEMMA WindowText ==
    ASSUME NEW n \in Nat, NEW windows, NEW lacking, NEW focus, NEW text, WindowsFound(n, windows, lacking, text)
    PROVE  \E blocks : /\ BlocksFine(n, windows, lacking, focus, blocks)
                       /\ LinesRead("windows", Blocks(<<>>), text \o FocusLines(focus)) = Blocks(blocks)
<1>1. PICK B : B = BlockList(n, windows, lacking)
  OBVIOUS
<1>2. BlocksFine(n, windows, lacking, focus, B)
  BY <1>1, BlockListFine
<1>3. text \in Seq(WindowTexts) /\ LinesRead("windows", Blocks(<<>>), text) = Blocks(B)
  BY <1>1 DEF WindowsFound
<1>4. CASE focus = "none"
  <2>1. text \o FocusLines(focus) = text
    BY <1>3, <1>4, ConcatEmptySeq DEF FocusLines
  <2> QED BY <1>2, <1>3, <2>1
<1>5. CASE focus # "none"
  <2>1. PICK line : line = [mCurrentFocus |-> focus]
    OBVIOUS
  <2>2. FocusLines(focus) = <<line>>
    BY <1>5, <2>1 DEF FocusLines
  <2>3. ~Holds(line, "window")
    BY <2>1 DEF Holds
  <2>4. LinesRead("windows", Blocks(<<>>), text \o <<line>>) = LineRead("windows", Blocks(B), line)
    <3>1. PICK S : S = WindowTexts \cup {line}
      OBVIOUS
    <3>2. text \in Seq(S) /\ line \in S
      <4>1. PICK m \in Nat : m = Len(text)
        BY <1>3
      <4>2. text = [i \in 1..m |-> text[i]] /\ \A i \in 1..m : text[i] \in S
        BY <1>3, <3>1, <4>1
      <4>3. text \in Seq(S)
        BY <4>2, SeqTyped
      <4> QED BY <3>1, <4>3
    <3>3. PICK one \in Seq(S) : one = <<line>>
      <4>1. <<line>> \in Seq(S)
        BY <3>2
      <4> QED BY <4>1
    <3>4. LinesRead("windows", Blocks(<<>>), text \o one)
            = LinesRead("windows", LinesRead("windows", Blocks(<<>>), text), one)
      BY <3>2, LinesReadConcat
    <3> QED BY <1>3, <3>3, <3>4, LinesReadOne
  <2>5. CASE n = 0
    <3>1. B = <<>>
      <4>1. B = [i \in 1..n |-> B[i]]
        BY <1>2 DEF BlocksFine
      <4> QED BY <2>5, <4>1
    <3>2. WindowLine(Blocks(B), line) = Blocks(B)
      BY <2>3, <3>1 DEF WindowLine, Blocks
    <3>3. LineRead("windows", Blocks(B), line) = Blocks(B)
      BY <3>2, LineReadIs DEF Blocks
    <3> QED BY <1>2, <2>2, <2>4, <3>3
  <2>6. CASE n # 0
    <3>1. PICK w : w = windows[n]
      OBVIOUS
    <3>2. PICK lack \in BOOLEAN : lack = (w = lacking)
      <4>1. (w = lacking) \in BOOLEAN
        OBVIOUS
      <4> QED BY <4>1, Zenon
    <3>3. PICK A : A = BlockList(n - 1, windows, lacking)
      OBVIOUS
    <3>4. B = Append(A, WindowBlock(w, lack)) /\ A = [i \in 1..n - 1 |-> A[i]]
      <4>1. n \in Nat \ {0}
        BY <2>6
      <4>2. /\ Append(BlockList(n - 1, windows, lacking), WindowBlock(w, lack)) = BlockList(n, windows, lacking)
            /\ BlockList(n - 1, windows, lacking) = [i \in 1..n - 1 |-> BlockList(n - 1, windows, lacking)[i]]
        BY <3>1, <3>2, <4>1, BlockListNext
      <4> QED BY <1>1, <3>3, <4>2, Zenon
    <3>5. PICK j \in Nat : j = n - 1 /\ A = [i \in 1..j |-> A[i]]
      BY <2>6, <3>4
    <3>6. PICK b, more, C : b = WindowBlock(w, lack) /\ more = Append(b, line) /\ C = Append(A, more)
      OBVIOUS
    <3>7. LineRead("windows", Blocks(Append(A, b)), line) = Blocks(C)
      BY <2>3, <3>5, <3>6, BlockGrows
    <3>8. C = [i \in 1..j + 1 |-> IF i = j + 1 THEN more ELSE A[i]]
          /\ B = [i \in 1..j + 1 |-> IF i = j + 1 THEN b ELSE A[i]]
      BY <3>4, <3>5, <3>6, Extended
    <3>9. /\ C = [i \in 1..n |-> C[i]] /\ C[n] = more
          /\ \A i \in 1..n : i # n => C[i] = B[i]
      BY <3>5, <3>8
    <3>10. IsBlock(6, w, lack, focus, more)
      BY <2>1, <3>6, WindowBlockIs
    <3>11. ASSUME NEW i \in 1..n
           PROVE  \E m \in {5, 6} : IsBlock(m, windows[i], windows[i] = lacking, focus, C[i])
      <4>1. CASE i = n
        <5>1. 6 \in {5, 6}
          OBVIOUS
        <5> QED BY <3>1, <3>2, <3>9, <3>10, <4>1, <5>1, Zenon
      <4>2. CASE i # n
        BY <1>2, <3>9, <4>2, Zenon DEF BlocksFine
      <4> QED BY <4>1, <4>2
    <3>12. BlocksFine(n, windows, lacking, focus, C)
      BY <3>9, <3>11, Zenon DEF BlocksFine
    <3> QED BY <2>2, <2>4, <3>4, <3>6, <3>7, <3>12
  <2> QED BY <2>5, <2>6
<1> QED BY <1>4, <1>5

WindowFactList(n, windows, focus) == [i \in 1..n |-> WindowFact(windows[i], focus)]

(* Each window is told as it is, and exactly one of them has the focus.       *)
LEMMA BlocksParsed ==
    ASSUME NEW n \in Nat, NEW windows \in [1..n -> Windows], Distinct(windows),
           NEW lacking, NEW focus, NEW blocks,
           BlocksFine(n, windows, lacking, focus, blocks), NEW found,
           found = (IF focus = "none" THEN Nothing ELSE <<focus>>)
    PROVE  WindowBlocks(blocks, found)
             = IF \/ n = 0 \/ \E i \in 1..n : windows[i] = lacking
                  \/ focus # "none" /\ \A i \in 1..n : windows[i] # focus
               THEN Nothing ELSE <<WindowFactList(n, windows, focus)>>
<1>1. DOMAIN blocks = 1..n
  <2>1. PICK F : F = [i \in 1..n |-> blocks[i]]
    OBVIOUS
  <2>2. blocks = F
    BY <2>1, Zenon DEF BlocksFine
  <2> QED BY <2>1, <2>2
<1>2. ASSUME NEW i \in 1..n
      PROVE  WindowOf(blocks[i], found)
               = IF windows[i] = lacking THEN Nothing ELSE <<WindowFact(windows[i], focus)>>
  <2>1. PICK w \in Windows : w = windows[i]
    OBVIOUS
  <2>2. PICK lack \in BOOLEAN : lack = (w = lacking)
    <3>1. (w = lacking) \in BOOLEAN
      OBVIOUS
    <3> QED BY <3>1, Zenon
  <2>3. PICK focused : focused = (found = <<w>>)
    OBVIOUS
  <2>4. PICK block : block = blocks[i]
    OBVIOUS
  <2>5. PICK m \in {5, 6} : IsBlock(m, w, lack, focus, block)
    BY <2>1, <2>2, <2>4, Zenon DEF BlocksFine
  <2>6. WindowOf(block, found) = IF lack THEN Nothing ELSE <<FoundWindow(w, focused)>>
    BY <2>3, <2>5, WindowOfBlock
  <2>7. FoundWindow(w, focused) = WindowFact(w, focus)
    <3>1. (found = <<w>>) <=> focus = w
      <4>1. "none" # w
        BY DumpsAssumption
      <4>2. focus # w => <<focus>> # <<w>>
        OBVIOUS
      <4>3. Nothing # <<w>>
        BY DEF Nothing
      <4> QED BY <4>1, <4>2, <4>3
    <3>2. focused = (focus = w)
      <4>1. CASE focus = w
        <5>1. (found = <<w>>) = TRUE /\ (focus = w) = TRUE
          BY <3>1, <4>1
        <5> QED BY <2>3, <5>1, Zenon
      <4>2. CASE focus # w
        <5>1. (found = <<w>>) = FALSE /\ (focus = w) = FALSE
          BY <3>1, <4>2
        <5> QED BY <2>3, <5>1, Zenon
      <4> QED BY <4>1, <4>2
    <3> QED BY <3>2, Zenon DEF FoundWindow, WindowFact
  <2> QED BY <2>1, <2>2, <2>4, <2>6, <2>7
<1>3. PICK seen : seen = [k \in 1..n |-> WindowOf(blocks[k], found)]
  OBVIOUS
<1>4. DOMAIN seen = 1..n
      /\ \A i \in 1..n : seen[i] = IF windows[i] = lacking THEN Nothing ELSE <<WindowFact(windows[i], focus)>>
  BY <1>2, <1>3
<1>5. WindowBlocks(blocks, found) = IF Contains(seen, Nothing) THEN Nothing ELSE WindowsOf(seen, found)
  <2>1. seen = [k \in DOMAIN blocks |-> WindowOf(blocks[k], found)]
    BY <1>1, <1>3, Zenon
  <2> QED BY <2>1, Zenon DEF WindowBlocks
<1>6. Len(seen) = n
  <2>1. PICK T : T = {seen[i] : i \in 1..n}
    OBVIOUS
  <2>2. \A i \in 1..n : seen[i] \in T
    BY <2>1
  <2>3. seen = [i \in 1..n |-> seen[i]]
    <3>1. PICK x : x = [i \in 1..n |-> seen[i]]
      OBVIOUS
    <3> DEFINE El(k) == WindowOf(blocks[k], found)
    <3>2. seen = [k \in 1..n |-> El(k)]
      BY <1>3, Zenon
    <3> HIDE DEF El
    <3> QED BY <3>2
  <2> QED BY <2>2, <2>3, SeqTyped
<1>7. Contains(seen, Nothing) <=> \E i \in 1..n : windows[i] = lacking
  <2>1. Contains(seen, Nothing) <=> \E i \in 1..n : seen[i] = Nothing
    BY <1>6 DEF Contains
  <2>2. \A x : <<x>> # Nothing
    BY DEF Nothing
  <2> QED BY <1>4, <2>1, <2>2
<1>8. CASE \E i \in 1..n : windows[i] = lacking
  BY <1>5, <1>7, <1>8
<1>9. CASE \A i \in 1..n : windows[i] # lacking
  <2>1. PICK rows : rows = [i \in DOMAIN seen |-> seen[i][1]]
    OBVIOUS
  <2>2. PICK facts : facts = WindowFactList(n, windows, focus)
    OBVIOUS
  <2>3. facts = [i \in 1..n |-> facts[i]] /\ \A i \in 1..n : facts[i] = WindowFact(windows[i], focus)
    <3> DEFINE El(i) == WindowFact(windows[i], focus)
    <3>1. facts = [i \in 1..n |-> El(i)]
      BY <2>2, Zenon DEF WindowFactList
    <3>2. facts = [i \in 1..n |-> facts[i]] /\ \A i \in 1..n : facts[i] = El(i)
      <4> HIDE DEF El
      <4> QED BY <3>1
    <3> QED BY <3>2
  <2>4. \A i \in 1..n : seen[i] = <<facts[i]>>
    BY <1>4, <1>9, <2>3
  <2>5. rows = facts
    <3>1. rows = [i \in 1..n |-> seen[i][1]]
      BY <1>4, <2>1
    <3>2. \A i \in 1..n : seen[i][1] = facts[i]
      BY <2>4
    <3>3. \A i \in 1..n : rows[i] = facts[i]
      BY <3>1, <3>2
    <3>4. rows = [i \in 1..n |-> rows[i]]
      BY <3>1
    <3> QED BY <2>3, <3>3, <3>4
  <2>6. PICK ids : ids = [i \in DOMAIN rows |-> rows[i].id]
    OBVIOUS
  <2>7. ids = windows
    <3>1. DOMAIN rows = 1..n
      BY <2>3, <2>5
    <3>2. \A i \in 1..n : rows[i].id = windows[i]
      <4>1. \A w : WindowFact(w, focus).id = w
        BY DEF WindowFact
      <4> QED BY <2>3, <2>5, <4>1
    <3>3. ids = [i \in 1..n |-> ids[i]] /\ \A i \in 1..n : ids[i] = windows[i]
      BY <2>6, <3>1, <3>2
    <3>4. windows = [i \in 1..n |-> windows[i]]
      OBVIOUS
    <3> QED BY <3>3, <3>4
  <2>8. WindowsOf(seen, found)
          = IF seen # <<>> /\ Distinct(ids) /\ (found # Nothing => Contains(ids, found[1]))
            THEN <<rows>> ELSE Nothing
    BY <2>1, <2>6, Zenon DEF WindowsOf
  <2>9. seen # <<>> <=> n # 0
    BY <1>4, <1>6
  <2>10. (found # Nothing => Contains(windows, found[1]))
           <=> ~(focus # "none" /\ \A i \in 1..n : windows[i] # focus)
    <3>1. Len(windows) = n
      OBVIOUS
    <3>2. Contains(windows, focus) <=> ~(\A i \in 1..n : windows[i] # focus)
      BY <3>1 DEF Contains
    <3>3. CASE focus = "none"
      BY <3>3
    <3>4. CASE focus # "none"
      <4>1. found # Nothing /\ found[1] = focus
        BY <3>4 DEF Nothing
      <4> QED BY <3>2, <3>4, <4>1
    <3> QED BY <3>3, <3>4
  <2>11. WindowBlocks(blocks, found) = WindowsOf(seen, found)
    BY <1>5, <1>7, <1>9
  <2> QED BY <1>9, <2>2, <2>5, <2>7, <2>8, <2>9, <2>10, <2>11
<1> QED BY <1>8, <1>9

(* The windows are told as they are; a window that cannot be read, or a focus *)
(* that is on none of them, is an error.                                      *)
LEMMA WindowsExact == \A r \in WindowReports : Faithful(r)
<1> SUFFICES ASSUME NEW r \in WindowReports PROVE Faithful(r)
  OBVIOUS
<1>1. PICK windows \in Lists(Windows), focus \in Windows \cup {"none"}, hidden \in Windows \cup {"none"},
           lacking \in Windows \cup {"none"} : r = WindowReport(windows, focus, hidden, lacking)
  BY DEF WindowReports
<1>2. PICK n \in Nat : windows \in [1..n -> Windows] /\ Len(windows) = n /\ Distinct(windows)
  BY DumpsAssumption, ListIs
<1>3. DOMAIN windows = 1..n
  BY <1>2
<1>4. PICK text : text = FlattenSeq(WindowSectionList(n, windows, hidden, lacking))
  OBVIOUS
<1>5. PICK lines : lines = text \o FocusLines(focus)
  OBVIOUS
<1> DEFINE Hidden == Contains(windows, hidden)
           Odd == windows = <<>> \/ Contains(windows, lacking) \/ (focus # "none" /\ ~Contains(windows, focus))
<1>6. PICK form : form = FormOf(Hidden, Odd)
  OBVIOUS
<1>7. PICK facts : facts = WindowFactList(n, windows, focus)
  OBVIOUS
<1>8. r = Report("windows", 0, form, facts, lines)
  BY <1>1, <1>3, <1>4, <1>5, <1>6, <1>7, Zenon DEF WindowReport, WindowSectionList, FocusLines, WindowFactList
<1>9. r.form = form /\ r.facts = facts /\ Parse(r) = ParseWindows(lines)
  BY <1>8, ReportParts, ParseOf
<1>10. form = IF Hidden THEN "hidden" ELSE IF Odd THEN "odd" ELSE "known"
  <2>1. Hidden \in BOOLEAN /\ Odd \in BOOLEAN
    BY DEF Contains
  <2> HIDE DEF Hidden, Odd
  <2> QED BY <1>6, <2>1, FormIs
<1>11. CASE ~Hidden
  <2>1. \A i \in 1..n : windows[i] # hidden
    BY <1>2, <1>11 DEF Contains
  <2>2. WindowsFound(n, windows, lacking, text)
    BY <1>2, <1>4, <2>1, WindowSections
  <2>3. PICK blocks : /\ BlocksFine(n, windows, lacking, focus, blocks)
                      /\ LinesRead("windows", Blocks(<<>>), lines) = Blocks(blocks)
    BY <1>5, <2>2, WindowText, SMTT(30)
  <2>4. PICK found : found = IF focus = "none" THEN Nothing ELSE <<focus>>
    OBVIOUS
  <2>5. Search(lines, "mCurrentFocus") = found
    <3>1. text \in Seq(WindowTexts)
      BY <2>2 DEF WindowsFound
    <3> QED BY <1>5, <2>4, <3>1, FocusFound
  <2>6. ParseWindows(lines) = WindowBlocks(blocks, found)
    <3>1. Blocks(blocks).blocks = blocks
      BY DEF Blocks
    <3>2. ParseWindows(lines) = WindowBlocks(LinesRead("windows", Blocks(<<>>), lines).blocks,
                                             Search(lines, "mCurrentFocus"))
      BY Zenon DEF ParseWindows, Blocks
    <3> QED BY <2>3, <2>5, <3>1, <3>2, Zenon
  <2>7. PICK no : no = (\/ n = 0 \/ \E i \in 1..n : windows[i] = lacking
                        \/ focus # "none" /\ \A i \in 1..n : windows[i] # focus)
    OBVIOUS
  <2>8. WindowBlocks(blocks, found) = IF no THEN Nothing ELSE <<facts>>
    <3>1. WindowBlocks(blocks, found)
             = IF \/ n = 0 \/ \E i \in 1..n : windows[i] = lacking
                  \/ focus # "none" /\ \A i \in 1..n : windows[i] # focus
               THEN Nothing ELSE <<WindowFactList(n, windows, focus)>>
      BY <1>2, <2>3, <2>4, BlocksParsed
    <3> QED BY <1>7, <2>7, <3>1, Zenon
  <2>9. no <=> Odd
    <3>1. windows = <<>> <=> n = 0
      BY <1>2
    <3>2. Contains(windows, lacking) <=> \E i \in 1..n : windows[i] = lacking
      BY <1>2 DEF Contains
    <3>3. Contains(windows, focus) <=> ~(\A i \in 1..n : windows[i] # focus)
      BY <1>2 DEF Contains
    <3>4. no <=> (\/ n = 0 \/ \E i \in 1..n : windows[i] = lacking
                  \/ focus # "none" /\ \A i \in 1..n : windows[i] # focus)
      BY <2>7, Zenon
    <3> QED BY <3>1, <3>2, <3>3, <3>4
  <2>10. form = IF Odd THEN "odd" ELSE "known"
    <3> HIDE DEF Hidden, Odd
    <3> QED BY <1>10, <1>11
  <2> HIDE DEF Odd
  <2>11. CASE Odd
    BY <1>9, <2>6, <2>8, <2>9, <2>10, <2>11 DEF Faithful
  <2>12. CASE ~Odd
    BY <1>9, <2>6, <2>8, <2>9, <2>10, <2>12 DEF Faithful
  <2> QED BY <2>11, <2>12
<1>12. CASE Hidden
  <2>1. form = "hidden"
    <3> HIDE DEF Hidden, Odd
    <3> QED BY <1>10, <1>12
  <2> QED BY <1>9, <2>1 DEF Faithful
<1> QED BY <1>11, <1>12

--------------------------------------------------------------------------------
(* Every inspection is exact.                                                 *)

(* A text that was printed is one of those a device prints.                   *)
DumpsInv ==
    /\ printed = <<>> => inspected = <<>>
    /\ printed # <<>> => Faithful(printed[1])
    /\ InspectionExact

(* Every report of a package is told exactly.                                 *)
LEMMA PackageReportsExact == \A r \in PackageReports : Faithful(r)
<1> SUFFICES ASSUME NEW u \in Users, NEW v \in Users, NEW w \in Users, NEW r \in PackageReport(u, v, w)
             PROVE  Faithful(r)
  BY DEF PackageReports
<1> QED BY PackagesExact

(* Every report of a launcher is told exactly.                                *)
LEMMA LauncherReportsExact == \A r \in LauncherReports : Faithful(r)
<1> SUFFICES ASSUME NEW p \in Packages, NEW q \in Packages, NEW r \in LauncherReport(p, q)
             PROVE  Faithful(r)
  BY DEF LauncherReports
<1> QED BY LaunchersExact

(* Every text, of every command, is inspected as it should be.                *)
LEMMA DumpFaithful == Dump => \E r : printed' = <<r>> /\ Faithful(r)
<1> SUFFICES ASSUME Dump PROVE \E r : printed' = <<r>> /\ Faithful(r)
  OBVIOUS
<1>1. CASE \E r \in SingleReports \cup UserReports : printed' = <<r>>
  BY <1>1, SinglesExact, UserStatesExact
<1>2. CASE \E r \in PackageReports \cup LauncherReports : printed' = <<r>>
  BY <1>2, PackageReportsExact, LauncherReportsExact
<1>3. CASE \E r \in UsersReports \cup ResumedReports : printed' = <<r>>
  BY <1>3, UsersExact, ResumedExact
<1>4. CASE \E r \in DisplayReports \cup WindowReports \cup OcclusionReports : printed' = <<r>>
  BY <1>4, DisplaysExact, WindowsExact, OcclusionsExact
<1> QED BY <1>1, <1>2, <1>3, <1>4 DEF Dump

(* A report that is printed is faithful, and what is inspected is exact.      *)
LEMMA DumpNextInv == DumpsInv /\ DumpNext => DumpsInv'
<1> SUFFICES ASSUME DumpsInv, DumpNext PROVE DumpsInv'
  OBVIOUS
<1>1. CASE Dump
  <2>1. PICK r : printed' = <<r>> /\ Faithful(r)
    BY <1>1, DumpFaithful
  <2>2. printed' # <<>> /\ printed'[1] = r
    BY <2>1
  <2>3. inspected' = <<>>
    BY <1>1 DEF Dump, DumpsInv
  <2> QED BY <2>1, <2>2, <2>3 DEF DumpsInv, InspectionExact, Faithful
<1>2. CASE Inspect
  <2>1. PICK r : r = printed[1] /\ Faithful(r) /\ printed # <<>>
    BY <1>2 DEF Inspect, DumpsInv
  <2>2. PICK value : value = Parse(r)
    OBVIOUS
  <2>3. inspected' = <<value>> /\ printed' = printed
    BY <1>2, <2>1, <2>2 DEF Inspect
  <2>4. inspected'[1] = value /\ printed'[1] = r
    BY <2>1, <2>3
  <2>5. /\ r.form \in {"known", "partial"} => value = <<r.facts>>
        /\ r.form = "odd" => value = Nothing
    BY <2>1, <2>2 DEF Faithful
  <2>6. InspectionExact'
    BY <2>4, <2>5 DEF InspectionExact
  <2>7. Faithful(printed'[1])
    BY <2>1, <2>4
  <2>8. (printed # <<>> => Faithful(printed[1]))'
    BY <2>7 DEF Faithful, Parse
  <2> QED BY <2>1, <2>3, <2>6, <2>8 DEF DumpsInv
<1> QED BY <1>1, <1>2 DEF DumpNext

(* Whatever a device prints of what is so on it, in a form that is known, is  *)
(* what the inspector answers, and a row in an odd form is an error           *)
(* (_runtime_parsers.py 88-275, _display_parsers.py 33-117,                   *)
(* _window_parsers.py 60-216), except that of a physical display, which is    *)
(* left out without a word (_display_parsers.py 120-149).                     *)
THEOREM InspectionsAreExact == KernelSpec => []InspectionExact
<1>1. KernelInit => DumpsInv
  BY DEF KernelInit, DumpInit, DumpsInv, InspectionExact
<1>2. DumpsInv /\ [KernelNext]_kernelVars => DumpsInv'
  <2> SUFFICES ASSUME DumpsInv, [KernelNext]_kernelVars PROVE DumpsInv'
    OBVIOUS
  <2>1. CASE DumpNext
    BY <2>1, DumpNextInv
  <2>2. CASE UNCHANGED dumpVars
    BY <2>2 DEF dumpVars, DumpsInv, InspectionExact
  <2> QED BY <2>1, <2>2 DEF KernelNext, kernelVars
<1>3. DumpsInv => InspectionExact
  BY DEF DumpsInv
<1> QED BY <1>1, <1>2, <1>3, PTL DEF KernelSpec

(* An answer about the device or the server is complete and exact, for every  *)
(* size of the fields, every reply, report and text: the bytes of a call      *)
(* (client.py 88-149), the fields of a report (proto.py 33-185) and the facts *)
(* in a text (_runtime_parsers.py, _display_parsers.py, _window_parsers.py),  *)
(* of physical displays those in a known form.                                *)
THEOREM AnswersAreExact == KernelSpec => []AnswersExact
<1>1. KernelInit => ClientInit
  BY DEF KernelInit
<1>2. [KernelNext]_kernelVars => [ClientNext]_clientVars
  BY DEF KernelNext, kernelVars
<1>3. KernelSpec => ClientSpec
  BY <1>1, <1>2, PTL DEF KernelSpec, ClientSpec
<1>4. KernelSpec => []ReplyComplete
  BY <1>3, RepliesAreComplete, PTL
<1>5. AnswersExact <=> ReplyComplete /\ ReportExact /\ InspectionExact
  BY DEF AnswersExact
<1> QED BY <1>4, <1>5, ReportsAreExact, InspectionsAreExact, PTL
================================================================================

-------------------------- MODULE ByteArrayProofs --------------------------
(***************************************************************************)
(* Proofs about ByteArray: what is written is read back, for every size of *)
(* a block, every radix and every width, and for a careful caller the list *)
(* of blocks is a sequence of bytes that never ends too early.             *)
(***************************************************************************)
EXTENDS ByteArrayUse, FiniteSetTheorems, SequenceTheorems, TLAPS

-----------------------------------------------------------------------------
(* Induction and recursion *)

(* Induction over the natural numbers, for a set.  The intervals 0 .. n of *)
(* the n outside the set have a least one, by inclusion.                   *)
LEMMA SetInduction ==
    ASSUME NEW S, 0 \in S, \A n \in Nat : n \in S => n + 1 \in S
    PROVE  Nat \subseteq S
<1> SUFFICES ASSUME NEW m \in Nat, m \notin S PROVE FALSE
  OBVIOUS
<1> DEFINE T == {0 .. n : n \in Nat \ S}
           R == StrictSubsetOrdering(Nat)
<1>1. T # {} /\ T \subseteq FiniteSubsetsOf(Nat)
  <2>1. \A n \in Nat : 0 .. n \in FiniteSubsetsOf(Nat)
    BY FS_Interval DEF FiniteSubsetsOf
  <2> QED
    BY <2>1
<1>2. PICK X \in T : \A Y \in T : ~(<<Y, X>> \in R)
  <2> HIDE DEF T
  <2>1. IsWellFoundedOn(R, FiniteSubsetsOf(Nat))
    BY FS_StrictSubsetOrderingWellFounded
  <2> HIDE DEF R
  <2> QED
    BY <1>1, <2>1, WFMin
<1>3. PICK x \in Nat \ S : X = 0 .. x
  OBVIOUS
<1>4. x # 0 /\ x - 1 \in Nat
  OBVIOUS
<1>5. x - 1 \notin S
  BY <1>4
<1>6. 0 .. x - 1 \in T
  BY <1>4, <1>5
<1>7. <<0 .. x - 1, 0 .. x>> \in R
  BY <1>4 DEF StrictSubsetOrdering
<1> QED
  BY <1>2, <1>3, <1>6, <1>7

LEMMA IntervalInduction ==
    ASSUME NEW N \in Nat, NEW S, 0 \in S,
           \A n \in 0 .. N - 1 : n \in S => n + 1 \in S
    PROVE  \A n \in 0 .. N : n \in S
<1> DEFINE T == {n \in Nat : n \in 0 .. N => n \in S}
<1>1. 0 \in T
  OBVIOUS
<1>2. ASSUME NEW n \in Nat, n \in T PROVE n + 1 \in T
  BY <1>2
<1>3. Nat \subseteq T
  <2> HIDE DEF T
  <2> QED
    BY <1>1, <1>2, SetInduction
<1> QED
  BY <1>3

(* A function that is defined by recursion on 0 .. N exists, if a step     *)
(* leads from X to X.                                                      *)
Solves(F, base, step, N) ==
    F[0] = base /\ \A i \in 1 .. N : F[i] = step[i][F[i - 1]]

LEMMA Recursion ==
    ASSUME NEW N \in Nat, NEW X, NEW base \in X, NEW step \in [1 .. N -> [X -> X]]
    PROVE  \E F \in [0 .. N -> X] : Solves(F, base, step, N)
<1> DEFINE Good(n, F) ==
               F[0] = base /\ \A i \in 1 .. n : F[i] = step[i][F[i - 1]]
           S == {n \in 0 .. N : \E F \in [0 .. n -> X] : Good(n, F)}
<1>1. 0 \in S
  <2>1. [i \in 0 .. 0 |-> base] \in [0 .. 0 -> X] /\ Good(0, [i \in 0 .. 0 |-> base])
    OBVIOUS
  <2> HIDE DEF Good
  <2> QED
    BY <2>1
<1>2. ASSUME NEW n \in 0 .. N - 1, n \in S PROVE n + 1 \in S
  <2>1. PICK F \in [0 .. n -> X] : Good(n, F)
    BY <1>2
  <2> DEFINE G == [i \in 0 .. n + 1 |-> IF i = n + 1 THEN step[n + 1][F[n]] ELSE F[i]]
  <2>2. step[n + 1][F[n]] \in X
    OBVIOUS
  <2>3. G \in [0 .. n + 1 -> X]
    BY <2>2
  <2>4. Good(n + 1, G)
    <3>1. G[0] = base
      BY <2>1
    <3>2. ASSUME NEW i \in 1 .. n + 1 PROVE G[i] = step[i][G[i - 1]]
      <4>1. CASE i = n + 1
        BY <4>1
      <4>2. CASE i # n + 1
        <5>1. i \in 1 .. n /\ i - 1 \in 0 .. n
          BY <4>2
        <5> QED
          BY <2>1, <5>1
      <4> QED
        BY <4>1, <4>2
    <3> HIDE DEF G
    <3> QED
      BY <3>1, <3>2
  <2> HIDE DEF G, Good
  <2> QED
    BY <2>3, <2>4
<1>3. N \in S
  <2> HIDE DEF S
  <2>1. \A n \in 0 .. N - 1 : n \in S => n + 1 \in S
    BY <1>2
  <2>2. \A n \in 0 .. N : n \in S
    BY <1>1, <2>1, IntervalInduction
  <2> QED
    BY <2>2
<1> QED
  BY <1>3 DEF Solves

-----------------------------------------------------------------------------
(* Sequences of bytes *)

IsJoin(u, s, t) ==
    /\ Len(u) = Len(s) + Len(t)
    /\ \A i \in 1 .. Len(s) : u[i] = s[i]
    /\ \A i \in 1 .. Len(t) : u[Len(s) + i] = t[i]

LEMMA Joined ==
    ASSUME NEW s \in Seq(Byte), NEW t \in Seq(Byte)
    PROVE  s \o t \in Seq(Byte) /\ IsJoin(s \o t, s, t)
<1>1. /\ s \o t \in Seq(Byte)
      /\ Len(s \o t) = Len(s) + Len(t)
      /\ \A i \in 1 .. Len(s) + Len(t) :
            (s \o t)[i] = IF i <= Len(s) THEN s[i] ELSE t[i - Len(s)]
  BY ConcatProperties
<1>2. Len(s) \in Nat /\ Len(t) \in Nat
  OBVIOUS
<1>3. ASSUME NEW i \in 1 .. Len(s) PROVE (s \o t)[i] = s[i]
  <2>1. i \in 1 .. Len(s) + Len(t) /\ i <= Len(s)
    BY <1>2
  <2> QED
    BY <1>1, <2>1
<1>4. ASSUME NEW i \in 1 .. Len(t) PROVE (s \o t)[Len(s) + i] = t[i]
  <2>1. /\ Len(s) + i \in 1 .. Len(s) + Len(t) /\ ~(Len(s) + i <= Len(s))
        /\ (Len(s) + i) - Len(s) = i
    BY <1>2
  <2> QED
    BY <1>1, <2>1
<1> QED
  BY <1>1, <1>3, <1>4 DEF IsJoin

(* The n bytes behind the first k.                                         *)
IsPart(p, s, k, n) == Len(p) = n /\ \A i \in 1 .. n : p[i] = s[k + i]

LEMMA Part ==
    ASSUME NEW s \in Seq(Byte), NEW k \in Nat, NEW n \in Nat, k + n <= Len(s)
    PROVE  /\ SubSeq(s, k + 1, k + n) \in Seq(Byte)
           /\ IsPart(SubSeq(s, k + 1, k + n), s, k, n)
<1>1. Len(s) \in Nat /\ \A i \in 1 .. Len(s) : s[i] \in Byte
  OBVIOUS
<1>2. PICK m \in Int, e \in Int : m = k + 1 /\ e = k + n
  OBVIOUS
<1>3. \A i \in m .. e : s[i] \in Byte
  BY <1>1, <1>2
<1>4. /\ SubSeq(s, m, e) \in Seq(Byte)
      /\ Len(SubSeq(s, m, e)) = IF m <= e THEN e - m + 1 ELSE 0
      /\ \A i \in 1 .. e - m + 1 : SubSeq(s, m, e)[i] = s[m + i - 1]
  BY <1>3, SubSeqProperties
<1>5. Len(SubSeq(s, m, e)) = n
  BY <1>2, <1>4
<1>6. ASSUME NEW i \in 1 .. n PROVE SubSeq(s, m, e)[i] = s[k + i]
  <2>1. i \in 1 .. e - m + 1 /\ m + i - 1 = k + i
    BY <1>2
  <2> QED
    BY <1>4, <2>1
<1> QED
  BY <1>2, <1>4, <1>5, <1>6 DEF IsPart

-----------------------------------------------------------------------------
(* Powers *)

(* A power is the last value of the recursion.                             *)
LEMMA PowerRecursion ==
    ASSUME NEW base \in Nat, NEW n \in Nat
    PROVE  \E F : /\ F = [i \in 0 .. n |-> IF i = 0 THEN 1 ELSE base * F[i - 1]]
                  /\ Power(base, n) = F[n]
<1> DEFINE X == Nat
           one == 1
           step == [i \in 1 .. n |-> [x \in X |-> base * x]]
<1>1. step \in [1 .. n -> [X -> X]] /\ one \in X
  OBVIOUS
<1>2. PICK F \in [0 .. n -> X] :
          F[0] = one /\ \A i \in 1 .. n : F[i] = step[i][F[i - 1]]
  <2> HIDE DEF step, X, one
  <2>1. \E F \in [0 .. n -> X] : Solves(F, one, step, n)
    BY <1>1, Recursion
  <2> QED
    BY <2>1 DEF Solves
<1>3. F = [i \in 0 .. n |-> IF i = 0 THEN 1 ELSE base * F[i - 1]]
  <2>1. \A i \in 1 .. n : i - 1 \in 0 .. n /\ F[i - 1] \in Nat
    OBVIOUS
  <2>2. \A i \in 1 .. n : step[i][F[i - 1]] = base * F[i - 1]
    BY <2>1
  <2>3. \A i \in 0 .. n : F[i] = IF i = 0 THEN 1 ELSE base * F[i - 1]
    <3> HIDE DEF step
    <3> QED
      BY <1>2, <2>2
  <2> QED
    BY <2>3
<1> QED
  BY <1>3 DEF Power

LEMMA PowerFacts ==
    ASSUME NEW base \in Nat \ {0}, NEW n \in Nat
    PROVE  /\ Power(base, 0) = 1
           /\ Power(base, n) \in Nat \ {0}
           /\ Power(base, n + 1) = base * Power(base, n)
<1>1. PICK F : /\ F = [i \in 0 .. n |-> IF i = 0 THEN 1 ELSE base * F[i - 1]]
               /\ Power(base, n) = F[n]
  BY PowerRecursion
<1>0. PICK m \in Nat : m = n + 1
  OBVIOUS
<1>2. PICK G : /\ G = [i \in 0 .. m |-> IF i = 0 THEN 1 ELSE base * G[i - 1]]
               /\ Power(base, m) = G[m]
  BY PowerRecursion
<1>3. F[0] = 1 /\ \A i \in 1 .. n : F[i] = base * F[i - 1]
  BY <1>1
<1>4. G[0] = 1 /\ \A i \in 1 .. n + 1 : G[i] = base * G[i - 1]
  BY <1>0, <1>2
<1>5. \A i \in 0 .. n : F[i] = G[i] /\ F[i] \in Nat \ {0}
  <2> DEFINE S == {i \in 0 .. n : F[i] = G[i] /\ F[i] \in Nat \ {0}}
  <2>1. 0 \in S
    BY <1>3, <1>4
  <2>2. ASSUME NEW i \in 0 .. n - 1, i \in S PROVE i + 1 \in S
    <3>1. i + 1 \in 1 .. n /\ i + 1 \in 1 .. n + 1 /\ (i + 1) - 1 = i
      OBVIOUS
    <3>2. F[i + 1] = base * F[i] /\ G[i + 1] = base * G[i]
      BY <1>3, <1>4, <3>1
    <3>3. base * F[i] \in Nat \ {0}
      BY <2>2
    <3> QED
      BY <2>2, <3>1, <3>2, <3>3
  <2>3. \A i \in 0 .. n : i \in S
    <3> HIDE DEF S
    <3> QED
      BY <2>1, <2>2, IntervalInduction
  <2> QED
    BY <2>3
<1>6. Power(base, n + 1) = base * Power(base, n) /\ Power(base, n) \in Nat \ {0}
  <2>1. G[n + 1] = base * G[n]
    BY <1>4
  <2>2. F[n] = G[n] /\ F[n] \in Nat \ {0}
    BY <1>5
  <2> QED
    BY <1>0, <1>1, <1>2, <2>1, <2>2
<1>7. Power(base, 0) = 1
  <2>1. PICK H : /\ H = [i \in 0 .. 0 |-> IF i = 0 THEN 1 ELSE base * H[i - 1]]
                 /\ Power(base, 0) = H[0]
    BY PowerRecursion
  <2> QED
    BY <2>1
<1> QED
  BY <1>6, <1>7

(* A larger number of digits holds larger numbers.                         *)
LEMMA PowerGrows ==
    ASSUME NEW base \in Nat \ {0}, NEW m \in Nat, NEW n \in Nat, m <= n
    PROVE  Power(base, m) <= Power(base, n)
<1> DEFINE S == {k \in Nat : Power(base, m) <= Power(base, m + k)}
<1>1. 0 \in S
  <2>1. Power(base, m) \in Nat /\ m + 0 = m
    BY PowerFacts
  <2> QED
    BY <2>1
<1>2. ASSUME NEW k \in Nat, k \in S PROVE k + 1 \in S
  <2>0. PICK j \in Nat : j = m + k
    OBVIOUS
  <2>1. PICK p \in Nat : p = Power(base, j)
    BY PowerFacts
  <2>2. Power(base, j + 1) = base * p
    BY <2>1, PowerFacts
  <2>3. Power(base, m) \in Nat
    BY PowerFacts
  <2>4. p <= base * p
    OBVIOUS
  <2>5. (m + k) + 1 = m + (k + 1)
    OBVIOUS
  <2> QED
    BY <1>2, <2>0, <2>1, <2>2, <2>3, <2>4, <2>5
<1>3. Nat \subseteq S
  <2> HIDE DEF S
  <2> QED
    BY <1>1, <1>2, SetInduction
<1>4. n - m \in Nat /\ m + (n - m) = n
  OBVIOUS
<1> QED
  BY <1>3, <1>4

-----------------------------------------------------------------------------
(* Numbers and digits *)

LEMMA NumberRecursion ==
    ASSUME NEW base \in Nat \ {0}, NEW digits \in Seq(Nat)
    PROVE  \E F :
               /\ Number(base, digits) = F[Len(digits)]
               /\ F[0] = 0
               /\ \A i \in 1 .. Len(digits) :
                     F[i] = F[i - 1] + digits[i] * Power(base, i - 1)
<1> DEFINE X == Nat
           zero == 0
           n == Len(digits)
           step == [i \in 1 .. n |-> [x \in X |-> x + digits[i] * Power(base, i - 1)]]
<1>0. n \in Nat /\ \A i \in 1 .. n : digits[i] * Power(base, i - 1) \in Nat
  <2>1. n \in Nat /\ \A i \in 1 .. n : digits[i] \in Nat /\ i - 1 \in Nat
    OBVIOUS
  <2>2. \A i \in 1 .. n : Power(base, i - 1) \in Nat
    BY <2>1, PowerFacts
  <2> QED
    BY <2>1, <2>2
<1>1. step \in [1 .. n -> [X -> X]] /\ zero \in X
  BY <1>0
<1>2. PICK F \in [0 .. n -> X] :
          F[0] = zero /\ \A i \in 1 .. n : F[i] = step[i][F[i - 1]]
  <2> HIDE DEF step, X, zero, n
  <2>1. \E F \in [0 .. n -> X] : Solves(F, zero, step, n)
    BY <1>0, <1>1, Recursion
  <2> QED
    BY <2>1 DEF Solves
<1>3. \A i \in 1 .. n : F[i] = F[i - 1] + digits[i] * Power(base, i - 1)
  <2>1. \A i \in 1 .. n : i - 1 \in 0 .. n /\ F[i - 1] \in Nat
    BY SMTT(30)
  <2> QED
    BY <1>2, <2>1
<1>4. F = [i \in 0 .. n |-> IF i = 0 THEN 0
                            ELSE F[i - 1] + digits[i] * Power(base, i - 1)]
  BY <1>2, <1>3
<1>5. PICK G : /\ G = [i \in 0 .. n |-> IF i = 0 THEN 0
                              ELSE G[i - 1] + digits[i] * Power(base, i - 1)]
               /\ Number(base, digits) = G[n]
  BY <1>4 DEF Number
<1>6. G[0] = 0 /\ \A i \in 1 .. n : G[i] = G[i - 1] + digits[i] * Power(base, i - 1)
  <2> HIDE DEF n
  <2>1. \A i \in 1 .. n : i \in 0 .. n /\ i # 0
    BY <1>0
  <2>2. G[0] = 0
    BY <1>0, <1>5
  <2>3. ASSUME NEW i \in 1 .. n PROVE G[i] = G[i - 1] + digits[i] * Power(base, i - 1)
    BY <1>5, <2>1, Zenon
  <2> QED
    BY <2>2, <2>3
<1> QED
  BY <1>5, <1>6

LEMMA DivMod ==
    ASSUME NEW m \in Nat \ {0}, NEW v \in Nat
    PROVE  /\ v \div m \in Nat /\ v % m \in 0 .. m - 1
           /\ v = (v \div m) * m + (v % m)
  OBVIOUS

LEMMA DivModUnique ==
    ASSUME NEW m \in Nat \ {0}, NEW k \in Nat, NEW r \in 0 .. m - 1
    PROVE  (k * m + r) \div m = k /\ (k * m + r) % m = r
  OBVIOUS

(* One more digit.                                                         *)
LEMMA ModSplit ==
    ASSUME NEW base \in Nat \ {0}, NEW p \in Nat \ {0}, NEW v \in Nat
    PROVE  v % (base * p) = (v % p) + ((v \div p) % base) * p
<1>1. PICK q \in Nat, r \in 0 .. p - 1 :
          q = v \div p /\ r = v % p /\ v = q * p + r
  BY DivMod
<1>2. PICK k \in Nat, d \in 0 .. base - 1 :
          d = q % base /\ q = k * base + d
  BY DivMod
<1>3. PICK m \in Nat \ {0} : m = base * p
  OBVIOUS
<1>4. v = k * m + (d * p + r)
  <2>1. q * p = (k * base) * p + d * p
    BY <1>2
  <2>2. (k * base) * p = k * m
    BY <1>3
  <2>3. PICK x \in Nat, y \in Nat, z \in Nat :
            x = k * m /\ y = d * p /\ z = q * p
    OBVIOUS
  <2>4. z = x + y
    BY <2>1, <2>2, <2>3
  <2>5. v = z + r
    BY <1>1, <2>3
  <2>6. v = x + (y + r)
    BY <2>4, <2>5
  <2> QED
    BY <2>3, <2>6
<1>5. d * p + r \in 0 .. m - 1
  <2>1. d * p <= (base - 1) * p /\ d * p \in Nat
    OBVIOUS
  <2>2. (base - 1) * p = m - p
    BY <1>3
  <2> QED
    BY <2>1, <2>2
<1>6. v % m = d * p + r
  BY <1>4, <1>5, DivModUnique
<1> QED
  BY <1>1, <1>2, <1>3, <1>6

(* The digits of a number, put together again: what is beyond them is      *)
(* lost.                                                                   *)
LEMMA NumberOfDigits ==
    ASSUME NEW base \in Nat \ {0}, NEW v \in Nat, NEW digits \in Seq(Nat),
           \A i \in 1 .. Len(digits) : digits[i] = Digit(base, v, i)
    PROVE  Number(base, digits) = v % Power(base, Len(digits))
<1> DEFINE n == Len(digits)
<1>1. PICK F : /\ Number(base, digits) = F[n]
               /\ F[0] = 0
               /\ \A i \in 1 .. n : F[i] = F[i - 1] + digits[i] * Power(base, i - 1)
  BY NumberRecursion
<1>2. n \in Nat
  OBVIOUS
<1> HIDE DEF n
<1> DEFINE S == {i \in 0 .. n : F[i] = v % Power(base, i)}
<1>3. 0 \in S
  <2>1. Power(base, 0) = 1 /\ v % 1 = 0
    BY PowerFacts
  <2> QED
    BY <1>1, <1>2, <2>1
<1>4. ASSUME NEW i \in 0 .. n - 1, i \in S PROVE i + 1 \in S
  <2>0. i \in Nat
    BY <1>2
  <2>1. PICK p \in Nat \ {0} : p = Power(base, i)
    BY <2>0, PowerFacts
  <2>2. Power(base, i + 1) = base * p
    BY <2>0, <2>1, PowerFacts
  <2>3. i + 1 \in 1 .. n /\ (i + 1) - 1 = i
    BY <1>2
  <2>4. digits[i + 1] = (v \div p) % base
    BY <2>1, <2>3 DEF Digit, n
  <2>5. F[i + 1] = F[i] + digits[i + 1] * Power(base, i)
    BY <1>1, <2>3
  <2>6. F[i + 1] = (v % p) + ((v \div p) % base) * p
    BY <1>4, <2>1, <2>4, <2>5
  <2>7. v % (base * p) = (v % p) + ((v \div p) % base) * p
    BY ModSplit
  <2> QED
    BY <1>2, <2>2, <2>3, <2>6, <2>7
<1>5. n \in S
  <2> HIDE DEF S
  <2>1. \A i \in 0 .. n : i \in S
    BY <1>2, <1>3, <1>4, IntervalInduction
  <2> QED
    BY <1>2, <2>1
<1> QED
  BY <1>1, <1>5 DEF n

LEMMA DigitType ==
    ASSUME NEW base \in Nat \ {0}, NEW v \in Nat, NEW i \in Nat \ {0}
    PROVE  Digit(base, v, i) \in 0 .. base - 1
<1>1. PICK j \in Nat : j = i - 1
  OBVIOUS
<1>2. PICK p \in Nat \ {0} : p = Power(base, j)
  BY PowerFacts
<1>3. v \div p \in Nat
  BY DivMod
<1> QED
  BY <1>1, <1>2, <1>3, DivMod DEF Digit

LEMMA NumberType ==
    ASSUME NEW base \in Nat \ {0}, NEW digits \in Seq(Nat)
    PROVE  Number(base, digits) \in Nat
<1> DEFINE n == Len(digits)
<1>1. PICK F : /\ Number(base, digits) = F[n]
               /\ F[0] = 0
               /\ \A i \in 1 .. n : F[i] = F[i - 1] + digits[i] * Power(base, i - 1)
  BY NumberRecursion
<1>2. n \in Nat /\ \A i \in 1 .. n : digits[i] \in Nat
  OBVIOUS
<1> HIDE DEF n
<1> DEFINE S == {i \in 0 .. n : F[i] \in Nat}
<1>3. 0 \in S
  BY <1>1, <1>2
<1>4. ASSUME NEW i \in 0 .. n - 1, i \in S PROVE i + 1 \in S
  <2>0. i \in Nat
    BY <1>2
  <2>1. PICK p \in Nat \ {0} : p = Power(base, i)
    BY <2>0, PowerFacts
  <2>2. i + 1 \in 1 .. n /\ (i + 1) - 1 = i
    BY <1>2
  <2>3. F[i + 1] = F[i] + digits[i + 1] * p
    BY <1>1, <2>1, <2>2
  <2>4. digits[i + 1] * p \in Nat
    BY <1>2, <2>2
  <2> QED
    BY <1>4, <2>2, <2>3, <2>4
<1>5. n \in S
  <2> HIDE DEF S
  <2>1. \A i \in 0 .. n : i \in S
    BY <1>2, <1>3, <1>4, IntervalInduction
  <2> QED
    BY <1>2, <2>1
<1> QED
  BY <1>1, <1>5

-----------------------------------------------------------------------------
(* Integers as bytes *)

LEMMA LeastElement ==
    ASSUME NEW S, S \subseteq Nat, S # {}
    PROVE  Min(S) \in S /\ \A y \in S : Min(S) <= y
<1>1. \E x \in S : \A y \in S : x <= y
  <2> SUFFICES ASSUME \A x \in S : \E y \in S : ~(x <= y) PROVE FALSE
    OBVIOUS
  <2> DEFINE T == {n \in Nat : \A x \in S : n <= x}
  <2>1. 0 \in T
    OBVIOUS
  <2>2. ASSUME NEW n \in Nat, n \in T PROVE n + 1 \in T
    <3>1. n \notin S
      BY <2>2
    <3> QED
      BY <2>2, <3>1
  <2>3. Nat \subseteq T
    <3> HIDE DEF T
    <3> QED
      BY <2>1, <2>2, SetInduction
  <2>4. PICK x \in S : TRUE
    OBVIOUS
  <2>5. x \in Nat /\ x + 1 \in T
    BY <2>3
  <2> QED
    BY <2>5
<1> QED
  BY <1>1 DEF Min

LEMMA LeastIs ==
    ASSUME NEW S, S \subseteq Nat, NEW m \in S, \A y \in S : m <= y
    PROVE  Min(S) = m
<1>1. PICK k \in S : k = Min(S) /\ k <= m
  BY LeastElement
<1>2. k \in Nat /\ m \in Nat /\ m <= k
  OBVIOUS
<1> QED
  BY <1>1, <1>2

LEMMA MinMaxOfTwo ==
    ASSUME NEW x \in Nat, NEW y \in Nat
    PROVE  /\ Min({x, y}) = IF x <= y THEN x ELSE y
           /\ Max({x, y}) = IF x >= y THEN x ELSE y
<1>1. Min({x, y}) = IF x <= y THEN x ELSE y
  <2>1. CASE x <= y
    BY <2>1, LeastIs
  <2>2. CASE ~(x <= y)
    BY <2>2, LeastIs
  <2> QED
    BY <2>1, <2>2
<1>2. Max({x, y}) = IF x >= y THEN x ELSE y
  <2>1. \E m \in {x, y} : \A k \in {x, y} : m >= k
    OBVIOUS
  <2>2. Max({x, y}) \in {x, y} /\ \A k \in {x, y} : Max({x, y}) >= k
    BY <2>1 DEF Max
  <2> QED
    BY <2>2
<1> QED
  BY <1>1, <1>2

LEMMA Bases ==
    /\ Radix \in Nat \ {0} /\ Radix >= 2 /\ 2 * Radix \in Nat \ {0}
    /\ Byte \subseteq Nat /\ 0 \in Byte /\ 1 \in Byte
    /\ Groups32 \in Nat \ {0} /\ Groups64 \in Nat /\ Groups32 <= Groups64
    /\ BaseSize \in Nat \ {0}
  BY ByteArrayAssumption DEF ByteArrayAssumption, Byte

(* readF after writeF, for every width.                                    *)
LEMMA FixedBack ==
    ASSUME NEW v \in Nat, NEW width \in Nat
    PROVE  /\ Fixed(v, width) \in Seq(Byte)
           /\ Len(Fixed(v, width)) = width
           /\ v < Power(2 * Radix, width) => Unfixed(Fixed(v, width)) = v
<1>1. PICK base \in Nat \ {0} : base = 2 * Radix
  BY Bases
<1>2. \A i \in 1 .. width : Digit(base, v, i) \in 0 .. base - 1
  BY DigitType
<1>3. Byte = 0 .. base - 1
  BY <1>1 DEF Byte
<1> DEFINE digits == [i \in 1 .. width |-> Digit(base, v, i)]
<1>4. digits \in Seq(Byte) /\ Len(digits) = width
  BY <1>2, <1>3
<1>5. digits \in Seq(Nat)
  BY <1>2
<1>6. \A i \in 1 .. Len(digits) : digits[i] = Digit(base, v, i)
  BY <1>4
<1>7. Fixed(v, width) = digits
  BY <1>1 DEF Fixed
<1> HIDE DEF digits
<1>8. Number(base, digits) = v % Power(base, width)
  BY <1>4, <1>5, <1>6, NumberOfDigits
<1>9. PICK p \in Nat \ {0} : p = Power(base, width)
  BY PowerFacts
<1>10. v < p => v % p = v
  OBVIOUS
<1> QED
  BY <1>1, <1>4, <1>7, <1>8, <1>9, <1>10 DEF Unfixed

LEMMA UnfixedType ==
    ASSUME NEW bytes \in Seq(Byte)
    PROVE  Unfixed(bytes) \in Nat
<1>1. bytes \in Seq(Nat)
  <2>0. Len(bytes) \in Nat /\ \A i \in 1 .. Len(bytes) : bytes[i] \in Byte
    OBVIOUS
  <2>1. \A i \in 1 .. Len(bytes) : bytes[i] \in Nat
    BY <2>0 DEF Byte
  <2>2. bytes = [i \in 1 .. Len(bytes) |-> bytes[i]]
    OBVIOUS
  <2>3. [i \in 1 .. Len(bytes) |-> bytes[i]] \in Seq(Nat)
    BY <2>0, <2>1
  <2> QED
    BY <2>2, <2>3, Zenon
<1> QED
  BY <1>1, Bases, NumberType DEF Unfixed

(* A number that 32 bits hold has a number of groups.                      *)
LEMMA GroupsFound ==
    ASSUME NEW v \in Nat, v < Power(Radix, Groups32)
    PROVE  /\ GroupsOf(v) \in 1 .. Groups32
           /\ v < Power(Radix, GroupsOf(v))
<1> USE Bases
<1> DEFINE Fit(n) == v < Power(Radix, n) /\ (n > 1 => v >= Power(Radix, n - 1))
<1>1. \A n \in Nat : Power(Radix, n) \in Nat
  BY PowerFacts
<1>2. \E n \in 1 .. Groups32 : Fit(n)
  <2> SUFFICES ASSUME \A n \in 1 .. Groups32 : ~Fit(n) PROVE FALSE
    OBVIOUS
  <2> DEFINE S == {n \in 0 .. Groups32 : n = 0 \/ v >= Power(Radix, n)}
  <2>1. 0 \in S
    OBVIOUS
  <2>2. ASSUME NEW n \in 0 .. Groups32 - 1, n \in S PROVE n + 1 \in S
    <3>1. n + 1 \in 1 .. Groups32 /\ (n + 1) - 1 = n
      OBVIOUS
    <3>2. n + 1 > 1 => v >= Power(Radix, (n + 1) - 1)
      BY <2>2, <3>1
    <3>3. ~(v < Power(Radix, n + 1))
      BY <3>1, <3>2
    <3>4. Power(Radix, n + 1) \in Nat
      BY <1>1, <3>1
    <3> QED
      BY <3>1, <3>3, <3>4
  <2>3. \A n \in 0 .. Groups32 : n \in S
    <3> HIDE DEF S
    <3> QED
      BY <2>1, <2>2, IntervalInduction
  <2>4. v >= Power(Radix, Groups32)
    BY <2>3
  <2> QED
    BY <1>1, <2>4
<1>3. \E n \in 1 .. Groups64 : Fit(n)
  BY <1>2
<1>4. GroupsOf(v) \in 1 .. Groups64 /\ Fit(GroupsOf(v))
  BY <1>3 DEF GroupsOf
<1>5. GroupsOf(v) <= Groups32
  <2> SUFFICES ASSUME ~(GroupsOf(v) <= Groups32) PROVE FALSE
    OBVIOUS
  <2>1. PICK n \in Nat : n = GroupsOf(v) - 1
    BY <1>4
  <2>2. n >= Groups32 /\ v >= Power(Radix, n)
    BY <1>4, <2>1
  <2>3. Power(Radix, Groups32) <= Power(Radix, n)
    BY <2>2, PowerGrows
  <2> QED
    BY <1>1, <2>2, <2>3
<1> QED
  BY <1>4, <1>5

(* readUint after writeUint: the value, and where it ends.                 *)
LEMMA VarintBack ==
    ASSUME NEW v \in Nat, v < Power(Radix, Groups32)
    PROVE  /\ Varint(v) \in Seq(Byte)
           /\ Len(Varint(v)) = GroupsOf(v)
           /\ Unvarint(Varint(v)) = v
           /\ \A i \in 1 .. GroupsOf(v) : Varint(v)[i] < Radix <=> i = GroupsOf(v)
<1> USE Bases
<1>1. PICK n \in Nat \ {0} : n = GroupsOf(v) /\ v < Power(Radix, n)
  BY GroupsFound
<1>2. ASSUME NEW i \in 1 .. n PROVE Digit(Radix, v, i) \in 0 .. Radix - 1
  <2>1. i \in Nat \ {0}
    OBVIOUS
  <2> QED
    BY <2>1, DigitType
<1>3. Varint(v) = [i \in 1 .. n |-> Digit(Radix, v, i) + IF i < n THEN Radix ELSE 0]
  BY <1>1 DEF Varint
<1>4. \A i \in 1 .. n :
          /\ Digit(Radix, v, i) + (IF i < n THEN Radix ELSE 0) \in Byte
          /\ Digit(Radix, v, i) + (IF i < n THEN Radix ELSE 0) < Radix <=> i = n
  BY <1>2 DEF Byte
<1>5. /\ Varint(v) \in Seq(Byte) /\ Len(Varint(v)) = n /\ DOMAIN Varint(v) = 1 .. n
      /\ \A i \in 1 .. n : Varint(v)[i] < Radix <=> i = n
  BY <1>3, <1>4
<1> DEFINE digits == [i \in 1 .. n |-> Digit(Radix, v, i)]
<1>6. [i \in DOMAIN Varint(v) |-> Varint(v)[i] % Radix] = digits
  <2>1. \A d \in 0 .. Radix - 1 : d % Radix = d /\ (d + 0) % Radix = d
    OBVIOUS
  <2>2. \A d \in 0 .. Radix - 1 : (d + Radix) % Radix = d
    BY DivModUnique
  <2>3. ASSUME NEW i \in 1 .. n PROVE Varint(v)[i] % Radix = Digit(Radix, v, i)
    <3>1. Varint(v)[i] = Digit(Radix, v, i) + IF i < n THEN Radix ELSE 0
      BY <1>3
    <3> QED
      BY <1>2, <2>1, <2>2, <3>1
  <2> QED
    BY <1>5, <2>3
<1>7. digits \in Seq(Nat) /\ Len(digits) = n
  BY <1>2
<1>8. \A i \in 1 .. Len(digits) : digits[i] = Digit(Radix, v, i)
  BY <1>7
<1> HIDE DEF digits
<1>9. Number(Radix, digits) = v % Power(Radix, n)
  BY <1>7, <1>8, NumberOfDigits
<1>10. PICK p \in Nat \ {0} : p = Power(Radix, n)
  BY PowerFacts
<1>11. v < p => v % p = v
  OBVIOUS
<1>12. Unvarint(Varint(v)) = v
  BY <1>1, <1>6, <1>9, <1>10, <1>11 DEF Unvarint
<1> QED
  BY <1>1, <1>5, <1>12

LEMMA VarintLenFacts ==
    ASSUME NEW text \in Seq(Byte)
    PROVE  /\ VarintLen(text) \in 1 .. Groups32
           /\ \A v \in Nat :
                 /\ v < Power(Radix, Groups32)
                 /\ Len(text) >= GroupsOf(v)
                 /\ \A i \in 1 .. GroupsOf(v) : text[i] = Varint(v)[i]
                 => VarintLen(text) = GroupsOf(v)
<1> USE Bases
<1> DEFINE last == {i \in DOMAIN text : text[i] < Radix /\ i <= Groups32}
<1>1. VarintLen(text) = IF last = {} THEN Groups32 ELSE Min(last)
  BY DEF VarintLen
<1>2. last \subseteq Nat /\ \A i \in last : i \in 1 .. Groups32
  OBVIOUS
<1>3. VarintLen(text) \in 1 .. Groups32
  <2> HIDE DEF last
  <2>1. CASE last # {}
    <3>1. Min(last) \in last
      BY <1>2, <2>1, LeastElement
    <3> QED
      BY <1>1, <1>2, <2>1, <3>1
  <2>2. CASE last = {}
    BY <1>1, <2>2
  <2> QED
    BY <2>1, <2>2
<1>4. ASSUME NEW v \in Nat, v < Power(Radix, Groups32), Len(text) >= GroupsOf(v),
             \A i \in 1 .. GroupsOf(v) : text[i] = Varint(v)[i]
      PROVE  VarintLen(text) = GroupsOf(v)
  <2>1. PICK n \in 1 .. Groups32 : n = GroupsOf(v)
    BY <1>4, GroupsFound
  <2>2. \A i \in 1 .. n : text[i] < Radix <=> i = n
    BY <1>4, <2>1, VarintBack
  <2>3. n \in last
    BY <1>4, <2>1, <2>2
  <2>4. \A i \in last : n <= i
    BY <2>1, <2>2
  <2>5. Min(last) = n
    <3> HIDE DEF last
    <3> QED
      BY <1>2, <2>3, <2>4, LeastIs
  <2> QED
    BY <1>1, <2>1, <2>3, <2>5
<1> QED
  BY <1>3, <1>4

LEMMA ZigzagBack ==
    ASSUME NEW v \in Int
    PROVE  EncodeZigzag(v) \in Nat /\ DecodeZigzag(EncodeZigzag(v)) = v
  BY DEF EncodeZigzag, DecodeZigzag

LEMMA SwappedBack ==
    ASSUME NEW a, NEW c, NEW bytes \in Seq(Byte), NEW signed \in BOOLEAN,
           c.endian = a.endian \/ signed
    PROVE  /\ Swapped(a, bytes, signed) \in Seq(Byte)
           /\ Len(Swapped(a, bytes, signed)) = Len(bytes)
           /\ Swapped(c, Swapped(a, bytes, signed), signed) = bytes
<1>1. /\ Reverse(bytes) \in Seq(Byte) /\ Len(Reverse(bytes)) = Len(bytes)
      /\ Reverse(Reverse(bytes)) = bytes
  <2>1. Len(bytes) \in Nat
    OBVIOUS
  <2>2. \A i \in 1 .. Len(bytes) : (Len(bytes) - i) + 1 \in 1 .. Len(bytes)
    OBVIOUS
  <2>3. Reverse(bytes) \in Seq(Byte) /\ Len(Reverse(bytes)) = Len(bytes)
    BY <2>1, <2>2 DEF Reverse
  <2>4. \A i \in 1 .. Len(bytes) : Reverse(bytes)[i] = bytes[(Len(bytes) - i) + 1]
    BY DEF Reverse
  <2>5. \A i \in 1 .. Len(bytes) :
            /\ Reverse(Reverse(bytes))[i] = Reverse(bytes)[(Len(bytes) - i) + 1]
            /\ (Len(bytes) - ((Len(bytes) - i) + 1)) + 1 = i
    BY <2>3 DEF Reverse
  <2>6. \A i \in 1 .. Len(bytes) : Reverse(Reverse(bytes))[i] = bytes[i]
    BY <2>2, <2>4, <2>5
  <2>7. Reverse(Reverse(bytes)) = [i \in 1 .. Len(bytes) |-> Reverse(Reverse(bytes))[i]]
    BY <2>3 DEF Reverse
  <2>8. bytes = [i \in 1 .. Len(bytes) |-> bytes[i]]
    OBVIOUS
  <2> QED
    BY <2>3, <2>6, <2>7, <2>8
<1>2. CASE a.endian # CCZOE_BYTE_ORDER /\ ~signed
  BY <1>1, <1>2 DEF Swapped
<1>3. CASE ~(a.endian # CCZOE_BYTE_ORDER /\ ~signed)
  BY <1>3 DEF Swapped
<1> QED
  BY <1>2, <1>3

LEMMA SwappedTwice ==
    ASSUME NEW a, NEW c, NEW bytes \in Seq(Byte), NEW signed \in BOOLEAN,
           c.endian = a.endian \/ signed
    PROVE  Swapped(c, Swapped(a, bytes, signed), signed) = bytes
  BY SwappedBack

(* What the items must be so that their bytes hold them: two bytes for an  *)
(* integer of fixed length, the groups of 32 bits for one of variable      *)
(* length, and the length of a string.                                     *)
ItemFits(item) ==
    /\ item.kind \in Kinds
    /\ item.kind \in {"fint", "fuint"} =>
           item.v \in Nat /\ item.v < Power(2 * Radix, 2)
    /\ item.kind = "int" =>
           item.v \in Int /\ EncodeZigzag(item.v) < Power(Radix, Groups32)
    /\ item.kind = "uint64" =>
           item.v \in Nat /\ item.v < Power(Radix, Groups32)
    /\ item.kind = "string" =>
           item.v \in Seq(Byte) /\ Len(item.v) < Power(2 * Radix, LenWidth)

ItemsFit == \A item \in Items : ItemFits(item)


(* A text that begins with an item.                                        *)
Begins(text, a, item) ==
    /\ Len(text) >= Len(TextOf(a, item))
    /\ \A i \in 1 .. Len(TextOf(a, item)) : text[i] = TextOf(a, item)[i]

(* Every kind of item: its bytes, how many they are for who reads them     *)
(* with the same byte order, and what they mean.                           *)
LEMMA FixedItem ==
    ASSUME NEW a, NEW c, NEW item, ItemFits(item), NEW text \in Seq(Byte),
           item.kind \in {"fint", "fuint"},
           c.endian = a.endian \/ item.kind = "fint"
    PROVE  /\ Encode(a, item) \in Seq(Byte) /\ Len(Encode(a, item)) = 2
           /\ Characters(item) = <<>>
           /\ TextOf(a, item) = Encode(a, item)
           /\ LengthOf(c, item.kind, text) = 2
           /\ Decode(c, item.kind, TextOf(a, item)) = item.v
<1>1. item.v \in Nat /\ item.v < Power(2 * Radix, 2)
  BY DEF ItemFits
<1>2. PICK bytes \in Seq(Byte) :
          bytes = Fixed(item.v, 2) /\ Len(bytes) = 2 /\ Unfixed(bytes) = item.v
  BY <1>1, FixedBack
<1>3. PICK signed \in BOOLEAN : signed <=> item.kind = "fint"
  OBVIOUS
<1>4. Encode(a, item) = Swapped(a, bytes, signed)
  BY <1>2, <1>3 DEF Encode
<1>5. /\ Swapped(a, bytes, signed) \in Seq(Byte)
      /\ Len(Swapped(a, bytes, signed)) = 2
      /\ Swapped(c, Swapped(a, bytes, signed), signed) = bytes
  <2>1. c.endian = a.endian \/ signed
    BY <1>3
  <2>2. Swapped(a, bytes, signed) \in Seq(Byte)
    BY <2>1, SwappedBack, ZenonT(60)
  <2>3. Len(Swapped(a, bytes, signed)) = Len(bytes)
    BY <2>1, SwappedBack, ZenonT(60)
  <2>4. Swapped(c, Swapped(a, bytes, signed), signed) = bytes
    BY <2>1, SwappedTwice
  <2> QED
    BY <1>2, <2>2, <2>3, <2>4
<1>6. Characters(item) = <<>>
  BY DEF Characters
<1>7. TextOf(a, item) = Encode(a, item)
  BY <1>4, <1>5, <1>6 DEF TextOf
<1>8. Decode(c, item.kind, Swapped(a, bytes, signed)) =
          Unfixed(Swapped(c, Swapped(a, bytes, signed), signed))
  BY <1>3 DEF Decode
<1>9. LengthOf(c, item.kind, text) = 2
  BY DEF LengthOf
<1> QED
  BY <1>2, <1>4, <1>5, <1>6, <1>7, <1>8, <1>9

LEMMA VarintItem ==
    ASSUME NEW a, NEW c, NEW item, ItemFits(item), NEW text \in Seq(Byte),
           item.kind \in {"int", "uint64"}
    PROVE  /\ Encode(a, item) \in Seq(Byte) /\ Len(Encode(a, item)) > 0
           /\ Characters(item) = <<>>
           /\ TextOf(a, item) = Encode(a, item)
           /\ Begins(text, a, item) =>
                 LengthOf(c, item.kind, text) = Len(TextOf(a, item))
           /\ Decode(c, item.kind, TextOf(a, item)) = item.v
<1>1. PICK v \in Nat :
          /\ v < Power(Radix, Groups32)
          /\ Encode(a, item) = Varint(v)
          /\ Decode(c, item.kind, Varint(v)) =
                 IF item.kind = "int" THEN DecodeZigzag(Unvarint(Varint(v)))
                 ELSE Unvarint(Varint(v))
          /\ item.v = IF item.kind = "int" THEN DecodeZigzag(v) ELSE v
  <2>1. CASE item.kind = "int"
    <3>1. item.v \in Int /\ EncodeZigzag(item.v) < Power(Radix, Groups32)
      BY <2>1 DEF ItemFits
    <3>2. EncodeZigzag(item.v) \in Nat /\ DecodeZigzag(EncodeZigzag(item.v)) = item.v
      BY <3>1, ZigzagBack
    <3> QED
      BY <2>1, <3>1, <3>2 DEF Encode, Decode
  <2>2. CASE item.kind = "uint64"
    <3>1. item.v \in Nat /\ item.v < Power(Radix, Groups32)
      BY <2>2 DEF ItemFits
    <3> QED
      BY <2>2, <3>1 DEF Encode, Decode
  <2> QED
    BY <2>1, <2>2
<1>2. /\ Varint(v) \in Seq(Byte) /\ Len(Varint(v)) = GroupsOf(v)
      /\ Unvarint(Varint(v)) = v
  BY <1>1, VarintBack
<1>3. GroupsOf(v) \in 1 .. Groups32
  BY <1>1, GroupsFound
<1>4. Characters(item) = <<>>
  BY DEF Characters
<1>5. TextOf(a, item) = Varint(v)
  BY <1>1, <1>2, <1>4 DEF TextOf
<1>6. ASSUME Begins(text, a, item) PROVE LengthOf(c, item.kind, text) = GroupsOf(v)
  <2>1. /\ Len(text) >= GroupsOf(v)
        /\ \A i \in 1 .. GroupsOf(v) : text[i] = Varint(v)[i]
    BY <1>2, <1>5, <1>6 DEF Begins
  <2>2. VarintLen(text) = GroupsOf(v)
    BY <1>1, <2>1, VarintLenFacts
  <2> QED
    BY <2>2 DEF LengthOf
<1> QED
  BY <1>1, <1>2, <1>3, <1>4, <1>5, <1>6, Bases

LEMMA StringItem ==
    ASSUME NEW a, NEW c, NEW item, ItemFits(item), NEW text \in Seq(Byte),
           item.kind = "string"
    PROVE  /\ Encode(a, item) \in Seq(Byte) /\ Len(Encode(a, item)) = LenWidth
           /\ Characters(item) \in Seq(Byte)
           /\ Len(TextOf(a, item)) = LenWidth + Len(Characters(item))
           /\ c.endian = a.endian /\ Begins(text, a, item) =>
                 LengthOf(c, item.kind, text) = Len(TextOf(a, item))
           /\ Decode(c, item.kind, TextOf(a, item)) = item.v
<1>1. item.v \in Seq(Byte) /\ Len(item.v) < Power(2 * Radix, LenWidth)
  BY DEF ItemFits
<1>2. LenWidth \in Nat \ {0} /\ Len(item.v) \in Nat
  BY <1>1, UseAssumption DEF UseAssumption
<1>3. PICK bytes \in Seq(Byte) :
          /\ bytes = Fixed(Len(item.v), LenWidth)
          /\ Len(bytes) = LenWidth /\ Unfixed(bytes) = Len(item.v)
  BY <1>1, <1>2, FixedBack
<1>4. PICK head \in Seq(Byte) :
          /\ head = Swapped(a, bytes, FALSE)
          /\ Len(head) = LenWidth
          /\ c.endian = a.endian => Swapped(c, head, FALSE) = bytes
  <2>1. Swapped(a, bytes, FALSE) \in Seq(Byte)
    BY SwappedBack
  <2>2. Len(Swapped(a, bytes, FALSE)) = Len(bytes)
    BY SwappedBack
  <2>3. c.endian = a.endian => Swapped(c, Swapped(a, bytes, FALSE), FALSE) = bytes
    BY SwappedBack
  <2> QED
    BY <1>3, <2>1, <2>2, <2>3
<1>5. Encode(a, item) = head /\ Characters(item) = item.v
  BY <1>3, <1>4 DEF Encode, Characters
<1>6. TextOf(a, item) = head \o item.v
  BY <1>5 DEF TextOf
<1>7. /\ Len(head \o item.v) = LenWidth + Len(item.v)
      /\ \A i \in 1 .. LenWidth : (head \o item.v)[i] = head[i]
      /\ SubSeq(head \o item.v, LenWidth + 1, Len(head \o item.v)) = item.v
  <2>1. PICK chars \in Seq(Byte) : chars = item.v
    BY <1>1
  <2>2. PICK all \in Seq(Byte) : all = head \o chars /\ IsJoin(all, head, chars)
    BY Joined
  <2>3. /\ Len(all) = LenWidth + Len(chars) /\ Len(chars) \in Nat
        /\ \A i \in 1 .. LenWidth : all[i] = head[i]
        /\ \A i \in 1 .. Len(chars) : all[LenWidth + i] = chars[i]
    <3>1. Len(head) = LenWidth /\ Len(chars) \in Nat
      <4>1. Len(head) = LenWidth
        BY <1>4, Zenon
      <4> QED
        BY <4>1
    <3>2. IsJoin(all, head, chars)
      BY <2>2
    <3> QED
      BY <3>1, <3>2 DEF IsJoin
  <2>4. PICK part \in Seq(Byte) :
            /\ part = SubSeq(all, LenWidth + 1, LenWidth + Len(chars))
            /\ IsPart(part, all, LenWidth, Len(chars))
    <3>1. PICK n \in Nat : n = Len(chars) /\ LenWidth + n <= Len(all)
      BY <1>2, <2>3
    <3>2. LenWidth \in Nat
      BY <1>2
    <3> QED
      BY <3>1, <3>2, Part
  <2>5. part = chars
    BY <2>3, <2>4, SeqEqual DEF IsPart
  <2> QED
    BY <2>1, <2>2, <2>3, <2>4, <2>5
<1>8. Decode(c, item.kind, TextOf(a, item)) = item.v
  BY <1>6, <1>7 DEF Decode
<1>9. ASSUME c.endian = a.endian, Begins(text, a, item)
      PROVE  LengthOf(c, item.kind, text) = LenWidth + Len(item.v)
  <2>1. Len(text) >= LenWidth + Len(item.v)
    BY <1>6, <1>7, <1>9 DEF Begins
  <2>2. \A i \in 1 .. LenWidth : text[i] = head[i]
    BY <1>2, <1>6, <1>7, <1>9 DEF Begins
  <2>3. SubSeq(text, 1, LenWidth) = head
    <3>1. PICK zero \in Nat : zero = 0
      OBVIOUS
    <3>2. PICK part \in Seq(Byte) :
              /\ part = SubSeq(text, zero + 1, zero + LenWidth)
              /\ IsPart(part, text, zero, LenWidth)
      <4>1. zero + LenWidth <= Len(text)
        BY <1>2, <2>1, <3>1
      <4> QED
        BY <1>2, <4>1, Part
    <3>3. part = head
      <4>1. Len(part) = LenWidth /\ \A i \in 1 .. LenWidth : part[i] = text[i]
        BY <1>2, <3>1, <3>2 DEF IsPart
      <4> QED
        BY <1>4, <2>2, <4>1, SeqEqual
    <3> QED
      BY <1>2, <3>1, <3>2, <3>3
  <2>4. LengthOf(c, item.kind, text) =
            LenWidth + Unfixed(Swapped(c, SubSeq(text, 1, LenWidth), FALSE))
    <3>1. ~(Len(text) < LenWidth)
      BY <1>2, <2>1
    <3> QED
      BY <3>1 DEF LengthOf
  <2> QED
    BY <1>3, <1>4, <1>9, <2>3, <2>4
<1> QED
  BY <1>1, <1>4, <1>5, <1>6, <1>7, <1>8, <1>9

LEMMA ItemBack ==
    ASSUME NEW a, NEW c, NEW item, ItemFits(item), NEW text \in Seq(Byte)
    PROVE  /\ Encode(a, item) \in Seq(Byte) /\ Characters(item) \in Seq(Byte)
           /\ Len(Encode(a, item)) > 0
           /\ /\ c.endian = a.endian \/ item.kind = "fint"
              /\ Begins(text, a, item)
              => /\ LengthOf(c, item.kind, text) = Len(TextOf(a, item))
                 /\ Decode(c, item.kind, TextOf(a, item)) = item.v
<1>1. CASE item.kind \in {"fint", "fuint"}
  <2>1. PICK d : d.endian = a.endian
    OBVIOUS
  <2>2. Encode(a, item) \in Seq(Byte) /\ Len(Encode(a, item)) = 2
    BY <1>1, <2>1, FixedItem
  <2>3. Characters(item) = <<>>
    BY <1>1 DEF Characters
  <2>4. ASSUME c.endian = a.endian \/ item.kind = "fint"
        PROVE  /\ LengthOf(c, item.kind, text) = Len(TextOf(a, item))
               /\ Decode(c, item.kind, TextOf(a, item)) = item.v
    <3>1. TextOf(a, item) = Encode(a, item) /\ LengthOf(c, item.kind, text) = 2
      BY <1>1, <2>4, FixedItem, ZenonT(60)
    <3>2. Decode(c, item.kind, TextOf(a, item)) = item.v
      BY <1>1, <2>4, FixedItem
    <3> QED
      BY <2>2, <3>1, <3>2
  <2> QED
    BY <2>2, <2>3, <2>4
<1>2. CASE item.kind \in {"int", "uint64"}
  <2>1. Encode(a, item) \in Seq(Byte) /\ Len(Encode(a, item)) > 0
    BY <1>2, VarintItem
  <2>2. Characters(item) = <<>>
    BY <1>2 DEF Characters
  <2>3. Begins(text, a, item) => LengthOf(c, item.kind, text) = Len(TextOf(a, item))
    BY <1>2, VarintItem
  <2>4. Decode(c, item.kind, TextOf(a, item)) = item.v
    BY <1>2, VarintItem
  <2> QED
    BY <2>1, <2>2, <2>3, <2>4
<1>3. CASE item.kind = "string"
  <2>1. LenWidth > 0
    BY UseAssumption DEF UseAssumption
  <2> QED
    BY <1>3, <2>1, StringItem
<1> QED
  BY <1>1, <1>2, <1>3 DEF ItemFits, Kinds

-----------------------------------------------------------------------------
(* The list of blocks *)

ArrayType ==
    [mem : Seq(Byte), curr : Nat, position : Nat, capacity : Nat, size : Nat,
     endian : Endian, crashed : BOOLEAN]

(* The array of a careful caller: the current block and the position are   *)
(* one address, and there is always a byte behind the data, so that the    *)
(* current block is never the null behind the last one.                    *)
Good(a) ==
    /\ a \in ArrayType
    /\ Address(a) = a.position
    /\ Len(a.mem) = a.capacity
    /\ a.capacity % BaseSize = 0
    /\ a.position <= a.size
    /\ a.size < a.capacity
    /\ ~a.crashed

LEMMA GoodTypes ==
    ASSUME NEW a, Good(a)
    PROVE  /\ a.mem \in Seq(Byte) /\ a.curr \in Nat /\ a.position \in Nat
           /\ a.capacity \in Nat /\ a.size \in Nat /\ a.endian \in Endian
           /\ a.crashed = FALSE /\ Len(a.mem) = a.capacity
           /\ a.position <= a.size /\ a.size < a.capacity
           /\ Address(a) = a.position
  BY DEF Good, ArrayType

LEMMA BlockNumber ==
    ASSUME NEW base \in Nat \ {0}, NEW k \in Nat, NEW c \in Nat,
           NEW r \in 0 .. base - 1, NEW p \in Nat,
           (c - 1) * base + r = p, p < k * base
    PROVE  c \in 1 .. k
<1>1. c >= 1
  <2> SUFFICES ASSUME c = 0 PROVE FALSE
    OBVIOUS
  <2>1. (c - 1) * base = -base
    OBVIOUS
  <2> QED
    BY <2>1
<1>2. c <= k
  <2> SUFFICES ASSUME c > k PROVE FALSE
    OBVIOUS
  <2>1. PICK d \in Nat : c - 1 = k + d
    <3>1. (c - 1) - k \in Nat /\ c - 1 = k + ((c - 1) - k)
      OBVIOUS
    <3> QED
      BY <3>1
  <2>2. (k + d) * base = k * base + d * base
    OBVIOUS
  <2>3. k * base \in Nat /\ d * base \in Nat
    OBVIOUS
  <2> QED
    BY <2>1, <2>2, <2>3
<1> QED
  BY <1>1, <1>2

(* The current block of a good array is one of its blocks.                 *)
LEMMA GoodBlocks ==
    ASSUME NEW a, Good(a)
    PROVE  /\ Blocks(a) \in Nat /\ Blocks(a) * BaseSize = a.capacity
           /\ Blocks(a) >= 1 /\ a.capacity >= BaseSize
           /\ a.curr \in 1 .. Blocks(a)
           /\ ~IsNull(a)
<1>0. BaseSize \in Nat \ {0}
  BY Bases
<1>1. PICK cap \in Nat, pos \in Nat, c \in Nat :
          /\ cap = a.capacity /\ pos = a.position /\ c = a.curr
          /\ Len(a.mem) = cap /\ pos < cap /\ Address(a) = pos
  <2>1. /\ a.capacity \in Nat /\ a.position \in Nat /\ a.curr \in Nat /\ a.size \in Nat
        /\ a.position <= a.size /\ a.size < a.capacity
        /\ Len(a.mem) = a.capacity /\ Address(a) = a.position
    BY GoodTypes
  <2> QED
    BY <2>1
<1>2. PICK k \in Nat : k = cap \div BaseSize /\ cap = k * BaseSize
  <2>1. cap \div BaseSize \in Nat
    BY <1>0, DivMod
  <2>2. cap = (cap \div BaseSize) * BaseSize + (cap % BaseSize)
    BY <1>0, DivMod
  <2>3. cap % BaseSize = 0
    BY <1>1 DEF Good
  <2>4. PICK k \in Nat : k = cap \div BaseSize
    BY <2>1
  <2>5. k * BaseSize \in Nat
    BY <1>0
  <2> QED
    BY <2>2, <2>3, <2>4, <2>5
<1>3. Blocks(a) = k
  BY <1>1, <1>2 DEF Blocks
<1>4. PICK r \in 0 .. BaseSize - 1 : r = pos % BaseSize
  BY <1>0, DivMod
<1>5. (c - 1) * BaseSize + r = pos
  BY <1>1, <1>4 DEF Address
<1>6. c \in 1 .. k
  BY <1>0, <1>1, <1>2, <1>5, BlockNumber
<1>7. k >= 1 /\ k * BaseSize >= BaseSize
  BY <1>0, <1>6
<1>8. ~(c > k)
  BY <1>6
<1>9. ~IsNull(a)
  BY <1>1, <1>3, <1>8, Zenon DEF IsNull
<1>10. k * BaseSize = a.capacity /\ a.capacity >= BaseSize
  BY <1>1, <1>2, <1>7, Zenon
<1> QED
  BY <1>1, <1>3, <1>6, <1>7, <1>9, <1>10, Zenon

(* More blocks: the bytes that were there are still there.                 *)
IsGrown(g, a, n) ==
    /\ Good(g)
    /\ g.position = a.position /\ g.size = a.size /\ g.endian = a.endian
    /\ a.position + n <= g.capacity
    /\ a.capacity <= g.capacity
    /\ \A i \in 1 .. a.capacity : g.mem[i] = a.mem[i]

LEMMA Grown ==
    ASSUME NEW a, Good(a), NEW n \in Nat \ {0}, NEW junk \in Byte
    PROVE  IsGrown(addCapacity(a, n, junk), a, n)
<1> USE Bases
<1>0. /\ a.mem \in Seq(Byte) /\ a.capacity \in Nat /\ a.position \in Nat
      /\ a.size \in Nat /\ a.position < a.capacity /\ Len(a.mem) = a.capacity
      /\ Address(a) = a.position /\ a \in ArrayType /\ a.size < a.capacity
      /\ a.position <= a.size /\ ~a.crashed /\ a.curr \in Nat /\ a.endian \in Endian
  <2>1. /\ a.mem \in Seq(Byte) /\ a.capacity \in Nat /\ a.position \in Nat
        /\ a.size \in Nat /\ Len(a.mem) = a.capacity /\ a.curr \in Nat
        /\ Address(a) = a.position /\ a.size < a.capacity /\ a.endian \in Endian
        /\ a.position <= a.size
    BY GoodTypes
  <2>2. a \in ArrayType /\ ~a.crashed
    BY DEF Good
  <2> QED
    BY <2>1, <2>2
<1>1. PICK old \in Nat \ {0} :
          old = getCapacity(a) /\ old = a.capacity - a.position
  BY <1>0 DEF getCapacity
<1>2. PICK q \in Nat, r \in 0 .. BaseSize - 1 :
          /\ q = n \div BaseSize /\ r = n % BaseSize
          /\ n = q * BaseSize + r
  <2>1. n \in Nat
    OBVIOUS
  <2>2. n \div BaseSize \in Nat
    BY <2>1, DivMod
  <2>3. n % BaseSize \in 0 .. BaseSize - 1
    BY <2>1, DivMod
  <2>4. n = (n \div BaseSize) * BaseSize + (n % BaseSize)
    BY <2>1, DivMod
  <2> QED
    BY <2>2, <2>3, <2>4, Zenon
<1>3. PICK count \in Nat : count = q + IF r > old THEN 1 ELSE 0
  OBVIOUS
<1>4. CASE old >= n
  <2>1. addCapacity(a, n, junk) = a
    BY <1>1, <1>4 DEF addCapacity
  <2> QED
    BY <1>0, <1>1, <1>4, <2>1 DEF IsGrown
<1>5. CASE ~(old >= n)
  <2>1. PICK more \in Nat : more = count * BaseSize
    OBVIOUS
  <2> DEFINE fresh == [i \in 1 .. more |-> junk]
  <2>2. fresh \in Seq(Byte) /\ Len(fresh) = more
    OBVIOUS
  <2> HIDE DEF fresh
  <2>3. addCapacity(a, n, junk) =
            [a EXCEPT !.mem = a.mem \o fresh, !.capacity = a.capacity + more,
                      !.curr = a.curr]
    BY <1>1, <1>2, <1>3, <1>5, <2>1 DEF addCapacity, fresh
  <2>4. PICK mem \in Seq(Byte) : mem = a.mem \o fresh /\ IsJoin(mem, a.mem, fresh)
    BY <1>0, <2>2, Joined
  <2>5. /\ Len(mem) = a.capacity + more
        /\ \A i \in 1 .. a.capacity : mem[i] = a.mem[i]
    BY <1>0, <2>2, <2>4 DEF IsJoin
  <2>6. n <= old + more
    <3>1. CASE r > old
      <4>1. more = q * BaseSize + BaseSize
        BY <1>3, <2>1, <3>1
      <4> QED
        BY <1>2, <4>1
    <3>2. CASE ~(r > old)
      <4>1. more = q * BaseSize
        BY <1>3, <2>1, <3>2
      <4> QED
        BY <1>2, <3>2, <4>1
    <3> QED
      BY <3>1, <3>2
  <2>7. (a.capacity + more) % BaseSize = 0
    <3>1. PICK k \in Nat : a.capacity = k * BaseSize
      BY GoodBlocks
    <3>2. a.capacity + more = (k + count) * BaseSize + 0
      BY <1>3, <2>1, <3>1
    <3>3. PICK s \in Nat : s = k + count
      OBVIOUS
    <3>4. (s * BaseSize + 0) % BaseSize = 0
      BY DivModUnique
    <3> QED
      BY <3>2, <3>3, <3>4
  <2>8. PICK g : g = [a EXCEPT !.mem = mem, !.capacity = a.capacity + more,
                               !.curr = a.curr]
    OBVIOUS
  <2>9. /\ g \in ArrayType /\ g.mem = mem /\ g.capacity = a.capacity + more
        /\ g.curr = a.curr /\ g.position = a.position /\ g.size = a.size
        /\ g.endian = a.endian /\ g.crashed = a.crashed
    <3>1. a.capacity + more \in Nat
      BY <1>0
    <3> QED
      BY <1>0, <2>8, <3>1 DEF ArrayType
  <2>10. Address(g) = a.position
    BY <1>0, <2>9 DEF Address
  <2>11. Good(g)
    BY <1>0, <2>5, <2>7, <2>9, <2>10 DEF Good
  <2>12. IsGrown(g, a, n)
    <3>1. a.position + n <= g.capacity /\ a.capacity <= g.capacity
      <4>1. PICK cap \in Nat, pos \in Nat : cap = a.capacity /\ pos = a.position
        BY <1>0
      <4>2. old = cap - pos /\ g.capacity = cap + more
        BY <1>1, <2>9, <4>1, Zenon
      <4>3. pos + n <= cap + more /\ cap <= cap + more
        BY <2>6, <4>2
      <4> QED
        BY <4>1, <4>2, <4>3, Zenon
    <3>2. \A i \in 1 .. a.capacity : g.mem[i] = a.mem[i]
      BY <2>5, <2>9
    <3> QED
      BY <2>9, <2>11, <3>1, <3>2 DEF IsGrown
  <2> QED
    BY <2>3, <2>4, <2>8, <2>12
<1> QED
  BY <1>4, <1>5

(* A text in place of the bytes behind the first k.                        *)
IsStored(m, s, k, text) ==
    /\ m \in Seq(Byte)
    /\ Len(m) = Len(s)
    /\ \A i \in 1 .. Len(text) : m[k + i] = text[i]
    /\ \A i \in 1 .. Len(s) : i \notin k + 1 .. k + Len(text) => m[i] = s[i]

LEMMA StoredBytes ==
    ASSUME NEW a, Good(a), NEW text \in Seq(Byte), a.position + Len(text) <= Len(a.mem)
    PROVE  IsStored(Stored(a, text), a.mem, a.position, text)
<1>0. a.mem \in Seq(Byte) /\ a.position \in Nat /\ Address(a) = a.position
  BY GoodTypes
<1>1. PICK s \in Seq(Byte), k \in Nat, n \in Nat :
          /\ s = a.mem /\ k = a.position /\ n = Len(text)
          /\ k + n <= Len(s)
  BY <1>0
<1>2. PICK zero \in Nat, e \in Nat, rest \in Nat :
          /\ zero = 0 /\ e = k + n /\ rest = Len(s) - e
          /\ e + rest <= Len(s) /\ zero + k <= Len(s)
  <2>1. PICK l \in Nat : l = Len(s)
    OBVIOUS
  <2>2. PICK e \in Nat : e = k + n
    OBVIOUS
  <2>3. PICK rest \in Nat : rest = l - e
    BY <1>1, <2>1, <2>2
  <2>4. e + rest <= l /\ 0 + k <= l
    BY <2>2, <2>3
  <2> QED
    BY <2>1, <2>2, <2>3, <2>4
<1>3. PICK before \in Seq(Byte) :
          before = SubSeq(s, zero + 1, zero + k) /\ IsPart(before, s, zero, k)
  BY <1>2, Part
<1>4. PICK behind \in Seq(Byte) :
          behind = SubSeq(s, e + 1, e + rest) /\ IsPart(behind, s, e, rest)
  BY <1>2, Part
<1>5. PICK half \in Seq(Byte) : half = before \o text /\ IsJoin(half, before, text)
  BY Joined
<1>6. PICK m \in Seq(Byte) : m = half \o behind /\ IsJoin(m, half, behind)
  BY Joined
<1>7. Stored(a, text) = m
  <2>1. Address(a) = k
    BY <1>0, <1>1
  <2>2. zero + 1 = 1 /\ zero + k = k /\ e + rest = Len(s) /\ e = k + Len(text)
    <3>1. Len(s) \in Nat
      OBVIOUS
    <3> QED
      BY <1>1, <1>2, <3>1, SMTT(30)
  <2>3. before = SubSeq(s, 1, k) /\ behind = SubSeq(s, k + Len(text) + 1, Len(s))
    BY <1>3, <1>4, <2>2
  <2> QED
    BY <1>1, <1>5, <1>6, <2>1, <2>3 DEF Stored
<1>8. Len(before) = k /\ \A i \in 1 .. k : before[i] = s[i]
  BY <1>2, <1>3 DEF IsPart
<1>9. Len(behind) = rest /\ \A i \in 1 .. rest : behind[i] = s[e + i]
  BY <1>4 DEF IsPart
<1>10. /\ Len(half) = e
       /\ \A i \in 1 .. k : half[i] = s[i]
       /\ \A i \in 1 .. n : half[k + i] = text[i]
  BY <1>1, <1>2, <1>5, <1>8 DEF IsJoin
<1>11. Len(m) = Len(s)
  <2>1. Len(m) = Len(half) + Len(behind) /\ Len(s) \in Nat
    BY <1>6 DEF IsJoin
  <2>2. Len(m) = e + rest
    BY <1>9, <1>10, <2>1
  <2>3. rest = Len(s) - e
    BY <1>2
  <2> QED
    BY <2>1, <2>2, <2>3
<1>12. ASSUME NEW i \in 1 .. n PROVE m[k + i] = text[i]
  <2>1. k + i \in 1 .. e
    BY <1>2
  <2>2. m[k + i] = half[k + i]
    BY <1>6, <1>10, <2>1 DEF IsJoin
  <2> QED
    BY <1>10, <2>2
<1>13. ASSUME NEW i \in 1 .. Len(s), i \notin k + 1 .. k + n PROVE m[i] = s[i]
  <2>1. CASE i <= k
    <3>1. i \in 1 .. k /\ i \in 1 .. e
      BY <1>2, <2>1
    <3>2. m[i] = half[i]
      BY <1>6, <1>10, <3>1 DEF IsJoin
    <3> QED
      BY <1>10, <3>1, <3>2
  <2>2. CASE ~(i <= k)
    <3>1. PICK j \in 1 .. rest : i = e + j
      <4>1. i - e \in 1 .. rest /\ i = e + (i - e)
        <5>1. Len(s) \in Nat /\ i > k + n
          BY <1>13, <2>2
        <5> QED
          BY <1>2, <5>1
      <4> QED
        BY <4>1
    <3>2. m[e + j] = behind[j]
      BY <1>6, <1>9, <1>10 DEF IsJoin
    <3> QED
      BY <1>9, <3>1, <3>2
  <2> QED
    BY <2>1, <2>2
<1> QED
  BY <1>1, <1>7, <1>11, <1>12, <1>13 DEF IsStored

(* A text written at the position: the data ends where it ended, or where  *)
(* the text ends.                                                          *)
IsWritten(c, a, text) ==
    /\ Good(c)
    /\ c.position = a.position + Len(text)
    /\ c.size = IF c.position > a.size THEN c.position ELSE a.size
    /\ c.endian = a.endian
    /\ \A i \in 1 .. Len(text) : c.mem[a.position + i] = text[i]
    /\ \A i \in 1 .. a.size :
          i \notin a.position + 1 .. a.position + Len(text) => c.mem[i] = a.mem[i]

(* The careful caller's side of write.                                     *)
Ends(a, n) == n > 0 => (a.position + n) % BaseSize # 0

(* The address of a position, in the block where it is.                    *)
LEMMA AddressOf ==
    ASSUME NEW a, NEW p \in Nat, a.position = p, a.curr = BlockAt(p)
    PROVE  a.curr \in Nat /\ Address(a) = p
<1>1. BaseSize \in Nat \ {0}
  BY Bases
<1>2. PICK q \in Nat : q = p \div BaseSize
  BY <1>1, DivMod
<1>3. p = q * BaseSize + (p % BaseSize)
  BY <1>1, <1>2, DivMod
<1>4. a.curr = q + 1 /\ (q + 1) - 1 = q
  BY <1>2 DEF BlockAt
<1> QED
  BY <1>3, <1>4 DEF Address

(* Not at the end of a block, not at the end of the last one.              *)
LEMMA BelowCapacity ==
    ASSUME NEW a, Good(a), NEW e \in Nat, e <= a.capacity, e % BaseSize # 0
    PROVE  e < a.capacity
<1>1. a.capacity \in Nat /\ a.capacity % BaseSize = 0
  BY GoodTypes DEF Good
<1>2. e # a.capacity
  BY <1>1
<1> QED
  BY <1>1, <1>2

LEMMA WriteEmpty ==
    ASSUME NEW a, Good(a), NEW junk
    PROVE  write(a, <<>>, junk) = a /\ IsWritten(a, a, <<>>)
<1>1. write(a, <<>>, junk) = a
  BY DEF write
<1>2. a.position \in Nat /\ a.size \in Nat /\ a.position <= a.size
  BY GoodTypes
<1> QED
  BY <1>1, <1>2 DEF IsWritten

LEMMA WriteBytes ==
    ASSUME NEW a, Good(a), NEW text \in Seq(Byte), NEW junk \in Byte,
           Ends(a, Len(text))
    PROVE  IsWritten(write(a, text, junk), a, text)
<1>1. CASE text = <<>>
  <2>1. write(a, text, junk) = a
    BY <1>1, WriteEmpty
  <2>2. IsWritten(a, a, text)
    BY <1>1, WriteEmpty
  <2> QED
    BY <2>1, <2>2
<1>2. CASE text # <<>>
  <2>1. PICK n \in Nat \ {0} : n = Len(text)
    BY <1>2, EmptySeq
  <2>2. PICK g : g = addCapacity(a, n, junk) /\ IsGrown(g, a, n)
    BY Grown
  <2>3. Good(g) /\ g.position = a.position /\ g.size = a.size /\ g.endian = a.endian
    BY <2>2 DEF IsGrown
  <2>4. PICK pos \in Nat, size \in Nat, cap \in Nat :
            /\ pos = g.position /\ size = g.size /\ cap = g.capacity
            /\ Len(g.mem) = cap /\ Address(g) = pos /\ pos <= size /\ size < cap
    BY <2>3, GoodTypes
  <2>5. pos = a.position /\ size = a.size /\ pos + n <= cap
    BY <2>2, <2>3, <2>4 DEF IsGrown
  <2>6. PICK e \in Nat : e = pos + n
    OBVIOUS
  <2>7. e < cap
    <3>1. (a.position + n) % BaseSize # 0
      BY <2>1 DEF Ends
    <3>2. e % BaseSize # 0 /\ e <= cap
      BY <2>5, <2>6, <3>1
    <3> QED
      BY <2>3, <2>4, <3>2, BelowCapacity
  <2>8. PICK mem : mem = Stored(g, text) /\ IsStored(mem, g.mem, pos, text)
    <3>1. g.position + Len(text) <= Len(g.mem)
      BY <2>1, <2>4, <2>5
    <3> QED
      BY <2>3, <2>4, <3>1, StoredBytes
  <2>9. PICK top \in Nat : top = (IF e > size THEN e ELSE size) /\ top = Max({size, e})
    <3>1. Max({size, e}) = IF size >= e THEN size ELSE e
      BY MinMaxOfTwo
    <3> QED
      BY <3>1
  <2>10. PICK c : c = [g EXCEPT !.mem = mem, !.curr = BlockAt(e),
                                !.position = e, !.size = top]
    OBVIOUS
  <2>11. write(a, text, junk) = c
    <3>1. Address(g) + Len(text) = e /\ ~(e > Len(g.mem)) /\ g.position + Len(text) = e
      BY <2>1, <2>4, <2>6, <2>7
    <3>2. write(a, text, junk) =
              [g EXCEPT !.mem = Stored(g, text), !.curr = BlockAt(e),
                        !.position = g.position + Len(text),
                        !.size = Max({g.size, g.position + Len(text)})]
      BY <1>2, <2>1, <2>2, <3>1 DEF write
    <3> QED
      BY <2>4, <2>8, <2>9, <2>10, <3>1, <3>2
  <2>12. g \in ArrayType /\ g.crashed = FALSE
    BY <2>3 DEF Good, ArrayType
  <2>13. /\ c.mem = mem /\ c.curr = BlockAt(e) /\ c.position = e /\ c.size = top
         /\ c.endian = g.endian /\ c.capacity = cap /\ c.crashed = FALSE
    BY <2>4, <2>10, <2>12 DEF ArrayType
  <2>14. c.curr \in Nat /\ Address(c) = e
    BY <2>13, AddressOf
  <2>15. c \in ArrayType
    <3>1. mem \in Seq(Byte) /\ BlockAt(e) \in Nat
      BY <2>8, <2>13, <2>14 DEF IsStored
    <3> QED
      BY <2>10, <2>12, <3>1 DEF ArrayType
  <2>16. Good(c)
    <3>1. Len(mem) = cap
      BY <2>4, <2>8 DEF IsStored
    <3>2. e <= top /\ top < cap
      BY <2>4, <2>7, <2>9
    <3>3. cap % BaseSize = 0
      BY <2>3, <2>4 DEF Good
    <3> QED
      BY <2>13, <2>14, <2>15, <3>1, <3>2, <3>3 DEF Good
  <2>17. \A i \in 1 .. Len(text) : c.mem[a.position + i] = text[i]
    BY <2>5, <2>8, <2>13 DEF IsStored
  <2>18. ASSUME NEW i \in 1 .. a.size,
                i \notin a.position + 1 .. a.position + Len(text)
         PROVE  c.mem[i] = a.mem[i]
    <3>1. a.size < a.capacity /\ a.capacity \in Nat /\ a.size \in Nat
      BY GoodTypes
    <3>2. i \in 1 .. a.capacity /\ i \in 1 .. Len(g.mem)
      BY <2>4, <2>5, <3>1
    <3>3. c.mem[i] = g.mem[i]
      BY <2>5, <2>8, <2>13, <2>18, <3>2 DEF IsStored
    <3>4. g.mem[i] = a.mem[i]
      BY <2>2, <3>2 DEF IsGrown
    <3> QED
      BY <3>3, <3>4
  <2>19. IsWritten(c, a, text)
    <3>1. c.position = a.position + Len(text)
      BY <2>1, <2>5, <2>6, <2>13
    <3>2. c.size = IF c.position > a.size THEN c.position ELSE a.size
      BY <2>5, <2>9, <2>13
    <3> QED
      BY <2>3, <2>13, <2>16, <2>17, <2>18, <3>1, <3>2 DEF IsWritten
  <2> QED
    BY <2>11, <2>19
<1> QED
  BY <1>1, <1>2

(* Two writes are one.                                                     *)
LEMMA WriteTwice ==
    ASSUME NEW a, Good(a), NEW c, NEW d, NEW s \in Seq(Byte), NEW t \in Seq(Byte),
           IsWritten(c, a, s), IsWritten(d, c, t)
    PROVE  IsWritten(d, a, s \o t)
<1>1. PICK u \in Seq(Byte) : u = s \o t /\ IsJoin(u, s, t)
  BY Joined
<1>2. PICK n \in Nat, m \in Nat : n = Len(s) /\ m = Len(t) /\ Len(u) = n + m
  BY <1>1 DEF IsJoin
<1>3. PICK pos \in Nat, size \in Nat :
          pos = a.position /\ size = a.size /\ pos <= size
  BY GoodTypes
<1>4. PICK cs \in Nat : c.size = cs /\ c.position = pos + n
  <2>1. Good(c)
    BY DEF IsWritten
  <2> QED
    BY <1>2, <1>3, <2>1, GoodTypes DEF IsWritten
<1>5. cs = IF pos + n > size THEN pos + n ELSE size
  BY <1>3, <1>4 DEF IsWritten
<1>6. d.position = (pos + n) + m
  BY <1>2, <1>4 DEF IsWritten
<1>7. d.size = IF (pos + n) + m > cs THEN (pos + n) + m ELSE cs
  BY <1>4, <1>6 DEF IsWritten
<1>8. /\ d.position = a.position + Len(u)
      /\ d.size = IF d.position > a.size THEN d.position ELSE a.size
  <2>1. PICK dp \in Nat : dp = (pos + n) + m
    OBVIOUS
  <2>2. pos + (n + m) = dp
    BY <2>1
  <2>3. d.position = a.position + Len(u)
    BY <1>2, <1>3, <1>6, <2>1, <2>2, Zenon
  <2>4. (IF dp > cs THEN dp ELSE cs) = IF dp > size THEN dp ELSE size
    BY <1>3, <1>5, <2>1, SMTT(30)
  <2>5. d.size = IF dp > size THEN dp ELSE size
    BY <1>7, <2>1, <2>4, Zenon
  <2>6. d.position = dp /\ a.size = size
    BY <1>3, <1>6, <2>1, Zenon
  <2> QED
    BY <2>3, <2>5, <2>6, Zenon
<1>9. ASSUME NEW i \in 1 .. Len(u) PROVE d.mem[a.position + i] = u[i]
  <2>1. CASE i <= n
    <3>1. i \in 1 .. Len(s) /\ pos + i \in 1 .. cs
          /\ pos + i \notin (pos + n) + 1 .. (pos + n) + m
      BY <1>2, <1>5, <2>1
    <3>2. d.mem[pos + i] = c.mem[pos + i]
      BY <1>2, <1>4, <3>1 DEF IsWritten
    <3>3. c.mem[pos + i] = s[i]
      BY <1>3, <3>1 DEF IsWritten
    <3>4. u[i] = s[i]
      BY <1>1, <3>1 DEF IsJoin
    <3> QED
      BY <1>3, <3>2, <3>3, <3>4
  <2>2. CASE ~(i <= n)
    <3>1. PICK j \in 1 .. m : i = n + j
      <4>1. i - n \in 1 .. m /\ i = n + (i - n)
        BY <1>2, <2>2
      <4> QED
        BY <4>1
    <3>2. d.mem[(pos + n) + j] = t[j]
      BY <1>2, <1>4 DEF IsWritten
    <3>3. u[n + j] = t[j]
      BY <1>1, <1>2 DEF IsJoin
    <3>4. a.position + i = (pos + n) + j
      BY <1>3, <3>1
    <3> QED
      BY <3>1, <3>2, <3>3, <3>4
  <2> QED
    BY <2>1, <2>2
<1>10. ASSUME NEW i \in 1 .. a.size, i \notin a.position + 1 .. a.position + Len(u)
       PROVE  d.mem[i] = a.mem[i]
  <2>1. /\ i \in 1 .. cs
        /\ i \notin (pos + n) + 1 .. (pos + n) + m
        /\ i \notin pos + 1 .. pos + n
    <3>1. i \in 1 .. size /\ i \notin pos + 1 .. pos + (n + m)
      BY <1>2, <1>3, <1>10, Zenon
    <3> QED
      BY <1>5, <3>1
  <2>2. d.mem[i] = c.mem[i]
    BY <1>2, <1>4, <2>1 DEF IsWritten
  <2>3. c.mem[i] = a.mem[i]
    BY <1>2, <1>3, <2>1 DEF IsWritten
  <2> QED
    BY <2>2, <2>3
<1>11. Good(d) /\ d.endian = a.endian
  BY DEF IsWritten
<1>12. IsWritten(d, a, u)
  BY <1>8, <1>9, <1>10, <1>11 DEF IsWritten
<1> QED
  BY <1>1, <1>12

(* The data of an array: what FlatBytes has.                               *)
Data(a) == SubSeq(a.mem, 1, a.size)

LEMMA DataBytes ==
    ASSUME NEW a, Good(a)
    PROVE  /\ Data(a) \in Seq(Byte) /\ Len(Data(a)) = a.size
           /\ \A i \in 1 .. a.size : Data(a)[i] = a.mem[i]
<1>1. PICK s \in Seq(Byte), zero \in Nat, n \in Nat :
          s = a.mem /\ zero = 0 /\ n = a.size /\ zero + n <= Len(s)
  <2>1. /\ a.mem \in Seq(Byte) /\ a.size \in Nat /\ a.capacity \in Nat
        /\ Len(a.mem) = a.capacity /\ a.size < a.capacity
    BY GoodTypes
  <2>2. 0 + a.size <= Len(a.mem)
    BY <2>1
  <2> QED
    BY <2>1, <2>2
<1>2. PICK part \in Seq(Byte) :
          part = SubSeq(s, zero + 1, zero + n) /\ IsPart(part, s, zero, n)
  BY <1>1, Part
<1>3. zero + 1 = 1 /\ zero + n = n /\ \A i \in 1 .. n : zero + i = i
  BY <1>1
<1>4. part = Data(a)
  BY <1>1, <1>2, <1>3 DEF Data
<1> QED
  BY <1>1, <1>2, <1>3, <1>4 DEF IsPart

(* The bytes from the position on are the same of the array and its data.  *)
LEMMA BytesOfData ==
    ASSUME NEW a, Good(a), NEW n \in Nat, n <= getReadableSize(a)
    PROVE  /\ Bytes(a, n) \in Seq(Byte)
           /\ IsPart(Bytes(a, n), a.mem, a.position, n)
           /\ Bytes(a, n) = SubSeq(Data(a), a.position + 1, a.position + n)
<1>1. PICK s \in Seq(Byte), data \in Seq(Byte), k \in Nat :
          /\ s = a.mem /\ k = a.position /\ data = Data(a) /\ Address(a) = k
          /\ k + n <= Len(s) /\ k + n <= Len(data)
          /\ \A i \in 1 .. Len(data) : data[i] = s[i]
  <2>1. /\ a.mem \in Seq(Byte) /\ a.size \in Nat /\ a.capacity \in Nat
        /\ Len(a.mem) = a.capacity /\ a.size < a.capacity /\ a.position \in Nat
        /\ Address(a) = a.position /\ a.position <= a.size
    BY GoodTypes
  <2>2. a.position + n <= a.size
    BY <2>1 DEF getReadableSize
  <2>3. /\ Data(a) \in Seq(Byte) /\ Len(Data(a)) = a.size
        /\ \A i \in 1 .. a.size : Data(a)[i] = a.mem[i]
    BY DataBytes
  <2>4. a.position + n <= a.capacity
    BY <2>1, <2>2
  <2> QED
    BY <2>1, <2>2, <2>3, <2>4
<1>2. PICK p \in Seq(Byte) :
          p = SubSeq(s, k + 1, k + n) /\ IsPart(p, s, k, n)
  BY <1>1, Part
<1>3. PICK q \in Seq(Byte) :
          q = SubSeq(data, k + 1, k + n) /\ IsPart(q, data, k, n)
  BY <1>1, Part
<1>4. \A i \in 1 .. n : k + i \in 1 .. Len(data)
  BY <1>1
<1>5. p = q
  <2>1. Len(p) = n /\ Len(q) = n
    BY <1>2, <1>3 DEF IsPart
  <2>2. ASSUME NEW i \in 1 .. n PROVE p[i] = q[i]
    <3>1. p[i] = s[k + i]
      BY <1>2 DEF IsPart
    <3>2. q[i] = data[k + i]
      BY <1>3 DEF IsPart
    <3>3. data[k + i] = s[k + i]
      BY <1>1, <1>4
    <3> QED
      BY <3>1, <3>2, <3>3
  <2> QED
    BY <2>1, <2>2, SeqEqual
<1>6. Bytes(a, n) = p
  BY <1>1, <1>2 DEF Bytes
<1> QED
  BY <1>1, <1>2, <1>3, <1>5, <1>6

(* The same data at another position.                                      *)
IsMoved(c, a, pos) ==
    /\ Good(c)
    /\ c.position = pos
    /\ c.mem = a.mem /\ c.size = a.size /\ c.endian = a.endian

LEMMA Moved ==
    ASSUME NEW a, Good(a), NEW pos \in Nat, pos <= a.size
    PROVE  IsMoved([a EXCEPT !.curr = BlockAt(pos), !.position = pos], a, pos)
<1>1. PICK c : c = [a EXCEPT !.curr = BlockAt(pos), !.position = pos]
  OBVIOUS
<1>2. a \in ArrayType /\ a.crashed = FALSE
  BY DEF Good, ArrayType
<1>3. /\ c.mem = a.mem /\ c.curr = BlockAt(pos) /\ c.position = pos
      /\ c.size = a.size /\ c.endian = a.endian /\ c.capacity = a.capacity
      /\ c.crashed = FALSE
  BY <1>1, <1>2 DEF ArrayType
<1>4. BlockAt(pos) \in Nat /\ Address(c) = pos
  <2>1. c.curr \in Nat
    BY <1>3, AddressOf
  <2>2. Address(c) = pos
    BY <1>3, AddressOf
  <2> QED
    BY <1>3, <2>1, <2>2, Zenon
<1>5. c \in ArrayType
  BY <1>1, <1>2, <1>4 DEF ArrayType
<1>6. Len(a.mem) = a.capacity /\ a.capacity % BaseSize = 0 /\ a.size < a.capacity
  BY DEF Good
<1>7. Good(c)
  BY <1>3, <1>4, <1>5, <1>6 DEF Good
<1> QED
  BY <1>1, <1>3, <1>7 DEF IsMoved

LEMMA ReadBytes ==
    ASSUME NEW a, Good(a), NEW n \in Nat, n <= getReadableSize(a)
    PROVE  IsMoved(read(a, n), a, a.position + n)
<1>1. PICK pos \in Nat, size \in Nat, cap \in Nat :
          /\ pos = a.position /\ size = a.size /\ cap = Len(a.mem)
          /\ Address(a) = pos /\ pos <= size /\ size < cap
  <2>1. /\ a.size \in Nat /\ a.capacity \in Nat
        /\ Len(a.mem) = a.capacity /\ a.size < a.capacity /\ a.position \in Nat
        /\ Address(a) = a.position /\ a.position <= a.size
    BY GoodTypes
  <2> QED
    BY <2>1
<1>2. PICK e \in Nat : e = pos + n /\ e <= size
  BY <1>1 DEF getReadableSize
<1>3. ~IsNull(a)
  BY GoodBlocks
<1>4. ~(IsNull(a) \/ Address(a) + n > Len(a.mem))
  BY <1>1, <1>2, <1>3
<1>5. CASE n = 0
  <2>1. read(a, n) = [a EXCEPT !.curr = a.curr, !.position = e]
    BY <1>1, <1>2, <1>4, <1>5 DEF read
  <2>2. [a EXCEPT !.curr = a.curr, !.position = e] = a
    <3>1. e = a.position
      BY <1>1, <1>2, <1>5
    <3>2. a \in ArrayType
      BY DEF Good
    <3> QED
      BY <3>1, <3>2 DEF ArrayType
  <2> QED
    BY <1>1, <1>2, <1>5, <2>1, <2>2 DEF IsMoved
<1>6. CASE n # 0
  <2>1. read(a, n) = [a EXCEPT !.curr = BlockAt(e), !.position = e]
    BY <1>1, <1>2, <1>4, <1>6 DEF read
  <2>2. IsMoved([a EXCEPT !.curr = BlockAt(e), !.position = e], a, e)
    BY <1>1, <1>2, Moved
  <2> QED
    BY <1>1, <1>2, <2>1, <2>2
<1> QED
  BY <1>5, <1>6

(* From the first block every position is found.                           *)
LEMMA PositionSet ==
    ASSUME NEW a, Good(a), a.curr = 1, NEW pos \in Nat, pos <= a.size
    PROVE  IsMoved(setPosition(a, pos), a, pos)
<1>1. PICK c : c = [a EXCEPT !.curr = BlockAt(pos), !.position = pos]
  OBVIOUS
<1>2. IsMoved(c, a, pos)
  BY <1>1, Moved
<1>3. BlockAt(pos) = 1 + (pos \div BaseSize)
  <2>1. pos \div BaseSize \in Nat
    BY Bases, DivMod
  <2> QED
    BY <2>1 DEF BlockAt
<1>4. ~(a.curr + (pos \div BaseSize) > Blocks(a))
  <2>1. Good(c) /\ c.mem = a.mem
    BY <1>2 DEF IsMoved
  <2>2. ~IsNull(c) /\ Blocks(c) = Blocks(a)
    BY <2>1, GoodBlocks DEF Blocks
  <2>3. c.curr = BlockAt(pos)
    BY <1>1 DEF Good, ArrayType
  <2> QED
    BY <1>3, <2>2, <2>3 DEF IsNull
<1>5. setPosition(a, pos) = c
  BY <1>1, <1>3, <1>4 DEF setPosition
<1> QED
  BY <1>2, <1>5

LEMMA Cleared ==
    ASSUME NEW a, Good(a)
    PROVE  /\ Good(clear(a)) /\ clear(a).position = 0 /\ clear(a).size = 0
           /\ clear(a).endian = a.endian
<1>1. PICK c : c = clear(a)
  OBVIOUS
<1>2. PICK base \in Nat \ {0}, s \in Seq(Byte), zero \in Nat :
          base = BaseSize /\ s = a.mem /\ zero = 0 /\ zero + base <= Len(s)
  <2>1. a.mem \in Seq(Byte) /\ Len(a.mem) = a.capacity
    BY GoodTypes
  <2>2. a.capacity >= BaseSize
    BY GoodBlocks
  <2> QED
    BY <2>1, <2>2, Bases
<1>3. PICK part \in Seq(Byte) :
          part = SubSeq(s, zero + 1, zero + base) /\ IsPart(part, s, zero, base)
  BY <1>2, Part
<1>4. part = SubSeq(a.mem, 1, BaseSize) /\ Len(part) = BaseSize
  BY <1>2, <1>3 DEF IsPart
<1>5. a \in ArrayType /\ a.crashed = FALSE
  BY DEF Good, ArrayType
<1>6. /\ c.mem = part /\ c.curr = 1 /\ c.position = 0 /\ c.size = 0
      /\ c.endian = a.endian /\ c.capacity = BaseSize /\ c.crashed = FALSE
  BY <1>1, <1>4, <1>5 DEF clear, ArrayType
<1>7. c \in ArrayType
  BY <1>1, <1>4, <1>5, Bases DEF clear, ArrayType
<1>8. Address(c) = 0
  BY <1>6, Bases DEF Address
<1>9. BaseSize % BaseSize = 0 /\ 0 < BaseSize /\ 0 <= 0
  <2>1. (1 * BaseSize + 0) % BaseSize = 0
    BY Bases, DivModUnique
  <2> QED
    BY <2>1, Bases
<1>10. Good(c)
  BY <1>4, <1>6, <1>7, <1>8, <1>9 DEF Good
<1> QED
  BY <1>1, <1>6, <1>10

LEMMA EndianSet ==
    ASSUME NEW a, Good(a), NEW e \in Endian
    PROVE  /\ Good([a EXCEPT !.endian = e])
           /\ [a EXCEPT !.endian = e].mem = a.mem
           /\ [a EXCEPT !.endian = e].size = a.size
           /\ [a EXCEPT !.endian = e].position = a.position
<1>1. PICK c : c = [a EXCEPT !.endian = e]
  OBVIOUS
<1>2. a \in ArrayType
  BY DEF Good
<1>3. /\ c \in ArrayType /\ c.mem = a.mem /\ c.curr = a.curr
      /\ c.position = a.position /\ c.size = a.size
      /\ c.capacity = a.capacity /\ c.crashed = a.crashed
  BY <1>1, <1>2 DEF ArrayType
<1>4. Address(c) = Address(a)
  BY <1>3 DEF Address
<1>5. Good(c)
  BY <1>3, <1>4 DEF Good
<1> QED
  BY <1>1, <1>3, <1>5

LEMMA Peeked ==
    ASSUME NEW a, Good(a), NEW n \in Nat, n <= getReadableSize(a)
    PROVE  peek(a, n) = a
<1>1. /\ a.size \in Nat /\ a.capacity \in Nat
      /\ Len(a.mem) = a.capacity /\ a.size < a.capacity /\ a.position \in Nat
      /\ Address(a) = a.position /\ a.position <= a.size
  BY GoodTypes
<1>2. ~(Address(a) + n > Len(a.mem))
  BY <1>1 DEF getReadableSize
<1>3. ~IsNull(a)
  BY GoodBlocks
<1> QED
  BY <1>2, <1>3 DEF peek

(* Bytes received behind the data, at the position.                        *)
IsReceived(c, a, n, text) ==
    /\ Good(c)
    /\ \A i \in 1 .. Len(text) : c.mem[a.position + i] = text[i]
    /\ c.position = a.position /\ c.size = a.size + n /\ c.endian = a.endian
    /\ \A i \in 1 .. a.size : c.mem[i] = a.mem[i]

LEMMA Received ==
    ASSUME NEW a, Good(a), a.position = a.size, NEW n \in Nat \ {0},
           NEW text \in Seq(Byte), Len(text) <= n, NEW junk \in Byte, Ends(a, n)
    PROVE  IsReceived(addWriteBuffers(a, n, text, junk), a, n, text)
<1>1. PICK g : g = addCapacity(a, n, junk) /\ IsGrown(g, a, n)
  BY Grown
<1>2. Good(g) /\ g.position = a.position /\ g.size = a.size /\ g.endian = a.endian
  BY <1>1 DEF IsGrown
<1>3. PICK pos \in Nat, cap \in Nat :
          /\ pos = g.position /\ pos = g.size /\ cap = g.capacity
          /\ Len(g.mem) = cap /\ Address(g) = pos /\ pos < cap
  <2>1. /\ g.size \in Nat /\ g.capacity \in Nat
        /\ Len(g.mem) = g.capacity /\ g.size < g.capacity /\ g.position \in Nat
        /\ Address(g) = g.position
    BY <1>2, GoodTypes
  <2> QED
    BY <1>2, <2>1
<1>4. pos = a.position /\ pos = a.size /\ pos + n <= cap
  BY <1>1, <1>2, <1>3 DEF IsGrown
<1>5. PICK e \in Nat : e = pos + n
  OBVIOUS
<1>6. e < cap
  <2>1. (a.position + n) % BaseSize # 0
    BY DEF Ends
  <2>2. e % BaseSize # 0 /\ e <= cap
    BY <1>4, <1>5, <2>1
  <2> QED
    BY <1>2, <1>3, <2>2, BelowCapacity
<1>7. PICK mem : mem = Stored(g, text) /\ IsStored(mem, g.mem, pos, text)
  <2>1. Len(text) \in Nat
    OBVIOUS
  <2>2. pos + Len(text) <= cap
    BY <1>4, <2>1
  <2>3. g.position + Len(text) <= Len(g.mem)
    BY <1>3, <2>2, Zenon
  <2> QED
    BY <1>2, <1>3, <2>3, StoredBytes
<1>8. PICK c : c = [g EXCEPT !.mem = mem, !.size = e]
  OBVIOUS
<1>9. addWriteBuffers(a, n, text, junk) = c
  <2>1. ~IsNull(g)
    BY <1>2, GoodBlocks
  <2>2. ~(IsNull(g) \/ Address(g) + n >= Len(g.mem))
    BY <1>3, <1>5, <1>6, <2>1
  <2>3. addWriteBuffers(a, n, text, junk) =
            [g EXCEPT !.mem = Stored(g, text), !.size = g.size + n]
    BY <1>1, <2>2 DEF addWriteBuffers
  <2> QED
    BY <1>3, <1>5, <1>7, <1>8, <2>3
<1>10. g \in ArrayType /\ g.crashed = FALSE /\ cap % BaseSize = 0
  BY <1>2, <1>3 DEF Good, ArrayType
<1>11. /\ c.mem = mem /\ c.curr = g.curr /\ c.position = pos /\ c.size = e
       /\ c.endian = g.endian /\ c.capacity = cap /\ c.crashed = FALSE
  BY <1>3, <1>8, <1>10 DEF ArrayType
<1>12. Address(c) = pos
  BY <1>3, <1>11 DEF Address
<1>13. mem \in Seq(Byte) /\ Len(mem) = cap
  BY <1>3, <1>7 DEF IsStored
<1>14. c \in ArrayType
  BY <1>8, <1>10, <1>13 DEF ArrayType
<1>15. Good(c)
  <2>1. pos <= e
    BY <1>5
  <2> QED
    BY <1>6, <1>10, <1>11, <1>12, <1>13, <1>14, <2>1 DEF Good
<1>16. ASSUME NEW i \in 1 .. a.size PROVE c.mem[i] = a.mem[i]
  <2>1. i \in 1 .. pos
    BY <1>4
  <2>2. i \in 1 .. cap /\ i \notin pos + 1 .. pos + Len(text)
    BY <1>3, <2>1
  <2>3. c.mem[i] = g.mem[i]
    BY <1>3, <1>7, <1>11, <2>2 DEF IsStored
  <2>4. a.size < a.capacity /\ a.size \in Nat /\ a.capacity \in Nat
    BY GoodTypes
  <2>5. i \in 1 .. a.capacity
    BY <2>4
  <2>6. g.mem[i] = a.mem[i]
    BY <1>1, <2>5 DEF IsGrown
  <2> QED
    BY <2>3, <2>6
<1>17. IsReceived(c, a, n, text)
  <2>1. c.position = a.position /\ c.size = a.size + n /\ c.endian = a.endian
    BY <1>2, <1>4, <1>5, <1>11
  <2>2. \A i \in 1 .. Len(text) : c.mem[a.position + i] = text[i]
    BY <1>4, <1>7, <1>11 DEF IsStored
  <2> QED
    BY <1>15, <1>16, <2>1, <2>2 DEF IsReceived
<1> QED
  BY <1>9, <1>17

(* A file of at most a block is one write.                                 *)
LEMMA FileRead ==
    ASSUME NEW a, Good(a), NEW text \in Seq(Byte), Len(text) <= BaseSize,
           NEW junk \in Byte, Ends(a, Len(text))
    PROVE  IsWritten(readFromFile(a, text, junk), a, text)
<1>1. PICK n \in Nat, base \in Nat \ {0}, zero \in Nat :
          n = Len(text) /\ base = BaseSize /\ n <= base /\ zero = 0
  BY Bases
<1>2. SubSeq(text, base + 1, n) = <<>>
  <2>1. base + 1 > n
    BY <1>1
  <2> QED
    BY <1>1, <2>1, SubSeqEmpty
<1>3. Min({n, base}) = n
  BY <1>1, MinMaxOfTwo
<1>4. SubSeq(text, 1, n) = text
  BY <1>1, SubSeqFull
<1>5. PICK c : c = write(a, text, junk)
  OBVIOUS
<1>6. IsWritten(c, a, text)
  BY <1>5, WriteBytes
<1>7. readFromFile(a, text, junk) = write(c, <<>>, junk)
  BY <1>1, <1>2, <1>3, <1>4, <1>5 DEF readFromFile
<1>8. write(c, <<>>, junk) = c
  BY DEF write
<1> QED
  BY <1>6, <1>7, <1>8

(* How many bytes the item at the position takes.                          *)
LEMMA LengthType ==
    ASSUME NEW a, NEW kind \in Kinds, NEW text \in Seq(Byte)
    PROVE  /\ LengthOf(a, kind, text) \in Nat
           /\ kind = "string" => LengthOf(a, kind, text) >= LenWidth
<1>0. LenWidth \in Nat \ {0}
  BY UseAssumption DEF UseAssumption
<1>1. CASE kind \in {"fint", "fuint"}
  BY <1>1 DEF LengthOf
<1>2. CASE kind \in {"int", "uint64"}
  <2>1. VarintLen(text) \in 1 .. Groups32
    BY VarintLenFacts
  <2>2. VarintLen(text) \in Nat
    BY <2>1, Bases
  <2> QED
    BY <1>2, <2>2 DEF LengthOf
<1>3. CASE kind = "string"
  <2>1. CASE Len(text) < LenWidth
    BY <1>0, <1>3, <2>1 DEF LengthOf
  <2>2. CASE ~(Len(text) < LenWidth)
    <3>1. PICK head \in Seq(Byte) : head = SubSeq(text, 1, LenWidth)
      <4>1. PICK zero \in Nat, w \in Nat :
                zero = 0 /\ w = LenWidth /\ zero + w <= Len(text)
        <5>1. Len(text) \in Nat
          OBVIOUS
        <5>2. 0 + LenWidth <= Len(text)
          BY <1>0, <2>2, <5>1
        <5> QED
          BY <1>0, <5>2
      <4>2. SubSeq(text, zero + 1, zero + w) \in Seq(Byte)
        BY <4>1, Part
      <4>3. zero + 1 = 1 /\ zero + w = LenWidth
        BY <4>1
      <4> QED
        BY <4>2, <4>3
    <3>2. Swapped(a, head, FALSE) \in Seq(Byte)
      BY SwappedBack
    <3>3. PICK v \in Nat : v = Unfixed(Swapped(a, head, FALSE))
      BY <3>2, UnfixedType
    <3>4. LengthOf(a, kind, text) = LenWidth + v
      BY <1>3, <2>2, <3>1, <3>3 DEF LengthOf
    <3> QED
      BY <1>0, <3>4
  <2> QED
    BY <2>1, <2>2
<1> QED
  BY <1>1, <1>2, <1>3 DEF Kinds

(* writeToFile after m bytes, a block of it, and how many bytes i blocks   *)
(* are, if the position is the beginning of one.                           *)
FileAfter(a, m) ==
    [pos |-> a.position + m, left |-> getReadableSize(a) - m,
     text |-> SubSeq(a.mem, a.position + 1, a.position + m), crashed |-> FALSE]
FileStep(a, w, i) ==
    LET npos == w.pos % BaseSize
        len == Min({w.left, BaseSize}) - npos
        start == (a.curr + i - 2) * BaseSize + npos
    IN  CASE w.crashed \/ w.left <= 0 -> w
          [] ~(w.crashed \/ w.left <= 0) /\ a.curr + i - 1 > Blocks(a) ->
               [w EXCEPT !.crashed = TRUE]
          [] OTHER -> [w EXCEPT !.pos = @ + len, !.left = @ - len,
                                !.text = @ \o SubSeq(a.mem, start + 1, start + len)]
InBlocks(left, i) == IF i * BaseSize <= left THEN i * BaseSize ELSE left

LEMMA NextBlock ==
    ASSUME NEW left \in Nat, NEW j \in Nat
    PROVE  /\ InBlocks(left, j) \in 0 .. left
           /\ InBlocks(left, j) = left => InBlocks(left, j + 1) = left
           /\ InBlocks(left, j) # left =>
                 /\ InBlocks(left, j) = j * BaseSize
                 /\ InBlocks(left, j + 1) = InBlocks(left, j) +
                        IF left - InBlocks(left, j) <= BaseSize
                        THEN left - InBlocks(left, j) ELSE BaseSize
<1>1. PICK base \in Nat \ {0} : base = BaseSize
  BY Bases
<1>2. PICK x \in Nat : x = j * base
  OBVIOUS
<1>3. (j + 1) * base = x + base
  BY <1>2
<1>4. InBlocks(left, j) = IF x <= left THEN x ELSE left
  BY <1>1, <1>2 DEF InBlocks
<1>5. InBlocks(left, j + 1) = IF x + base <= left THEN x + base ELSE left
  BY <1>1, <1>3 DEF InBlocks
<1>6. CASE x <= left
  BY <1>1, <1>2, <1>4, <1>5, <1>6
<1>7. CASE ~(x <= left)
  BY <1>4, <1>5, <1>7
<1> QED
  BY <1>6, <1>7

LEMMA FileBlock ==
    ASSUME NEW a, Good(a), a.position % BaseSize = 0, NEW left \in Nat,
           left = getReadableSize(a), NEW j \in Nat
    PROVE  FileStep(a, FileAfter(a, InBlocks(left, j)), j + 1) =
               FileAfter(a, InBlocks(left, j + 1))
<1>1. PICK base \in Nat \ {0} : base = BaseSize
  BY Bases
<1>2. PICK pos \in Nat, size \in Nat, cap \in Nat, c \in Nat, k \in Nat :
          /\ pos = a.position /\ size = a.size /\ cap = a.capacity /\ c = a.curr
          /\ pos <= size /\ size < cap /\ Address(a) = pos /\ Len(a.mem) = cap
          /\ k = Blocks(a) /\ k * base = cap /\ a.mem \in Seq(Byte)
  <2>1. /\ a.mem \in Seq(Byte) /\ a.size \in Nat /\ a.capacity \in Nat
        /\ Len(a.mem) = a.capacity /\ a.size < a.capacity /\ a.position \in Nat
        /\ Address(a) = a.position /\ a.position <= a.size /\ a.curr \in Nat
    BY GoodTypes
  <2>2. Blocks(a) \in Nat /\ Blocks(a) * BaseSize = a.capacity
    BY GoodBlocks
  <2> QED
    BY <1>1, <2>1, <2>2
<1>3. left = size - pos /\ pos <= size /\ size < cap /\ cap = k * base
  BY <1>2 DEF getReadableSize
<1>4. PICK m \in 0 .. left : m = InBlocks(left, j)
  BY NextBlock
<1>5. PICK w : w = FileAfter(a, m)
  OBVIOUS
<1>6. /\ w = [pos |-> pos + m, left |-> left - m,
              text |-> SubSeq(a.mem, pos + 1, pos + m), crashed |-> FALSE]
      /\ w.pos = pos + m /\ w.left = left - m /\ w.crashed = FALSE
      /\ w.text = SubSeq(a.mem, pos + 1, pos + m)
  BY <1>2, <1>5 DEF FileAfter
<1>7. CASE m = left
  <2>1. w.left <= 0
    BY <1>6, <1>7
  <2>2. FileStep(a, w, j + 1) = w
    BY <2>1 DEF FileStep
  <2>3. InBlocks(left, j + 1) = m
    <3>1. InBlocks(left, j) = left => InBlocks(left, j + 1) = left
      BY NextBlock
    <3> QED
      BY <1>4, <1>7, <3>1
  <2> QED
    BY <1>4, <1>5, <2>2, <2>3
<1>8. CASE m # left
  <2>1. m = j * base
    BY <1>1, <1>4, <1>8, NextBlock
  <2>2. PICK len \in Nat \ {0} :
            /\ len = IF left - m <= base THEN left - m ELSE base
            /\ InBlocks(left, j + 1) = m + len
    <3>1. InBlocks(left, j + 1) = m + IF left - m <= base THEN left - m ELSE base
      BY <1>1, <1>4, <1>8, NextBlock
    <3>2. (IF left - m <= base THEN left - m ELSE base) \in Nat \ {0}
      BY <1>4, <1>8
    <3> QED
      BY <3>1, <3>2
  <2>3. Min({w.left, BaseSize}) = len
    <3>1. PICK more \in Nat : more = left - m
      BY <1>4
    <3>2. Min({more, base}) = IF more <= base THEN more ELSE base
      BY MinMaxOfTwo
    <3> QED
      BY <1>1, <1>6, <2>2, <3>1, <3>2
  <2>4. (c - 1) * base = pos
    <3>1. (c - 1) * base + (pos % base) = pos /\ pos % base = 0
      BY <1>1, <1>2 DEF Address
    <3>2. (c - 1) * base \in Int
      OBVIOUS
    <3> QED
      BY <3>1, <3>2
  <2>5. (pos + m) % base = 0
    <3>1. PICK q \in Nat : pos = q * base
      <4>1. pos \div base \in Nat
        BY DivMod
      <4>2. pos = (pos \div base) * base + (pos % base)
        BY DivMod
      <4>3. PICK q \in Nat : q = pos \div base
        BY <4>1
      <4>4. q * base \in Nat /\ pos % base = 0
        BY <1>1, <1>2
      <4> QED
        BY <4>2, <4>3, <4>4
    <3>2. PICK r \in Nat : r = q + j
      OBVIOUS
    <3>3. r * base = q * base + j * base
      BY <3>2
    <3>4. (r * base + 0) % base = 0
      BY DivModUnique
    <3>5. r * base + 0 = pos + m
      BY <2>1, <3>1, <3>3
    <3> QED
      BY <3>4, <3>5
  <2>6. w.pos % BaseSize = 0
    BY <1>1, <1>6, <2>5
  <2>7. PICK d \in Nat : d = c + j /\ (d - 1) * base + 0 = pos + m
    <3>1. PICK d \in Nat : d = c + j
      OBVIOUS
    <3>2. (d - 1) * base = (c - 1) * base + j * base
      BY <3>1
    <3> QED
      BY <2>1, <2>4, <3>1, <3>2
  <2>8. d \in 1 .. k
    <3>1. pos + m \in Nat /\ pos + m < k * base /\ 0 \in 0 .. base - 1
      BY <1>3
    <3>2. PICK zero \in 0 .. base - 1, p \in Nat : zero = 0 /\ p = pos + m
      BY <3>1
    <3> QED
      BY <2>7, <3>1, <3>2, BlockNumber
  <2>9. ~(a.curr + (j + 1) - 1 > Blocks(a))
    BY <1>2, <2>7, <2>8
  <2>10. (a.curr + (j + 1) - 2) * BaseSize + 0 = pos + m
    <3>1. a.curr = c
      BY <1>2
    <3>2. c + (j + 1) - 2 = d - 1
      BY <2>7
    <3> QED
      BY <1>1, <2>7, <3>1, <3>2
  <2>11. PICK e \in Nat : e = pos + m
    OBVIOUS
  <2>12. FileStep(a, w, j + 1) =
             [w EXCEPT !.pos = w.pos + len, !.left = w.left - len,
                       !.text = w.text \o SubSeq(a.mem, e + 1, e + len)]
    <3>1. ~(w.crashed \/ w.left <= 0)
      BY <1>4, <1>6, <1>8
    <3>2. Min({w.left, BaseSize}) - (w.pos % BaseSize) = len
      BY <2>3, <2>6
    <3>3. (a.curr + (j + 1) - 2) * BaseSize + (w.pos % BaseSize) = e
      BY <2>6, <2>10, <2>11
    <3> QED
      BY <2>9, <3>1, <3>2, <3>3 DEF FileStep
  <2>13. w.text \o SubSeq(a.mem, e + 1, e + len) =
             SubSeq(a.mem, pos + 1, e + len)
    <3>1. e + len <= cap
      <4>1. m + len <= left
        <5>1. CASE left - m <= base
          BY <2>2, <5>1
        <5>2. CASE ~(left - m <= base)
          BY <2>2, <5>2
        <5> QED
          BY <5>1, <5>2
      <4> QED
        BY <1>3, <2>11, <4>1
    <3>2. PICK s \in Seq(Byte) : s = a.mem /\ Len(s) = cap
      BY <1>2
    <3>3. PICK f \in 1 .. Len(s) + 1, l \in Nat : f = pos + 1 /\ l = e + len
      <4>1. pos + 1 \in 1 .. cap + 1 /\ e + len \in Nat
        BY <1>3
      <4> QED
        BY <3>2, <4>1
    <3>4. e \in f - 1 .. Len(s) /\ l \in e .. Len(s)
      BY <2>11, <3>1, <3>2, <3>3
    <3>5. SubSeq(s, f, e) \o SubSeq(s, e + 1, l) = SubSeq(s, f, l)
      BY <3>4, ConcatAdjacentSubSeq
    <3> QED
      BY <1>6, <2>11, <3>2, <3>3, <3>5
  <2>14. [w EXCEPT !.pos = w.pos + len, !.left = w.left - len,
                   !.text = w.text \o SubSeq(a.mem, e + 1, e + len)] =
             [pos |-> pos + (m + len), left |-> left - (m + len),
              text |-> SubSeq(a.mem, pos + 1, pos + (m + len)), crashed |-> FALSE]
    <3>1. /\ w.pos + len = pos + (m + len) /\ w.left - len = left - (m + len)
          /\ e + len = pos + (m + len)
      <4>1. w.pos = pos + m /\ w.left = left - m
        BY <1>6
      <4> QED
        BY <2>11, <4>1
    <3>2. [w EXCEPT !.pos = w.pos + len, !.left = w.left - len,
                    !.text = w.text \o SubSeq(a.mem, e + 1, e + len)] =
              [pos |-> w.pos + len, left |-> w.left - len,
               text |-> w.text \o SubSeq(a.mem, e + 1, e + len), crashed |-> FALSE]
      <4>1. PICK x, y, z : w = [pos |-> x, left |-> y, text |-> z, crashed |-> FALSE]
        BY <1>6, Zenon
      <4>2. ASSUME NEW xx, NEW yy, NEW zz
            PROVE  [w EXCEPT !.pos = xx, !.left = yy, !.text = zz] =
                       [pos |-> xx, left |-> yy, text |-> zz, crashed |-> FALSE]
        <5>1. PICK u : u = [w EXCEPT !.pos = xx, !.left = yy, !.text = zz]
          OBVIOUS
        <5>2. u \in [pos : {xx}, left : {yy}, text : {zz}, crashed : {FALSE}]
          BY <4>1, <5>1
        <5>3. u = [pos |-> xx, left |-> yy, text |-> zz, crashed |-> FALSE]
          BY <5>2
        <5> QED
          BY <5>1, <5>3, Zenon
      <4> QED
        BY <4>2, Zenon
    <3> QED
      BY <2>13, <3>1, <3>2, Zenon
  <2>15. FileAfter(a, m + len) =
             [pos |-> pos + (m + len), left |-> left - (m + len),
              text |-> SubSeq(a.mem, pos + 1, pos + (m + len)), crashed |-> FALSE]
    BY <1>2, <1>3 DEF FileAfter, getReadableSize
  <2> QED
    BY <1>4, <1>5, <2>2, <2>12, <2>14, <2>15
<1> QED
  BY <1>7, <1>8

(* From the beginning of a block writeToFile writes the data behind the    *)
(* position.                                                               *)
LEMMA FileWritten ==
    ASSUME NEW a, Good(a), a.position % BaseSize = 0
    PROVE  writeToFile(a) = FileAfter(a, getReadableSize(a))
<1>1. PICK pos \in Nat, size \in Nat, k \in Nat, base \in Nat \ {0}, left \in Nat :
          /\ pos = a.position /\ size = a.size /\ pos <= size
          /\ k = Blocks(a) /\ base = BaseSize /\ size < k * base
          /\ left = getReadableSize(a) /\ left = size - pos
  <2>1. /\ a.size \in Nat /\ a.capacity \in Nat /\ a.size < a.capacity
        /\ a.position \in Nat /\ a.position <= a.size
    BY GoodTypes
  <2>2. Blocks(a) \in Nat /\ Blocks(a) * BaseSize = a.capacity
    BY GoodBlocks
  <2>3. a.size - a.position \in Nat /\ getReadableSize(a) = a.size - a.position
    BY <2>1 DEF getReadableSize
  <2> QED
    BY <2>1, <2>2, <2>3, Bases
<1>2. PICK n \in Nat : n = k + 1
  OBVIOUS
<1> DEFINE F == [i \in 0 .. n |-> FileAfter(a, InBlocks(left, i))]
           Start == [pos |-> a.position, left |-> getReadableSize(a),
                     text |-> <<>>, crashed |-> FALSE]
<1>3. F[0] = Start
  <2>1. InBlocks(left, 0) = 0
    BY <1>1 DEF InBlocks
  <2>2. SubSeq(a.mem, a.position + 1, a.position + 0) = <<>>
    <3>1. PICK x \in Int, y \in Int : x = a.position + 1 /\ y = a.position + 0 /\ y < x
      BY <1>1
    <3> QED
      BY <3>1, SubSeqEmpty
  <2>3. FileAfter(a, 0) = Start
    <3>1. pos + 0 = pos /\ left - 0 = left
      OBVIOUS
    <3>2. a.position + 0 = a.position /\ getReadableSize(a) - 0 = getReadableSize(a)
      BY <1>1, <3>1, Zenon
    <3> QED
      BY <2>2, <3>2, Zenon DEF FileAfter
  <2> QED
    BY <2>1, <2>3
<1>4. ASSUME NEW i \in 1 .. n PROVE F[i] = FileStep(a, F[i - 1], i)
  <2>1. PICK j \in Nat : i = j + 1 /\ i - 1 = j /\ j \in 0 .. n
    <3>1. i - 1 \in Nat /\ i = (i - 1) + 1 /\ i - 1 \in 0 .. n
      OBVIOUS
    <3> QED
      BY <3>1
  <2>2. FileStep(a, FileAfter(a, InBlocks(left, j)), j + 1) =
            FileAfter(a, InBlocks(left, j + 1))
    <3>1. left = getReadableSize(a)
      BY <1>1
    <3> QED
      BY <3>1, FileBlock
  <2> QED
    BY <2>1, <2>2
<1>5. F = [i \in 0 .. n |-> IF i = 0 THEN Start ELSE FileStep(a, F[i - 1], i)]
  <2>1. \A i \in 0 .. n : F[i] = IF i = 0 THEN Start ELSE FileStep(a, F[i - 1], i)
    <3> HIDE DEF F, Start
    <3> QED
      BY <1>3, <1>4
  <2>2. F = [i \in 0 .. n |-> F[i]]
    OBVIOUS
  <2> HIDE DEF F, Start
  <2> QED
    BY <2>1, <2>2
<1>6. PICK G : /\ G = [i \in 0 .. n |-> IF i = 0 THEN Start ELSE FileStep(a, G[i - 1], i)]
               /\ writeToFile(a) = G[n]
  <2> HIDE DEF F
  <2> QED
    BY <1>1, <1>2, <1>5, ZenonT(60) DEF writeToFile, FileStep
<1> HIDE DEF F, Start
<1>7. \A i \in 0 .. n : G[i] = F[i]
  <2> DEFINE S == {i \in 0 .. n : G[i] = F[i]}
  <2>1. 0 \in S
    BY <1>3, <1>6
  <2>2. ASSUME NEW i \in 0 .. n - 1, i \in S PROVE i + 1 \in S
    <3>1. i + 1 \in 1 .. n /\ (i + 1) - 1 = i
      OBVIOUS
    <3>2. G[i + 1] = FileStep(a, G[(i + 1) - 1], i + 1)
      BY <1>6, <3>1
    <3>3. F[i + 1] = FileStep(a, F[(i + 1) - 1], i + 1)
      BY <1>4, <3>1
    <3> QED
      BY <2>2, <3>1, <3>2, <3>3
  <2>3. \A i \in 0 .. n : i \in S
    <3> HIDE DEF S
    <3> QED
      BY <2>1, <2>2, IntervalInduction
  <2> QED
    BY <2>3
<1>8. InBlocks(left, n) = left
  <2>1. n * base = k * base + base /\ k * base \in Nat
    BY <1>2
  <2> QED
    BY <1>1, <2>1 DEF InBlocks
<1>9. F[n] = FileAfter(a, left)
  BY <1>8 DEF F
<1> QED
  BY <1>1, <1>6, <1>7, <1>9

-----------------------------------------------------------------------------
(* The items in the data *)

(* An item is where it was written, in the byte order of then.             *)
ItemAt(a, i) ==
    /\ ItemFits(i)
    /\ i.off \in Nat /\ i.len \in Nat
    /\ i.len = Len(TextOf(i, i))
    /\ i.off + i.len <= a.size
    /\ \A j \in 1 .. i.len : a.mem[i.off + j] = TextOf(i, i)[j]

LEMMA TextType ==
    ASSUME NEW a, NEW item, ItemFits(item)
    PROVE  /\ Encode(a, item) \in Seq(Byte) /\ Characters(item) \in Seq(Byte)
           /\ Len(Encode(a, item)) \in Nat \ {0}
           /\ TextOf(a, item) \in Seq(Byte)
           /\ Len(TextOf(a, item)) = Len(Encode(a, item)) + Len(Characters(item))
<1>1. PICK text \in Seq(Byte) : text = <<>>
  BY EmptySeq
<1>2. Encode(a, item) \in Seq(Byte) /\ Characters(item) \in Seq(Byte)
  BY ItemBack
<1>3. Len(Encode(a, item)) > 0
  BY ItemBack
<1>4. PICK s \in Seq(Byte), t \in Seq(Byte) : s = Encode(a, item) /\ t = Characters(item)
  BY <1>2
<1>5. s \o t \in Seq(Byte) /\ IsJoin(s \o t, s, t)
  BY Joined
<1>6. TextOf(a, item) \in Seq(Byte) /\ Len(TextOf(a, item)) = Len(s) + Len(t)
  BY <1>4, <1>5 DEF TextOf, IsJoin
<1>7. Len(s) \in Nat
  OBVIOUS
<1> QED
  BY <1>2, <1>3, <1>4, <1>6, <1>7

(* Other bytes may change.                                                 *)
LEMMA ItemKept ==
    ASSUME NEW a, Good(a), NEW c, Good(c), NEW n \in Nat, a.size <= c.size,
           \A j \in 1 .. a.size :
               j \notin a.position + 1 .. a.position + n => c.mem[j] = a.mem[j],
           NEW i, ItemAt(a, i),
           i.off + i.len <= a.position \/ a.position + n <= i.off
    PROVE  ItemAt(c, i)
<1>1. PICK off \in Nat, len \in Nat : off = i.off /\ len = i.len
  BY DEF ItemAt
<1>2. PICK pos \in Nat, size \in Nat, top \in Nat :
          pos = a.position /\ size = a.size /\ top = c.size
  BY GoodTypes
<1>3. off + len <= size /\ size <= top /\ (off + len <= pos \/ pos + n <= off)
  BY <1>1, <1>2 DEF ItemAt
<1>4. ASSUME NEW j \in 1 .. len PROVE c.mem[off + j] = a.mem[off + j]
  <2>1. off + j \in 1 .. size /\ off + j \notin pos + 1 .. pos + n
    BY <1>3
  <2> QED
    BY <1>2, <2>1
<1>5. off + len <= top
  BY <1>3
<1> QED
  BY <1>1, <1>2, <1>4, <1>5 DEF ItemAt

(* An item whose text is at the position, in the byte order of the array.  *)
LEMMA NewItem ==
    ASSUME NEW c, NEW item, ItemFits(item), NEW n, n = Len(TextOf(b, item)),
           b.position \in Nat, b.position + n <= c.size,
           \A j \in 1 .. n : c.mem[b.position + j] = TextOf(b, item)[j]
    PROVE  ItemAt(c, Placed(item, n))
<1>1. PICK i : i = Placed(item, n)
  OBVIOUS
<1>2. /\ i.kind = item.kind /\ i.v = item.v /\ i.off = b.position
      /\ i.len = n /\ i.endian = b.endian
  BY <1>1 DEF Placed
<1>3. Encode(i, i) = Encode(b, item)
  <2>1. \A bytes, signed : Swapped(i, bytes, signed) = Swapped(b, bytes, signed)
    BY <1>2 DEF Swapped
  <2> QED
    BY <1>2, <2>1, Zenon DEF Encode
<1>4. TextOf(i, i) = TextOf(b, item)
  BY <1>2, <1>3 DEF TextOf, Characters
<1>5. ItemFits(i)
  BY <1>2 DEF ItemFits
<1>6. n \in Nat
  <2>1. TextOf(b, item) \in Seq(Byte)
    BY TextType
  <2> QED
    BY <2>1
<1>7. ItemAt(c, i)
  BY <1>2, <1>4, <1>5, <1>6 DEF ItemAt
<1> QED
  BY <1>1, <1>7

LEMMA ItemRead ==
    ASSUME NEW a, Good(a), NEW i, ItemAt(a, i), i.off = a.position,
           i.endian = a.endian \/ i.kind = "fint", NEW text, NEW n,
           text = Bytes(a, getReadableSize(a)),
           n = LengthOf(a, i.kind, text)
    PROVE  Decode(a, i.kind, Bytes(a, n)) = i.v
<1>1. PICK pos \in Nat, size \in Nat, len \in Nat, left \in Nat :
          /\ pos = a.position /\ size = a.size /\ len = i.len
          /\ left = getReadableSize(a) /\ left = size - pos /\ len <= left
  <2>1. a.position \in Nat /\ a.size \in Nat /\ a.position <= a.size
    BY GoodTypes
  <2>2. i.len \in Nat /\ a.position + i.len <= a.size
    BY DEF ItemAt
  <2>3. PICK pos \in Nat, size \in Nat, len \in Nat :
            pos = a.position /\ size = a.size /\ len = i.len
    BY <2>1, <2>2
  <2>4. size - pos \in Nat /\ len <= size - pos
    BY <2>1, <2>2, <2>3
  <2> QED
    BY <2>3, <2>4 DEF getReadableSize
<1>2. text \in Seq(Byte) /\ IsPart(text, a.mem, pos, left)
  <2>1. left <= getReadableSize(a) /\ text = Bytes(a, left) /\ pos = a.position
    BY <1>1
  <2>2. Bytes(a, left) \in Seq(Byte)
    BY <2>1, BytesOfData
  <2>3. IsPart(Bytes(a, left), a.mem, a.position, left)
    BY <2>1, BytesOfData
  <2> QED
    BY <2>1, <2>2, <2>3
<1>3. PICK item \in Seq(Byte) : item = TextOf(i, i) /\ Len(item) = len
  <2>1. ItemFits(i)
    BY DEF ItemAt
  <2>2. TextOf(i, i) \in Seq(Byte)
    BY <2>1, TextType
  <2> QED
    BY <1>1, <2>2 DEF ItemAt
<1>4. \A j \in 1 .. len : a.mem[pos + j] = item[j]
  BY <1>1, <1>3 DEF ItemAt
<1>5. Begins(text, i, i)
  <2>1. Len(text) = left /\ \A j \in 1 .. left : text[j] = a.mem[pos + j]
    BY <1>2 DEF IsPart
  <2>2. \A j \in 1 .. len : j \in 1 .. left
    BY <1>1
  <2>3. \A j \in 1 .. len : text[j] = item[j]
    BY <1>4, <2>1, <2>2
  <2> QED
    BY <1>1, <1>3, <2>1, <2>3 DEF Begins
<1>6. ItemFits(i)
  BY DEF ItemAt
<1>7. n = len
  BY <1>2, <1>3, <1>5, <1>6, ItemBack
<1>8. Decode(a, i.kind, item) = i.v
  BY <1>2, <1>3, <1>5, <1>6, ItemBack
<1>9. Bytes(a, len) = item
  <2>1. PICK p \in Seq(Byte) : p = Bytes(a, len) /\ IsPart(p, a.mem, pos, len)
    BY <1>1, BytesOfData
  <2>2. Len(p) = len /\ \A j \in 1 .. len : p[j] = item[j]
    BY <1>4, <2>1 DEF IsPart
  <2>3. p = item
    BY <1>3, <2>2, SeqEqual
  <2> QED
    BY <2>1, <2>3
<1> QED
  BY <1>7, <1>8, <1>9

(* The length of a string, and then its characters.                        *)
LEMMA ReadTwice ==
    ASSUME NEW a, Good(a), NEW m \in Nat, NEW n \in Nat, m <= n,
           n <= getReadableSize(a)
    PROVE  IsMoved(read(read(a, m), n - m), a, a.position + n)
<1>1. PICK pos \in Nat, size \in Nat :
          pos = a.position /\ size = a.size /\ pos + n <= size
  <2>1. a.position \in Nat /\ a.size \in Nat /\ a.position <= a.size
    BY GoodTypes
  <2> QED
    BY <2>1 DEF getReadableSize
<1>2. m <= getReadableSize(a)
  BY <1>1 DEF getReadableSize
<1>3. PICK c : c = read(a, m) /\ IsMoved(c, a, a.position + m)
  BY <1>2, ReadBytes
<1>4. Good(c) /\ c.position = pos + m /\ c.size = size
  BY <1>1, <1>3 DEF IsMoved
<1>5. PICK k \in Nat : k = n - m
  OBVIOUS
<1>6. k <= getReadableSize(c)
  BY <1>1, <1>4, <1>5 DEF getReadableSize
<1>7. IsMoved(read(c, k), c, c.position + k)
  BY <1>4, <1>6, ReadBytes
<1>8. c.position + k = a.position + n
  BY <1>1, <1>4, <1>5
<1>9. IsMoved(read(c, k), a, a.position + n)
  BY <1>3, <1>7, <1>8 DEF IsMoved
<1> QED
  BY <1>3, <1>5, <1>9

-----------------------------------------------------------------------------
(* The steps *)

ArrayInv == Good(b) /\ \A i \in items : ItemAt(b, i)

(* What a step of a careful caller does, and what it is for FlatBytes.     *)
GoodStep == ArrayInv' /\ ReadBack' /\ Flat!Next

LEMMA DataOver ==
    ASSUME NEW a, Good(a), NEW c, Good(c), NEW n \in Nat,
           c.size = (IF a.position + n > a.size THEN a.position + n ELSE a.size),
           \A i \in 1 .. a.size :
               i \notin a.position + 1 .. a.position + n => c.mem[i] = a.mem[i]
    PROVE  /\ Data(c) \in Seq(Byte)
           /\ Len(Data(c)) = IF a.position + n > Len(Data(a)) THEN a.position + n
                             ELSE Len(Data(a))
           /\ \A i \in DOMAIN Data(a) :
                 i \notin a.position + 1 .. a.position + n => Data(c)[i] = Data(a)[i]
<1>1. a.size \in Nat /\ c.size \in Nat /\ a.position \in Nat
  BY GoodTypes
<1>2. /\ Data(a) \in Seq(Byte) /\ Len(Data(a)) = a.size
      /\ \A i \in 1 .. a.size : Data(a)[i] = a.mem[i]
  BY DataBytes
<1>3. /\ Data(c) \in Seq(Byte) /\ Len(Data(c)) = c.size
      /\ \A i \in 1 .. c.size : Data(c)[i] = c.mem[i]
  BY DataBytes
<1>4. PICK s \in Seq(Byte), t \in Seq(Byte) : s = Data(a) /\ t = Data(c)
  BY <1>2, <1>3
<1>5. PICK size \in Nat, top \in Nat, pos \in Nat :
          size = a.size /\ top = c.size /\ pos = a.position
  BY <1>1
<1>6. top = IF pos + n > size THEN pos + n ELSE size
  BY <1>5
<1>7. size <= top
  BY <1>6
<1>8. /\ Len(s) = size /\ \A i \in 1 .. size : s[i] = a.mem[i]
      /\ Len(t) = top /\ \A i \in 1 .. top : t[i] = c.mem[i]
  BY <1>2, <1>3, <1>4, <1>5, Zenon
<1>9. DOMAIN s = 1 .. size
  BY <1>8
<1>10. ASSUME NEW i \in 1 .. size, i \notin pos + 1 .. pos + n PROVE t[i] = s[i]
  <2>1. i \in 1 .. top
    BY <1>7
  <2>2. c.mem[i] = a.mem[i]
    BY <1>5, <1>10
  <2> QED
    BY <1>8, <2>1, <2>2
<1> QED
  BY <1>4, <1>5, <1>6, <1>8, <1>9, <1>10, Zenon

LEMMA StepWritten ==
    ASSUME Good(b), NEW text \in Seq(Byte), IsWritten(b', b, text),
           Len(text) <= MaxSize, out' = <<>>
    PROVE  Flat!Write
<1>1. PICK c : c = b'
  OBVIOUS
<1>2. PICK n \in Nat : n = Len(text) /\ n \in 0 .. MaxSize
  BY UseAssumption DEF UseAssumption
<1>3. Good(c) /\ c.position = b.position + n
  BY <1>1, <1>2 DEF IsWritten
<1>4. /\ Data(c) \in Seq(Byte)
      /\ Len(Data(c)) = IF b.position + n > Len(Data(b)) THEN b.position + n
                        ELSE Len(Data(b))
      /\ \A i \in DOMAIN Data(b) :
            i \notin b.position + 1 .. b.position + n => Data(c)[i] = Data(b)[i]
  <2>1. c.size = IF b.position + n > b.size THEN b.position + n ELSE b.size
    BY <1>1, <1>2, <1>3 DEF IsWritten
  <2>2. \A i \in 1 .. b.size :
            i \notin b.position + 1 .. b.position + n => c.mem[i] = b.mem[i]
    BY <1>1, <1>2 DEF IsWritten
  <2> QED
    BY <1>3, <2>1, <2>2, DataOver
<1>5. Flat!Overwritten(n)
  BY <1>1, <1>4, Zenon DEF Flat!Overwritten, Data
<1> QED
  BY <1>1, <1>2, <1>3, <1>5, Zenon DEF Flat!Write

LEMMA StepMoved ==
    ASSUME Good(b), IsMoved(b', b, b'.position)
    PROVE  /\ SubSeq(b.mem, 1, b.size)' = SubSeq(b.mem, 1, b.size)
           /\ b'.position \in 0 .. Len(SubSeq(b.mem, 1, b.size))
           /\ (\A i \in items : ItemAt(b, i)) =>
                  \A i \in items : ItemAt(b', i)
<1>1. PICK c : c = b'
  OBVIOUS
<1>2. Good(c) /\ c.mem = b.mem /\ c.size = b.size
  BY <1>1 DEF IsMoved
<1>3. c.position \in Nat /\ c.position <= c.size /\ b.size \in Nat
  BY <1>2, GoodTypes
<1>4. Len(Data(b)) = b.size
  BY DataBytes
<1>5. \A i : ItemAt(b, i) => ItemAt(c, i)
  BY <1>2 DEF ItemAt
<1>6. c.position \in 0 .. Len(Data(b))
  BY <1>2, <1>3, <1>4
<1> QED
  BY <1>1, <1>2, <1>5, <1>6 DEF Data

(* n bytes returned.                                                       *)
LEMMA StepReturns ==
    ASSUME Good(b), NEW n \in Nat, n <= getReadableSize(b), out' = Bytes(b, n)
    PROVE  /\ n \in 0 .. Len(SubSeq(b.mem, 1, b.size)) - b.position
           /\ out' = SubSeq(SubSeq(b.mem, 1, b.size), b.position + 1, b.position + n)
<1>1. Bytes(b, n) = SubSeq(Data(b), b.position + 1, b.position + n)
  BY BytesOfData
<1>2. Len(Data(b)) = b.size
  BY DataBytes
<1>3. b.size \in Nat /\ b.position \in Nat
  BY GoodTypes
<1>4. n \in 0 .. Len(Data(b)) - b.position
  BY <1>2, <1>3 DEF getReadableSize
<1> QED
  BY <1>1, <1>4 DEF Data

LEMMA JunkIsByte == \A junk \in Junk : junk \in Byte
  BY UseAssumption DEF UseAssumption

LEMMA KeptItems ==
    ASSUME ArrayInv, NEW n \in Nat, Good(b'), b.size <= b'.size,
           \A j \in 1 .. b.size :
               j \notin b.position + 1 .. b.position + n => b'.mem[j] = b.mem[j]
    PROVE  \A i \in Kept(n) : ItemAt(b', i)
<1>1. PICK c : c = b'
  OBVIOUS
<1>2. /\ Good(b) /\ Good(c) /\ b.size <= c.size
      /\ \A j \in 1 .. b.size :
             j \notin b.position + 1 .. b.position + n => c.mem[j] = b.mem[j]
  BY <1>1 DEF ArrayInv
<1>3. ASSUME NEW i \in Kept(n) PROVE ItemAt(c, i)
  <2>1. /\ ItemAt(b, i)
        /\ i.off + i.len <= b.position \/ b.position + n <= i.off
    BY DEF Kept, ArrayInv
  <2> QED
    BY <1>2, <2>1, ItemKept
<1> QED
  BY <1>1, <1>3

LEMMA KeptByWrite ==
    ASSUME ArrayInv, NEW text \in Seq(Byte), IsWritten(b', b, text)
    PROVE  \A i \in Kept(Len(text)) : ItemAt(b', i)
<1>1. PICK c : c = b'
  OBVIOUS
<1>2. PICK n \in Nat : n = Len(text)
  OBVIOUS
<1>3. Good(b) /\ Good(c)
  BY <1>1 DEF ArrayInv, IsWritten
<1>4. PICK size \in Nat, e \in Nat : size = b.size /\ e = c.position
  BY <1>3, GoodTypes
<1>5. c.size = IF e > size THEN e ELSE size
  BY <1>1, <1>4 DEF IsWritten
<1>6. b.size <= c.size
  BY <1>4, <1>5
<1>7. \A j \in 1 .. b.size :
          j \notin b.position + 1 .. b.position + n => c.mem[j] = b.mem[j]
  BY <1>1, <1>2 DEF IsWritten
<1>8. \A i \in Kept(n) : ItemAt(b', i)
  BY <1>1, <1>3, <1>6, <1>7, KeptItems
<1> QED
  BY <1>2, <1>8

LEMMA QuietStep == ASSUME got' = NotRead PROVE ReadBack'
  BY DEF ReadBack, NotRead

LEMMA WriteItemStep ==
    ASSUME Careful, ItemsFit, ArrayInv, WriteItem
    PROVE  GoodStep
<1>0. PICK item \in Items, junk \in Junk :
          LET head == Encode(b, item)
              n == Len(head) + Len(Characters(item))
          IN  /\ b.position + n <= MaxSize
              /\ Fits(n) /\ Fits(Len(head))
              /\ b' = write(write(b, head, junk), Characters(item), junk)
              /\ items' = Kept(n) \cup {Placed(item, n)}
  BY DEF WriteItem
<1>1. PICK head, n :
          /\ head = Encode(b, item)
          /\ n = Len(head) + Len(Characters(item))
          /\ b.position + n <= MaxSize
          /\ Fits(n) /\ Fits(Len(head))
          /\ b' = write(write(b, head, junk), Characters(item), junk)
          /\ items' = Kept(n) \cup {Placed(item, n)}
  BY <1>0
<1>2. out' = <<>> /\ got' = NotRead
  BY DEF WriteItem, Quiet
<1>3. Good(b) /\ ItemFits(item) /\ junk \in Byte
  BY JunkIsByte DEF ArrayInv, ItemsFit
<1>4. PICK chars \in Seq(Byte), k \in Nat \ {0} :
          /\ head \in Seq(Byte) /\ k = Len(head)
          /\ chars = Characters(item) /\ TextOf(b, item) = head \o chars
  <2>1. Encode(b, item) \in Seq(Byte) /\ Characters(item) \in Seq(Byte)
    BY <1>3, TextType
  <2>2. Len(Encode(b, item)) \in Nat \ {0}
    BY <1>3, TextType
  <2> QED
    BY <1>1, <2>1, <2>2 DEF TextOf
<1>5. PICK m \in Nat, pos \in Nat : m = Len(chars) /\ pos = b.position
  <2>1. b.position \in Nat
    BY <1>3, GoodTypes
  <2>2. Len(chars) \in Nat
    OBVIOUS
  <2> QED
    BY <2>1, <2>2
<1>6. n = k + m /\ n \in Nat /\ n > 0
  BY <1>1, <1>4, <1>5
<1>7. PICK c : c = write(b, head, junk)
  OBVIOUS
<1>8. IsWritten(c, b, head)
  <2>1. Ends(b, Len(head))
    BY <1>1, <1>4 DEF Fits, Ends
  <2> QED
    BY <1>3, <1>4, <1>7, <2>1, WriteBytes
<1>9. Good(c) /\ c.position = pos + k
  BY <1>4, <1>5, <1>8 DEF IsWritten
<1>10. PICK d : d = b' /\ IsWritten(d, c, chars)
  <2>1. Ends(c, m)
    <3>1. (pos + n) % BaseSize # 0
      BY <1>1, <1>5, <1>6 DEF Fits
    <3>2. c.position + m = pos + n
      BY <1>6, <1>9
    <3> QED
      BY <3>1, <3>2 DEF Ends
  <2>2. IsWritten(write(c, chars, junk), c, chars)
    BY <1>3, <1>5, <1>9, <2>1, WriteBytes
  <2> QED
    BY <1>1, <1>4, <1>7, <2>2
<1>11. IsWritten(d, b, TextOf(b, item))
  BY <1>3, <1>4, <1>8, <1>10, WriteTwice
<1>12. PICK text \in Seq(Byte) : text = TextOf(b, item) /\ Len(text) = n
  <2>1. TextOf(b, item) \in Seq(Byte)
    BY <1>3, TextType
  <2>2. Len(TextOf(b, item)) = Len(Encode(b, item)) + Len(Characters(item))
    BY <1>3, TextType
  <2> QED
    BY <1>1, <2>1, <2>2
<1>13. IsWritten(b', b, text)
  BY <1>10, <1>11, <1>12
<1>14. \A i \in Kept(n) : ItemAt(b', i)
  BY <1>12, <1>13, KeptByWrite
<1>15. ItemAt(d, Placed(item, n))
  <2>1. /\ Good(d) /\ n = Len(TextOf(b, item)) /\ pos + n <= d.size
        /\ \A j \in 1 .. n : d.mem[b.position + j] = TextOf(b, item)[j]
    <3>1. /\ Good(d) /\ d.position = pos + n
          /\ d.size = IF d.position > b.size THEN d.position ELSE b.size
      BY <1>5, <1>11, <1>12 DEF IsWritten
    <3>2. pos + n \in Nat /\ b.size \in Nat
      <4>1. b.size \in Nat
        BY <1>3, GoodTypes
      <4> QED
        BY <1>6, <4>1
    <3>3. pos + n <= d.size
      BY <3>1, <3>2
    <3> QED
      BY <1>11, <1>12, <3>1, <3>3 DEF IsWritten
  <2> QED
    BY <1>3, <1>5, <2>1, NewItem
<1>16. ArrayInv'
  <2>1. Good(d)
    BY <1>11 DEF IsWritten
  <2> QED
    BY <1>1, <1>10, <1>14, <1>15, <2>1 DEF ArrayInv
<1>17. Flat!Write
  <2>1. n <= MaxSize
    BY <1>1, <1>5, <1>6, UseAssumption DEF UseAssumption
  <2> QED
    BY <1>2, <1>3, <1>12, <1>13, <2>1, StepWritten
<1>18. ReadBack'
  BY <1>2, QuietStep
<1> QED
  BY <1>16, <1>17, <1>18 DEF GoodStep, Flat!Next

LEMMA KindsRead ==
    ASSUME ItemsFit, Good(b), NEW kind \in {i.kind : i \in Items}, NEW text, NEW n,
           text = Bytes(b, getReadableSize(b)), n = LengthOf(b, kind, text)
    PROVE  /\ kind \in Kinds /\ n \in Nat
           /\ kind = "string" => n >= LenWidth
           /\ getReadableSize(b) \in Nat
<1>1. kind \in Kinds
  BY DEF ItemsFit, ItemFits
<1>2. getReadableSize(b) \in Nat
  <2>1. b.position \in Nat /\ b.size \in Nat /\ b.position <= b.size
    BY GoodTypes
  <2> QED
    BY <2>1 DEF getReadableSize
<1>3. PICK left \in Nat : left = getReadableSize(b) /\ left <= getReadableSize(b)
  BY <1>2
<1>4. text \in Seq(Byte)
  BY <1>3, BytesOfData
<1>5. LengthOf(b, kind, text) \in Nat
  BY <1>1, <1>4, LengthType
<1>6. kind = "string" => LengthOf(b, kind, text) >= LenWidth
  BY <1>1, <1>4, LengthType
<1> QED
  BY <1>1, <1>2, <1>5, <1>6

(* Bytes are read, and returned.                                           *)
LEMMA ReadStep ==
    ASSUME ArrayInv, NEW n \in Nat, n <= getReadableSize(b),
           IsMoved(b', b, b.position + n), out' = Bytes(b, n), UNCHANGED items
    PROVE  ArrayInv' /\ Flat!Read
<1>1. Good(b) /\ Good(b') /\ b'.position = b.position + n
  BY DEF ArrayInv, IsMoved
<1>2. IsMoved(b', b, b'.position)
  BY <1>1
<1>3. SubSeq(b.mem, 1, b.size)' = SubSeq(b.mem, 1, b.size)
  BY <1>1, <1>2, StepMoved
<1>4. \A i \in items : ItemAt(b', i)
  BY <1>1, <1>2, StepMoved DEF ArrayInv
<1>5. /\ n \in 0 .. Len(SubSeq(b.mem, 1, b.size)) - b.position
      /\ out' = SubSeq(SubSeq(b.mem, 1, b.size), b.position + 1, b.position + n)
  BY <1>1, StepReturns
<1>6. ArrayInv'
  BY <1>1, <1>4 DEF ArrayInv
<1>7. Flat!Read
  BY <1>1, <1>3, <1>5, Zenon DEF Flat!Read
<1> QED
  BY <1>6, <1>7

LEMMA ReadItemStep ==
    ASSUME Careful, ItemsFit, ArrayInv, ReadItem
    PROVE  GoodStep
<1>0. PICK kind \in {i.kind : i \in Items} :
          LET text == Bytes(b, getReadableSize(b))
              n == LengthOf(b, kind, text)
              at == {i \in items : i.kind = kind /\ i.off = b.position
                                   /\ (i.endian = b.endian \/ kind = "fint")}
              bytes == Bytes(b, n)
          IN  /\ ~Throws(b, n)
              /\ b' = IF kind = "string" THEN read(read(b, LenWidth), n - LenWidth)
                      ELSE read(b, n)
              /\ out' = IF b'.crashed THEN <<>> ELSE bytes
              /\ got' = IF at = {} \/ b'.crashed THEN NotRead
                        ELSE [kind |-> kind, v |-> (CHOOSE i \in at : TRUE).v,
                              value |-> Decode(b, kind, bytes)]
  BY DEF ReadItem
<1>1. PICK text, n, at :
          /\ text = Bytes(b, getReadableSize(b))
          /\ n = LengthOf(b, kind, text)
          /\ at = {i \in items : i.kind = kind /\ i.off = b.position
                                 /\ (i.endian = b.endian \/ kind = "fint")}
          /\ ~Throws(b, n)
          /\ b' = IF kind = "string" THEN read(read(b, LenWidth), n - LenWidth)
                  ELSE read(b, n)
          /\ out' = IF b'.crashed THEN <<>> ELSE Bytes(b, n)
          /\ got' = IF at = {} \/ b'.crashed THEN NotRead
                    ELSE [kind |-> kind, v |-> (CHOOSE i \in at : TRUE).v,
                          value |-> Decode(b, kind, Bytes(b, n))]
  BY <1>0, Zenon
<1>2. Good(b)
  BY DEF ArrayInv
<1>3. n \in Nat /\ (kind = "string" => n >= LenWidth) /\ getReadableSize(b) \in Nat
  BY <1>1, <1>2, KindsRead
<1>4. n <= getReadableSize(b)
  BY <1>1, <1>3 DEF Throws
<1>5. IsMoved(b', b, b.position + n)
  <2>1. CASE kind = "string"
    <3>1. LenWidth \in Nat
      BY UseAssumption DEF UseAssumption
    <3>2. IsMoved(read(read(b, LenWidth), n - LenWidth), b, b.position + n)
      BY <1>2, <1>3, <1>4, <2>1, <3>1, ReadTwice
    <3> QED
      BY <1>1, <2>1, <3>2
  <2>2. CASE kind # "string"
    <3>1. IsMoved(read(b, n), b, b.position + n)
      BY <1>2, <1>3, <1>4, ReadBytes
    <3> QED
      BY <1>1, <2>2, <3>1
  <2> QED
    BY <2>1, <2>2
<1>6. ~b'.crashed
  BY <1>5 DEF IsMoved, Good
<1>7. out' = Bytes(b, n)
  BY <1>1, <1>6
<1>8. ArrayInv' /\ Flat!Read
  <2>1. UNCHANGED items
    BY DEF ReadItem
  <2> QED
    BY <1>3, <1>4, <1>5, <1>7, <2>1, ReadStep
<1>9. ReadBack'
  <2>1. CASE at = {}
    BY <1>1, <2>1, QuietStep
  <2>2. CASE at # {}
    <3>1. PICK i \in at : i = CHOOSE x \in at : TRUE
      BY <2>2
    <3>2. i \in items /\ i.kind = kind /\ i.off = b.position
          /\ (i.endian = b.endian \/ i.kind = "fint")
      BY <1>1, <3>1
    <3>3. ItemAt(b, i)
      BY <3>2 DEF ArrayInv
    <3>4. Decode(b, i.kind, Bytes(b, n)) = i.v
      BY <1>1, <1>2, <3>2, <3>3, ItemRead
    <3>5. got' = [kind |-> kind, v |-> i.v, value |-> Decode(b, kind, Bytes(b, n))]
      BY <1>1, <1>6, <2>2, <3>1
    <3>6. got'.value = got'.v
      BY <3>2, <3>4, <3>5
    <3> QED
      BY <3>6 DEF ReadBack
  <2> QED
    BY <2>1, <2>2
<1> QED
  BY <1>8, <1>9 DEF GoodStep, Flat!Next

LEMMA ReadThrowsStep ==
    ASSUME Careful, ItemsFit, ArrayInv, ReadThrows
    PROVE  GoodStep
<1>1. PICK n \in 0 .. getReadableSize(b) :
          /\ b' = IF n = 0 THEN b ELSE read(b, n)
          /\ out' = IF b'.crashed THEN <<>> ELSE Bytes(b, n)
  BY DEF ReadThrows
<1>2. Good(b) /\ got' = NotRead /\ UNCHANGED items
  BY DEF ArrayInv, ReadThrows
<1>3. b.position \in Nat /\ b.size \in Nat /\ b.position <= b.size
  BY <1>2, GoodTypes
<1>4. n \in Nat /\ n <= getReadableSize(b)
  BY <1>3 DEF getReadableSize
<1>5. IsMoved(b', b, b.position + n)
  <2>1. CASE n = 0
    BY <1>1, <1>2, <1>3, <2>1 DEF IsMoved
  <2>2. CASE n # 0
    BY <1>1, <1>2, <1>4, <2>2, ReadBytes
  <2> QED
    BY <2>1, <2>2
<1>6. ~b'.crashed
  BY <1>5 DEF IsMoved, Good
<1>7. out' = Bytes(b, n)
  BY <1>1, <1>6
<1>8. ArrayInv' /\ Flat!Read
  BY <1>2, <1>4, <1>5, <1>7, ReadStep
<1> QED
  BY <1>2, <1>8, QuietStep DEF GoodStep, Flat!Next

(* The position, and nothing else that FlatBytes has, may move.            *)
LEMMA MoveStep ==
    ASSUME ArrayInv, IsMoved(b', b, b'.position), out' = <<>>, UNCHANGED items,
           got' = NotRead
    PROVE  GoodStep
<1>1. Good(b) /\ Good(b')
  BY DEF ArrayInv, IsMoved
<1>2. /\ SubSeq(b.mem, 1, b.size)' = SubSeq(b.mem, 1, b.size)
      /\ b'.position \in 0 .. Len(SubSeq(b.mem, 1, b.size))
  BY <1>1, StepMoved
<1>3. \A i \in items : ItemAt(b', i)
  BY <1>1, StepMoved DEF ArrayInv
<1>4. ArrayInv'
  BY <1>1, <1>3 DEF ArrayInv
<1>5. Flat!SetPosition
  BY <1>2, Zenon DEF Flat!SetPosition
<1> QED
  BY <1>4, <1>5, QuietStep DEF GoodStep, Flat!Next

LEMMA SetPositionStep ==
    ASSUME Careful, ArrayInv, SetPosition
    PROVE  GoodStep
<1>1. PICK pos \in 0 .. b.size : b' = setPosition(b, pos)
  BY DEF SetPosition
<1>2. b.curr = 1 /\ out' = <<>> /\ got' = NotRead /\ UNCHANGED items
  BY DEF SetPosition, Quiet
<1>3. Good(b)
  BY DEF ArrayInv
<1>4. b.size \in Nat
  BY <1>3, GoodTypes
<1>5. IsMoved(b', b, pos)
  BY <1>1, <1>2, <1>3, <1>4, PositionSet
<1>6. IsMoved(b', b, b'.position)
  BY <1>5 DEF IsMoved
<1> QED
  BY <1>2, <1>6, MoveStep

LEMMA SetEndianStep ==
    ASSUME ArrayInv, SetEndian
    PROVE  GoodStep
<1>1. PICK e \in Endian : b' = [b EXCEPT !.endian = e]
  BY DEF SetEndian
<1>2. Good(b)
  BY DEF ArrayInv
<1>3. PICK c : c = [b EXCEPT !.endian = e]
  OBVIOUS
<1>4. Good(c) /\ c.mem = b.mem /\ c.size = b.size /\ c.position = b.position
  BY <1>2, <1>3, EndianSet
<1>5. \A i : ItemAt(b, i) => ItemAt(c, i)
  BY <1>4 DEF ItemAt
<1>6. ArrayInv'
  BY <1>1, <1>3, <1>4, <1>5 DEF ArrayInv, SetEndian
<1>7. Flat!SetPosition
  <2>1. c.position \in Nat /\ c.position <= c.size /\ b.size \in Nat
    BY <1>2, <1>4, GoodTypes
  <2>2. Len(Data(b)) = b.size
    BY <1>2, DataBytes
  <2>3. c.position \in 0 .. Len(Data(b))
    BY <1>4, <2>1, <2>2
  <2> QED
    BY <1>1, <1>3, <1>4, <2>3, Zenon DEF Flat!SetPosition, Data, SetEndian, Quiet
<1> QED
  BY <1>6, <1>7, QuietStep DEF GoodStep, Flat!Next, SetEndian, Quiet

LEMMA ClearStep ==
    ASSUME ArrayInv, Clear
    PROVE  GoodStep
<1>1. Good(b)
  BY DEF ArrayInv
<1>2. Good(b') /\ b'.position = 0 /\ b'.size = 0
  BY <1>1, Cleared DEF Clear
<1>3. items' = {} /\ out' = <<>> /\ got' = NotRead
  BY DEF Clear, Quiet
<1>4. SubSeq(b.mem, 1, b.size)' = <<>>
  <2>1. PICK c : c = b'
    OBVIOUS
  <2>2. SubSeq(c.mem, 1, 0) = <<>>
    BY SubSeqEmpty
  <2> QED
    BY <1>2, <2>1, <2>2
<1>5. Flat!Clear
  BY <1>2, <1>3, <1>4, Zenon DEF Flat!Clear
<1>6. ArrayInv'
  BY <1>2, <1>3 DEF ArrayInv
<1> QED
  BY <1>3, <1>5, <1>6, QuietStep DEF GoodStep, Flat!Next

LEMMA OnesType ==
    ASSUME NEW n \in Nat
    PROVE  [i \in 1 .. n |-> 1] \in Seq(Byte) /\ Len([i \in 1 .. n |-> 1]) = n
<1>1. 1 \in Byte
  BY Bases
<1> QED
  BY <1>1

(* Text is received at the end of the data; what of it is an item is one.  *)
LEMMA ReceiveText ==
    ASSUME Careful, ArrayInv, NEW len \in 1 .. MaxSize, NEW junk \in Junk,
           NEW text \in Seq(Byte), Len(text) <= len,
           Fits(len), b.position = b.size,
           b' = addWriteBuffers(b, len, text, junk), Quiet,
           NEW new, items' = Kept(len) \cup new,
           \A i \in new : \E item : /\ ItemFits(item) /\ text = TextOf(b, item)
                                     /\ i = Placed(item, Len(text))
    PROVE  GoodStep
<1>1. out' = <<>> /\ got' = NotRead
  BY DEF Quiet
<1>2. Good(b) /\ junk \in Byte
  BY JunkIsByte DEF ArrayInv
<1>3. len \in Nat \ {0} /\ len \in 1 .. MaxSize
  BY UseAssumption DEF UseAssumption
<1>4. PICK c : c = b' /\ IsReceived(c, b, len, text)
  <2>1. Ends(b, len)
    BY DEF Fits, Ends
  <2>2. IsReceived(addWriteBuffers(b, len, text, junk), b, len, text)
    BY <1>2, <1>3, <2>1, Received
  <2> QED
    BY <2>2
<1>5. PICK pos \in Nat : pos = b.position /\ pos = b.size
  BY <1>2, GoodTypes
<1>6. /\ Good(c) /\ c.position = pos /\ c.size = pos + len
      /\ \A i \in 1 .. b.size : c.mem[i] = b.mem[i]
      /\ \A i \in 1 .. Len(text) : c.mem[b.position + i] = text[i]
  BY <1>4, <1>5 DEF IsReceived
<1>7. \A j \in 1 .. b.size :
          j \notin b.position + 1 .. b.position + len => c.mem[j] = b.mem[j]
  BY <1>6
<1>8. b.size <= c.size
  BY <1>3, <1>5, <1>6
<1>9. ASSUME NEW i \in new PROVE ItemAt(c, i)
  <2>1. PICK item : /\ ItemFits(item) /\ text = TextOf(b, item)
                    /\ i = Placed(item, Len(text))
    BY <1>9
  <2>2. PICK n \in Nat : n = Len(text)
    OBVIOUS
  <2>3. b.position \in Nat /\ b.position + n <= c.size
    BY <1>3, <1>5, <1>6, <2>2
  <2>4. \A j \in 1 .. n : c.mem[b.position + j] = TextOf(b, item)[j]
    BY <1>6, <2>1, <2>2
  <2>5. ItemAt(c, Placed(item, n))
    BY <2>1, <2>2, <2>3, <2>4, NewItem
  <2> QED
    BY <2>1, <2>2, <2>5
<1>10. ArrayInv'
  <2>1. \A i \in Kept(len) : ItemAt(b', i)
    BY <1>3, <1>4, <1>6, <1>7, <1>8, KeptItems
  <2> QED
    BY <1>4, <1>6, <1>9, <2>1 DEF ArrayInv
<1>11. c.size = IF b.position + len > b.size THEN b.position + len ELSE b.size
  BY <1>3, <1>5, <1>6
<1>12. /\ Data(c) \in Seq(Byte)
       /\ Len(Data(c)) = IF b.position + len > Len(Data(b)) THEN b.position + len
                         ELSE Len(Data(b))
       /\ \A i \in DOMAIN Data(b) :
             i \notin b.position + 1 .. b.position + len => Data(c)[i] = Data(b)[i]
  BY <1>2, <1>3, <1>6, <1>7, <1>11, DataOver
<1>13. Flat!Overwritten(len)
  BY <1>4, <1>12, Zenon DEF Flat!Overwritten, Data
<1>14. Flat!Store
  BY <1>1, <1>3, <1>4, <1>5, <1>6, <1>13, Zenon DEF Flat!Store
<1> QED
  BY <1>1, <1>10, <1>14, QuietStep DEF GoodStep, Flat!Next

LEMMA ReceiveStep ==
    ASSUME Careful, ItemsFit, ArrayInv, Receive
    PROVE  GoodStep
<1>1. PICK len \in 1 .. MaxSize, junk \in Junk :
        /\ Fits(len) /\ b.position = b.size
        /\ \/ \E n \in {1, len} :
                 /\ b' = addWriteBuffers(b, len, [i \in 1 .. n |-> 1], junk)
                 /\ items' = Kept(len)
           \/ \E item \in Items :
                 /\ Len(TextOf(b, item)) <= len
                 /\ b' = addWriteBuffers(b, len, TextOf(b, item), junk)
                 /\ items' = Kept(len) \cup {Placed(item, Len(TextOf(b, item)))}
  BY DEF Receive
<1>2. Quiet
  BY DEF Receive
<1>3. ASSUME NEW n \in {1, len}, items' = Kept(len),
             b' = addWriteBuffers(b, len, [i \in 1 .. n |-> 1], junk)
      PROVE  GoodStep
  <2>1. n \in Nat /\ n <= len
    BY UseAssumption DEF UseAssumption
  <2>2. PICK text \in Seq(Byte) : text = [i \in 1 .. n |-> 1] /\ Len(text) = n
    BY <2>1, OnesType
  <2>3. PICK new : new = {} /\ items' = Kept(len) \cup new
    <3>1. items' = Kept(len) \cup {}
      BY <1>3
    <3> QED
      BY <3>1
  <2>4. b' = addWriteBuffers(b, len, text, junk) /\ Len(text) <= len
    BY <1>3, <2>1, <2>2
  <2>5. \A i \in new : \E item : /\ ItemFits(item) /\ text = TextOf(b, item)
                                  /\ i = Placed(item, Len(text))
    BY <2>3
  <2> QED
    BY <1>1, <1>2, <2>3, <2>4, <2>5, ReceiveText
<1>4. ASSUME NEW item \in Items, Len(TextOf(b, item)) <= len,
             b' = addWriteBuffers(b, len, TextOf(b, item), junk),
             items' = Kept(len) \cup {Placed(item, Len(TextOf(b, item)))}
      PROVE  GoodStep
  <2>1. ItemFits(item)
    BY DEF ItemsFit
  <2>2. PICK text \in Seq(Byte) : text = TextOf(b, item)
    BY <2>1, TextType
  <2>3. PICK new : new = {Placed(item, Len(text))}
    OBVIOUS
  <2>4. /\ b' = addWriteBuffers(b, len, text, junk) /\ Len(text) <= len
        /\ items' = Kept(len) \cup new
    BY <1>4, <2>2, <2>3
  <2>5. \A i \in new : \E x : /\ ItemFits(x) /\ text = TextOf(b, x)
                               /\ i = Placed(x, Len(text))
    BY <2>1, <2>2, <2>3
  <2> QED
    BY <1>1, <1>2, <2>4, <2>5, ReceiveText
<1> QED
  BY <1>1, <1>3, <1>4

(* Bytes are returned, and nothing moves.                                  *)
LEMMA PeekStep ==
    ASSUME ArrayInv, b' = b, NEW n \in Nat, n <= getReadableSize(b),
           out' = Bytes(b, n), UNCHANGED items, got' = NotRead
    PROVE  GoodStep
<1>1. Good(b)
  BY DEF ArrayInv
<1>2. /\ n \in 0 .. Len(SubSeq(b.mem, 1, b.size)) - b.position
      /\ out' = SubSeq(SubSeq(b.mem, 1, b.size), b.position + 1, b.position + n)
  BY <1>1, StepReturns
<1>3. Flat!Peek
  BY <1>2, Zenon DEF Flat!Peek
<1>4. ArrayInv'
  BY DEF ArrayInv
<1> QED
  BY <1>3, <1>4, QuietStep DEF GoodStep, Flat!Next

LEMMA LookStep ==
    ASSUME ArrayInv, Look
    PROVE  GoodStep
<1>1. PICK len \in {1, getReadableSize(b)} :
          /\ b' = peek(b, addReadBuffers(b, len))
          /\ out' = IF b'.crashed THEN <<>> ELSE Bytes(b, addReadBuffers(b, len))
  BY DEF Look
<1>2. Good(b) /\ getReadableSize(b) > 0 /\ got' = NotRead /\ UNCHANGED items
  BY DEF ArrayInv, Look
<1>3. PICK left \in Nat : left = getReadableSize(b) /\ left > 0
  <2>1. b.position \in Nat /\ b.size \in Nat
    BY <1>2, GoodTypes
  <2>2. getReadableSize(b) \in Int
    BY <2>1 DEF getReadableSize
  <2> QED
    BY <1>2, <2>2
<1>4. PICK n \in Nat : n = addReadBuffers(b, len) /\ n <= getReadableSize(b)
  <2>1. len \in Nat
    BY <1>3
  <2>2. Min({len, left}) = IF len <= left THEN len ELSE left
    BY <2>1, MinMaxOfTwo
  <2> QED
    BY <1>3, <2>1, <2>2 DEF addReadBuffers
<1>5. b' = b
  BY <1>1, <1>2, <1>4, Peeked
<1>6. b'.crashed = FALSE
  BY <1>2, <1>5, GoodTypes
<1>7. out' = Bytes(b, n)
  BY <1>1, <1>4, <1>6
<1> QED
  BY <1>2, <1>4, <1>5, <1>7, PeekStep

LEMMA WriteToFileStep ==
    ASSUME Careful, ArrayInv, WriteToFile
    PROVE  GoodStep
<1>1. /\ b' = IF writeToFile(b).crashed THEN Crash(b) ELSE b
      /\ out' = writeToFile(b).text
      /\ b.position % BaseSize = 0 /\ got' = NotRead /\ UNCHANGED items
  BY DEF WriteToFile
<1>2. Good(b)
  BY DEF ArrayInv
<1>3. writeToFile(b) = FileAfter(b, getReadableSize(b))
  BY <1>1, <1>2, FileWritten
<1>4. PICK left \in Nat : left = getReadableSize(b) /\ left <= getReadableSize(b)
  <2>1. b.position \in Nat /\ b.size \in Nat /\ b.position <= b.size
    BY <1>2, GoodTypes
  <2>2. b.size - b.position \in Nat /\ b.size - b.position <= b.size - b.position
    BY <2>1
  <2> QED
    BY <2>2 DEF getReadableSize
<1>5. /\ writeToFile(b).crashed = FALSE
      /\ writeToFile(b).text = SubSeq(b.mem, b.position + 1, b.position + left)
  <2>1. \A m : /\ FileAfter(b, m).crashed = FALSE
               /\ FileAfter(b, m).text = SubSeq(b.mem, b.position + 1, b.position + m)
    BY DEF FileAfter
  <2> QED
    BY <1>3, <1>4, <2>1, Zenon
<1>6. Address(b) = b.position
  BY <1>2, GoodTypes
<1>7. b' = b /\ out' = Bytes(b, left)
  BY <1>1, <1>5, <1>6 DEF Bytes
<1> QED
  BY <1>1, <1>4, <1>7, PeekStep

LEMMA ReadFromFileStep ==
    ASSUME Careful, ArrayInv, ReadFromFile
    PROVE  GoodStep
<1>1. PICK n \in 0 .. 2, junk \in Junk :
          /\ b.position + n <= MaxSize
          /\ Fits(n)
          /\ b' = readFromFile(b, [i \in 1 .. n |-> 1], junk)
          /\ items' = Kept(n)
  BY DEF ReadFromFile
<1>2. out' = <<>> /\ got' = NotRead
  BY DEF ReadFromFile, Quiet
<1>3. Good(b) /\ junk \in Byte
  BY JunkIsByte DEF ArrayInv
<1>4. PICK text \in Seq(Byte) : text = [i \in 1 .. n |-> 1] /\ Len(text) = n
  <2>1. n \in Nat
    OBVIOUS
  <2> QED
    BY <2>1, OnesType
<1>5. PICK pos \in Nat : pos = b.position
  <2>1. b.position \in Nat
    BY <1>3, GoodTypes
  <2> QED
    BY <2>1
<1>6. n <= BaseSize
  <2>1. CASE n = 0
    BY <2>1, Bases
  <2>2. CASE n # 0
    <3>1. (pos + n) % BaseSize # 0
      BY <1>1, <1>5, <2>2 DEF Fits
    <3>2. BaseSize # 1
      <4> SUFFICES ASSUME BaseSize = 1 PROVE FALSE
        OBVIOUS
      <4>1. (pos + n) % 1 = 0
        OBVIOUS
      <4> QED
        BY <3>1, <4>1
    <3> QED
      BY <3>2, Bases
  <2> QED
    BY <2>1, <2>2
<1>7. IsWritten(b', b, text)
  <2>1. Ends(b, Len(text))
    BY <1>1, <1>4 DEF Fits, Ends
  <2>2. IsWritten(readFromFile(b, text, junk), b, text)
    BY <1>3, <1>4, <1>6, <2>1, FileRead
  <2> QED
    BY <1>1, <1>4, <2>2
<1>8. ArrayInv'
  <2>1. \A i \in Kept(n) : ItemAt(b', i)
    BY <1>4, <1>7, KeptByWrite
  <2> QED
    BY <1>1, <1>7, <2>1 DEF ArrayInv, IsWritten
<1>9. Flat!Write
  <2>1. n <= MaxSize
    BY <1>1, <1>5, UseAssumption DEF UseAssumption
  <2> QED
    BY <1>2, <1>3, <1>4, <1>7, <2>1, StepWritten
<1> QED
  BY <1>2, <1>8, <1>9, QuietStep DEF GoodStep, Flat!Next

-----------------------------------------------------------------------------
(* The theorems *)

LEMMA ArrayInit == Init => ArrayInv /\ ReadBack /\ Flat!Init
<1> SUFFICES ASSUME Init PROVE ArrayInv /\ ReadBack /\ Flat!Init
  OBVIOUS
<1>1. PICK junk \in Junk : b = NewByteArray(junk)
  BY DEF Init
<1>2. junk \in Byte /\ BaseSize \in Nat \ {0}
  BY JunkIsByte, Bases
<1>3. PICK block \in Seq(Byte) : block = Block(junk) /\ Len(block) = BaseSize
  <2>1. PICK base \in Nat : base = BaseSize
    BY <1>2
  <2>2. [i \in 1 .. base |-> junk] \in Seq(Byte) /\ Len([i \in 1 .. base |-> junk]) = base
    BY <1>2
  <2> QED
    BY <2>1, <2>2, Zenon DEF Block
<1>4. /\ b.mem = block /\ b.curr = 1 /\ b.position = 0 /\ b.capacity = BaseSize
      /\ b.size = 0 /\ b.endian = "little" /\ b.crashed = FALSE
  BY <1>1, <1>3 DEF NewByteArray
<1>5. b \in ArrayType
  BY <1>1, <1>2, <1>3 DEF NewByteArray, ArrayType, Endian
<1>6. Address(b) = 0
  BY <1>2, <1>4 DEF Address
<1>7. BaseSize % BaseSize = 0 /\ 0 < BaseSize /\ 0 <= 0
  <2>1. (1 * BaseSize + 0) % BaseSize = 0
    BY <1>2, DivModUnique
  <2> QED
    BY <1>2, <2>1
<1>8. Good(b)
  BY <1>3, <1>4, <1>5, <1>6, <1>7 DEF Good
<1>9. SubSeq(b.mem, 1, b.size) = <<>>
  BY <1>4, SubSeqEmpty
<1>10. items = {} /\ got = NotRead /\ out = <<>>
  BY DEF Init
<1>11. ReadBack
  BY <1>10 DEF ReadBack, NotRead
<1> QED
  BY <1>4, <1>8, <1>9, <1>10, <1>11 DEF ArrayInv, Flat!Init

LEMMA ArrayStep ==
    ASSUME Careful, ItemsFit, ArrayInv, Next
    PROVE  GoodStep
<1>1. CASE WriteItem
  BY <1>1, WriteItemStep
<1>2. CASE ReadItem
  BY <1>2, ReadItemStep
<1>3. CASE ReadThrows
  BY <1>3, ReadThrowsStep
<1>4. CASE SetPosition
  BY <1>4, SetPositionStep
<1>5. CASE Clear
  BY <1>5, ClearStep
<1>6. CASE SetEndian
  BY <1>6, SetEndianStep
<1>7. CASE Receive
  BY <1>7, ReceiveStep
<1>8. CASE Look
  BY <1>8, LookStep
<1>9. CASE WriteToFile
  BY <1>9, WriteToFileStep
<1>10. CASE ReadFromFile
  BY <1>10, ReadFromFileStep
<1> QED
  BY <1>1, <1>2, <1>3, <1>4, <1>5, <1>6, <1>7, <1>8, <1>9, <1>10 DEF Next

LEMMA ArrayAlways ==
    ASSUME Careful, ItemsFit
    PROVE  Spec => [](ArrayInv /\ ReadBack)
<1>1. Init => ArrayInv /\ ReadBack
  BY ArrayInit
<1>2. ArrayInv /\ ReadBack /\ [Next]_vars => (ArrayInv /\ ReadBack)'
  <2> SUFFICES ASSUME ArrayInv, ReadBack, [Next]_vars
               PROVE  (ArrayInv /\ ReadBack)'
    OBVIOUS
  <2>1. CASE Next
    BY <2>1, ArrayStep DEF GoodStep
  <2>2. CASE UNCHANGED vars
    BY <2>2 DEF vars, ArrayInv, ReadBack
  <2> QED
    BY <2>1, <2>2
<1> QED
  BY <1>1, <1>2, PTL DEF Spec

(* A careful caller never meets the end of the list of blocks, whatever    *)
(* the size of a block: write, read, setPosition, writeToFile and the      *)
(* socket's buffers find the block of every byte they touch.               *)
THEOREM NeverCrashes ==
    ASSUME Careful, ItemsFit
    PROVE  Spec => []NoCrash
<1>1. ArrayInv => NoCrash
  BY DEF ArrayInv, Good, NoCrash
<1> QED
  BY <1>1, ArrayAlways, PTL

(* What a careful caller reads at the place where it wrote an item, or     *)
(* received one from the socket, in the same byte order, is the item,      *)
(* whatever was written elsewhere meanwhile and however many blocks the    *)
(* item crosses: for every radix, every width and every size of a block.   *)
THEOREM WrittenIsRead ==
    ASSUME Careful, ItemsFit
    PROVE  Spec => []ReadBack
  BY ArrayAlways, PTL

(* For a careful caller the list of blocks with its current block is a     *)
(* sequence of bytes with a position.                                      *)
THEOREM BlocksAreFlat ==
    ASSUME Careful, ItemsFit
    PROVE  Spec => IsFlat
<1>1. Init => Flat!Init
  BY ArrayInit
<1>2. ArrayInv /\ [Next]_vars => [Flat!Next]_(Flat!vars)
  <2> SUFFICES ASSUME ArrayInv, [Next]_vars PROVE [Flat!Next]_(Flat!vars)
    OBVIOUS
  <2>1. CASE Next
    BY <2>1, ArrayStep DEF GoodStep
  <2>2. CASE UNCHANGED vars
    BY <2>2 DEF vars, Flat!vars
  <2> QED
    BY <2>1, <2>2
<1> QED
  BY <1>1, <1>2, ArrayAlways, PTL DEF Spec, IsFlat, Flat!Spec
=============================================================================

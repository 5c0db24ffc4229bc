---------------------------- MODULE BignumProofs ----------------------------
(***************************************************************************)
(* Byte vectors and numbers are the same thing, at any width: both         *)
(* conversions are inverse to each other, and the first byte in which two  *)
(* vectors differ decides which number is the smaller one.                 *)
(*                                                                         *)
(* The loops of bignum.cpp are recursive functions here.  What their       *)
(* rounds have in common is proved by induction on a set of rounds, which  *)
(* WFMin, a fact about well-founded relations, gives.                      *)
(***************************************************************************)
EXTENDS Bignum, WellFoundedInduction, TLAPS

-----------------------------------------------------------------------------
(* Induction over the rounds of a loop *)

\* A set that has 0, and with a round the next one, has all rounds.
LEMMA UpTo ==
  ASSUME NEW m \in Nat, NEW S, 0 \in S, \A n \in 0..m - 1 : n \in S => n + 1 \in S
  PROVE  0..m \subseteq S
<1> DEFINE T == {n \in 0..m : n \notin S}
<1>1. SUFFICES ASSUME T # {} PROVE FALSE
  OBVIOUS
<1>2. PICK R : R = OpToRel(<, Nat)
  OBVIOUS
<1>3. IsWellFoundedOn(R, Nat)
  BY <1>2, NatLessThanWellFounded
<1>4. T \subseteq Nat
  OBVIOUS
<1>5. \E x \in T : \A y \in T : ~(<<y, x>> \in R)
  <2> HIDE DEF T
  <2> QED
    BY <1>1, <1>3, <1>4, WFMin
<1>6. PICK x \in T : \A y \in T : ~(<<y, x>> \in R)
  BY <1>5
<1>7. R = {ss \in Nat \X Nat : ss[1] < ss[2]}
  BY <1>2 DEF OpToRel
<1>8. \A y \in T : ~(y < x)
  <2>1. SUFFICES ASSUME NEW y \in T, y < x PROVE <<y, x>> \in R
    BY <1>6
  <2>2. y \in Nat /\ x \in Nat
    OBVIOUS
  <2> QED
    BY <1>7, <2>1, <2>2
<1>9. x # 0 /\ x - 1 \in 0..m - 1 /\ x - 1 \notin T /\ (x - 1) + 1 = x
  BY <1>6, <1>8
<1> QED
  BY <1>6, <1>9

\* A loop of m rounds has a result.
LEMMA LoopResult ==
  \A m, first \in Nat : \A step \in [1..m -> [Nat -> Nat]] :
    \E f \in [0..m -> Nat] : f[0] = first /\ \A i \in 1..m : f[i] = step[i][f[i - 1]]
<1> SUFFICES ASSUME NEW m \in Nat, NEW first \in Nat, NEW step \in [1..m -> [Nat -> Nat]]
             PROVE  \E f \in [0..m -> Nat] :
                      f[0] = first /\ \A i \in 1..m : f[i] = step[i][f[i - 1]]
  OBVIOUS
<1> DEFINE After(n, f) == f[0] = first /\ \A i \in 1..n : f[i] = step[i][f[i - 1]]
           S == {n \in 0..m : \E f \in [0..n -> Nat] : After(n, f)}
<1>1. 0 \in S
  <2>1. [i \in 0..0 |-> first] \in [0..0 -> Nat] /\ After(0, [i \in 0..0 |-> first])
    OBVIOUS
  <2>2. \E f \in [0..0 -> Nat] : After(0, f)
    <3> HIDE DEF After
    <3> QED
      BY <2>1
  <2> QED
    BY <2>2
<1>2. ASSUME NEW n \in 0..m - 1, n \in S PROVE n + 1 \in S
  <2>1. PICK f \in [0..n -> Nat] : After(n, f)
    BY <1>2
  <2> DEFINE g == [i \in 0..n + 1 |-> IF i = n + 1 THEN step[n + 1][f[n]] ELSE f[i]]
  <2>2. g \in [0..n + 1 -> Nat]
    <3>1. step[n + 1][f[n]] \in Nat
      <4>1. n + 1 \in 1..m /\ n \in 0..n
        OBVIOUS
      <4>2. step[n + 1] \in [Nat -> Nat] /\ f[n] \in Nat
        BY <4>1
      <4> QED
        BY <4>2
    <3>2. \A i \in 0..n + 1 : i # n + 1 => f[i] \in Nat
      OBVIOUS
    <3> QED
      BY <3>1, <3>2
  <2>3. ASSUME NEW i \in 1..n + 1 PROVE g[i] = step[i][g[i - 1]]
    <3>1. CASE i = n + 1
      BY <3>1
    <3>2. CASE i \in 1..n
      <4>1. /\ i \in 0..n + 1 /\ i # n + 1
            /\ i - 1 \in 0..n + 1 /\ i - 1 # n + 1
        BY <3>2
      <4>2. g[i] = f[i] /\ g[i - 1] = f[i - 1]
        BY <4>1
      <4> QED
        BY <2>1, <3>2, <4>2
    <3> QED
      BY <3>1, <3>2
  <2>4. g[0] = first
    BY <2>1
  <2>5. After(n + 1, g)
    BY <2>3, <2>4
  <2>6. \E h \in [0..n + 1 -> Nat] : After(n + 1, h)
    <3> HIDE DEF After, g
    <3> QED
      BY <2>2, <2>5
  <2>7. n + 1 \in 0..m
    OBVIOUS
  <2> HIDE DEF After
  <2> QED
    BY <2>6, <2>7
<1>3. m \in S
  <2>1. m \in 0..m
    OBVIOUS
  <2> HIDE DEF S
  <2>2. 0..m \subseteq S
    BY <1>1, <1>2, UpTo
  <2> QED
    BY <2>1, <2>2
<1> QED
  BY <1>3

-----------------------------------------------------------------------------
(* Arithmetic of one round *)

\* One more byte stays below one more shift.
LEMMA RoundBound ==
  ASSUME NEW x \in Nat, NEW p \in Nat, NEW r \in Nat, NEW b \in 0..r - 1, x < p
  PROVE  x * r + b < p * r
<1>1. (x + 1) * r <= p * r
  BY SMT
<1>2. (x + 1) * r = x * r + r
  BY SMT
<1> QED
  BY <1>1, <1>2

\* One byte less, one shift less.
LEMMA ShiftBound ==
  ASSUME NEW x \in Nat, NEW p \in Nat, NEW r \in Nat, r > 0, x < p * r
  PROVE  x \div r < p
  BY SMT

\* A number is its last byte and the rest.
LEMMA Division ==
  ASSUME NEW x \in Nat, NEW r \in Nat, r > 0
  PROVE  /\ x \div r \in Nat /\ x % r \in 0..r - 1
         /\ (x \div r) * r + (x % r) = x
  BY SMT

\* Appending a byte and dropping it again.
LEMMA Unshift ==
  ASSUME NEW x \in Nat, NEW r \in Nat, NEW b \in 0..r - 1
  PROVE  (x * r + b) \div r = x /\ (x * r + b) % r = b
  BY SMT
-----------------------------------------------------------------------------
(* The loops *)

\* Shifts of one, up to the width.
LEMMA PowerDef ==
  /\ power \in [0..Bytes -> Nat]
  /\ power[0] = 1
  /\ \A i \in 1..Bytes : power[i] = power[i - 1] * Radix
<1> USE BignumAssumption
<1> DEFINE Loop(f) == [i \in 0..Bytes |-> IF i = 0 THEN 1 ELSE f[i - 1] * Radix]
           step == [i \in 1..Bytes |-> [x \in Nat |-> x * Radix]]
<1>1. ASSUME NEW i \in 1..Bytes, NEW x \in Nat PROVE x * Radix \in Nat
  OBVIOUS
<1>2. step \in [1..Bytes -> [Nat -> Nat]]
  BY <1>1
<1>3. PICK f \in [0..Bytes -> Nat] :
        f[0] = 1 /\ \A i \in 1..Bytes : f[i] = step[i][f[i - 1]]
  <2>1. Bytes \in Nat /\ 1 \in Nat
    OBVIOUS
  <2> HIDE DEF step
  <2> QED
    BY <1>2, <2>1, LoopResult, ZenonT(60)
<1>4. f = Loop(f)
  <2>1. ASSUME NEW i \in 1..Bytes PROVE f[i] = f[i - 1] * Radix
    <3>1. f[i - 1] \in Nat
      OBVIOUS
    <3> QED
      BY <1>3, <3>1
  <2> QED
    BY <1>3, <2>1
<1>5. power = Loop(power)
  <2>1. power = CHOOSE g : g = Loop(g)
    BY DEF power
  <2>2. \E g : g = Loop(g)
    BY <1>4
  <2> HIDE DEF Loop
  <2> QED
    BY <2>1, <2>2
<1>6. power[0] = 1
  BY <1>5
<1>7. ASSUME NEW i \in 1..Bytes PROVE power[i] = power[i - 1] * Radix
  <2>1. i \in 0..Bytes /\ i # 0
    OBVIOUS
  <2> QED
    BY <1>5, <2>1
<1>8. \A i \in 0..Bytes : power[i] \in Nat
  <2> DEFINE S == {i \in 0..Bytes : power[i] \in Nat}
  <2>1. 0 \in S
    BY <1>6
  <2>2. ASSUME NEW n \in 0..Bytes - 1, n \in S PROVE n + 1 \in S
    <3>1. n + 1 \in 1..Bytes /\ (n + 1) - 1 = n /\ power[n] \in Nat
      BY <2>2
    <3>2. power[n + 1] = power[n] * Radix
      BY <1>7, <3>1
    <3>3. power[n] * Radix \in Nat
      BY <1>1, <3>1
    <3> QED
      BY <3>1, <3>2, <3>3
  <2> HIDE DEF S
  <2>3. 0..Bytes \subseteq S
    BY <2>1, <2>2, UpTo
  <2> QED
    BY <2>3 DEF S
<1> QED
  BY <1>5, <1>6, <1>7, <1>8

\* The rounds of fromByteVector: shift and add a byte.
LEMMA GatheredDef ==
  ASSUME NEW vec \in Vectors
  PROVE  /\ gathered(vec) \in [0..Bytes -> Nat]
         /\ gathered(vec)[0] = 0
         /\ \A i \in 1..Bytes : gathered(vec)[i] = gathered(vec)[i - 1] * Radix + vec[i]
<1> USE BignumAssumption
<1> DEFINE Loop(f) == [i \in 0..Bytes |-> IF i = 0 THEN 0 ELSE f[i - 1] * Radix + vec[i]]
           step == [i \in 1..Bytes |-> [x \in Nat |-> x * Radix + vec[i]]]
<1>1. ASSUME NEW i \in 1..Bytes, NEW x \in Nat PROVE x * Radix + vec[i] \in Nat
  BY DEF Vectors
<1>2. step \in [1..Bytes -> [Nat -> Nat]]
  BY <1>1
<1>3. PICK f \in [0..Bytes -> Nat] :
        f[0] = 0 /\ \A i \in 1..Bytes : f[i] = step[i][f[i - 1]]
  <2>1. Bytes \in Nat /\ 0 \in Nat
    OBVIOUS
  <2> HIDE DEF step
  <2> QED
    BY <1>2, <2>1, LoopResult, ZenonT(60)
<1>4. f = Loop(f)
  <2>1. ASSUME NEW i \in 1..Bytes PROVE f[i] = f[i - 1] * Radix + vec[i]
    <3>1. f[i - 1] \in Nat
      OBVIOUS
    <3> QED
      BY <1>3, <3>1
  <2> QED
    BY <1>3, <2>1
<1>5. gathered(vec) = Loop(gathered(vec))
  <2>1. gathered(vec) = CHOOSE g : g = Loop(g)
    BY DEF gathered
  <2>2. \E g : g = Loop(g)
    BY <1>4
  <2> HIDE DEF Loop
  <2> QED
    BY <2>1, <2>2
<1>6. gathered(vec)[0] = 0
  BY <1>5
<1>7. ASSUME NEW i \in 1..Bytes PROVE gathered(vec)[i] = gathered(vec)[i - 1] * Radix + vec[i]
  <2>1. i \in 0..Bytes /\ i # 0
    OBVIOUS
  <2> QED
    BY <1>5, <2>1
<1>8. \A i \in 0..Bytes : gathered(vec)[i] \in Nat
  <2> DEFINE S == {i \in 0..Bytes : gathered(vec)[i] \in Nat}
  <2>1. 0 \in S
    BY <1>6
  <2>2. ASSUME NEW n \in 0..Bytes - 1, n \in S PROVE n + 1 \in S
    <3>1. n + 1 \in 1..Bytes /\ (n + 1) - 1 = n /\ gathered(vec)[n] \in Nat
      BY <2>2
    <3>2. gathered(vec)[n + 1] = gathered(vec)[n] * Radix + vec[n + 1]
      BY <1>7, <3>1
    <3>3. gathered(vec)[n] * Radix + vec[n + 1] \in Nat
      BY <1>1, <3>1
    <3> QED
      BY <3>1, <3>2, <3>3
  <2> HIDE DEF S
  <2>3. 0..Bytes \subseteq S
    BY <2>1, <2>2, UpTo
  <2> QED
    BY <2>3 DEF S
<1> QED
  BY <1>5, <1>6, <1>7, <1>8

\* The rounds of toByteVector: drop a byte.
LEMMA ShiftedDef ==
  ASSUME NEW val \in Nat
  PROVE  /\ shifted(val) \in [0..Bytes -> Nat]
         /\ shifted(val)[0] = val
         /\ \A i \in 1..Bytes : shifted(val)[i] = shifted(val)[i - 1] \div Radix
<1> USE BignumAssumption
<1> DEFINE Loop(f) == [i \in 0..Bytes |-> IF i = 0 THEN val ELSE f[i - 1] \div Radix]
           step == [i \in 1..Bytes |-> [x \in Nat |-> x \div Radix]]
<1>1. ASSUME NEW i \in 1..Bytes, NEW x \in Nat PROVE x \div Radix \in Nat
  BY Division
<1>2. step \in [1..Bytes -> [Nat -> Nat]]
  BY <1>1
<1>3. PICK f \in [0..Bytes -> Nat] :
        f[0] = val /\ \A i \in 1..Bytes : f[i] = step[i][f[i - 1]]
  <2>1. Bytes \in Nat /\ val \in Nat
    OBVIOUS
  <2>2. \A rounds \in [1..Bytes -> [Nat -> Nat]] : \E f \in [0..Bytes -> Nat] :
          f[0] = val /\ \A i \in 1..Bytes : f[i] = rounds[i][f[i - 1]]
    BY <2>1, LoopResult, ZenonT(60)
  <2> HIDE DEF step
  <2> QED
    BY <1>2, <2>2
<1>4. f = Loop(f)
  <2>1. ASSUME NEW i \in 1..Bytes PROVE f[i] = f[i - 1] \div Radix
    <3>1. f[i - 1] \in Nat
      OBVIOUS
    <3> QED
      BY <1>3, <3>1
  <2> QED
    BY <1>3, <2>1
<1>5. shifted(val) = Loop(shifted(val))
  <2>1. shifted(val) = CHOOSE g : g = Loop(g)
    BY DEF shifted
  <2>2. \E g : g = Loop(g)
    BY <1>4
  <2> HIDE DEF Loop
  <2> QED
    BY <2>1, <2>2
<1>6. shifted(val)[0] = val
  BY <1>5
<1>7. ASSUME NEW i \in 1..Bytes PROVE shifted(val)[i] = shifted(val)[i - 1] \div Radix
  <2>1. i \in 0..Bytes /\ i # 0
    OBVIOUS
  <2> QED
    BY <1>5, <2>1
<1>8. \A i \in 0..Bytes : shifted(val)[i] \in Nat
  <2> DEFINE S == {i \in 0..Bytes : shifted(val)[i] \in Nat}
  <2>1. 0 \in S
    BY <1>6
  <2>2. ASSUME NEW n \in 0..Bytes - 1, n \in S PROVE n + 1 \in S
    <3>1. n + 1 \in 1..Bytes /\ (n + 1) - 1 = n /\ shifted(val)[n] \in Nat
      BY <2>2
    <3>2. shifted(val)[n + 1] = shifted(val)[n] \div Radix
      BY <1>7, <3>1
    <3>3. shifted(val)[n] \div Radix \in Nat
      BY <1>1, <3>1
    <3> QED
      BY <3>1, <3>2, <3>3
  <2> HIDE DEF S
  <2>3. 0..Bytes \subseteq S
    BY <2>1, <2>2, UpTo
  <2> QED
    BY <2>3 DEF S
<1> QED
  BY <1>5, <1>6, <1>7, <1>8

-----------------------------------------------------------------------------
(* Numbers and vectors *)

\* i bytes make a number below 1 << 8 * i.
LEMMA GatheredBound ==
  ASSUME NEW vec \in Vectors
  PROVE  \A i \in 0..Bytes : gathered(vec)[i] < power[i]
<1> USE BignumAssumption
<1> DEFINE S == {i \in 0..Bytes : gathered(vec)[i] < power[i]}
<1>1. 0 \in S
  BY GatheredDef, PowerDef
<1>2. ASSUME NEW n \in 0..Bytes - 1, n \in S PROVE n + 1 \in S
  <2>1. n + 1 \in 1..Bytes /\ (n + 1) - 1 = n /\ n + 1 \in 0..Bytes
    OBVIOUS
  <2>2. gathered(vec)[n] \in Nat /\ power[n] \in Nat /\ vec[n + 1] \in 0..Radix - 1
    <3>1. gathered(vec)[n] \in Nat /\ power[n] \in Nat
      <4>1. n \in 0..Bytes
        OBVIOUS
      <4>2. gathered(vec)[n] \in Nat
        BY <4>1, GatheredDef
      <4>3. power[n] \in Nat
        BY <4>1, PowerDef
      <4> QED
        BY <4>2, <4>3
    <3>2. vec[n + 1] \in 0..Radix - 1
      BY <2>1 DEF Vectors
    <3> QED
      BY <3>1, <3>2
  <2>3. gathered(vec)[n] * Radix + vec[n + 1] < power[n] * Radix
    BY <1>2, <2>2, RoundBound
  <2>4. /\ gathered(vec)[n + 1] = gathered(vec)[n] * Radix + vec[n + 1]
        /\ power[n + 1] = power[n] * Radix
    BY <2>1, GatheredDef, PowerDef
  <2> QED
    BY <2>1, <2>3, <2>4
<1>3. 0..Bytes \subseteq S
  <2> HIDE DEF S
  <2> QED
    BY <1>1, <1>2, UpTo
<1> QED
  BY <1>3

\* Every vector is a number of the width (bignum.cpp:6-20).
LEMMA FromByteVectorType ==
  ASSUME NEW vec \in Vectors
  PROVE  fromByteVector(vec) \in 0..MaxNumber
<1>1. /\ gathered(vec)[Bytes] \in Nat /\ power[Bytes] \in Nat
      /\ gathered(vec)[Bytes] < power[Bytes]
  BY BignumAssumption, GatheredDef, GatheredBound, PowerDef
<1> QED
  BY <1>1 DEF fromByteVector, MaxNumber

\* Whatever the number, its bytes are bytes (bignum.cpp:22-33).
LEMMA ToByteVectorType ==
  ASSUME NEW val \in Nat
  PROVE  toByteVector(val) \in Vectors
<1>1. ASSUME NEW i \in 1..Bytes PROVE shifted(val)[Bytes - i] % Radix \in 0..Radix - 1
  <2>1. shifted(val)[Bytes - i] \in Nat
    BY BignumAssumption, ShiftedDef
  <2> QED
    BY <2>1, BignumAssumption, Division
<1> QED
  BY <1>1 DEF toByteVector, Vectors

\* A number of the width is used up by as many rounds as there are bytes.
LEMMA ShiftedBound ==
  ASSUME NEW val \in 0..MaxNumber
  PROVE  \A i \in 0..Bytes : shifted(val)[i] < power[Bytes - i]
<1> USE BignumAssumption
<1> DEFINE S == {i \in 0..Bytes : shifted(val)[i] < power[Bytes - i]}
<1>0. val \in Nat /\ power[Bytes] \in Nat /\ val < power[Bytes]
  BY PowerDef DEF MaxNumber
<1>1. 0 \in S
  <2>1. shifted(val)[0] = val /\ Bytes - 0 = Bytes
    BY <1>0, ShiftedDef
  <2> QED
    BY <1>0, <2>1
<1>2. ASSUME NEW n \in 0..Bytes - 1, n \in S PROVE n + 1 \in S
  <2> DEFINE k == Bytes - (n + 1)
  <2>1. /\ n + 1 \in 1..Bytes /\ (n + 1) - 1 = n /\ n + 1 \in 0..Bytes /\ n \in 0..Bytes
        /\ Bytes - n \in 1..Bytes /\ (Bytes - n) - 1 = k /\ k \in 0..Bytes
    OBVIOUS
  <2>2. shifted(val)[n] \in Nat /\ power[k] \in Nat
    BY <1>0, <2>1, ShiftedDef, PowerDef
  <2>3. shifted(val)[n] < power[k] * Radix
    BY <1>2, <2>1, PowerDef
  <2>4. shifted(val)[n] \div Radix < power[k]
    BY <2>2, <2>3, ShiftBound
  <2>5. shifted(val)[n + 1] = shifted(val)[n] \div Radix
    BY <1>0, <2>1, ShiftedDef
  <2> QED
    BY <2>1, <2>4, <2>5
<1>3. 0..Bytes \subseteq S
  <2> HIDE DEF S
  <2> QED
    BY <1>1, <1>2, UpTo
<1> QED
  BY <1>3

\* fromByteVector() gives back the number that toByteVector() was given: its
\* rounds put together again what the rounds of the other have dropped.
THEOREM NumbersComeBack ==
  \A val \in 0..MaxNumber : fromByteVector(toByteVector(val)) = val
<1> SUFFICES ASSUME NEW val \in 0..MaxNumber
             PROVE  fromByteVector(toByteVector(val)) = val
  OBVIOUS
<1> USE BignumAssumption
<1> DEFINE vec == toByteVector(val)
           S == {i \in 0..Bytes : gathered(vec)[i] = shifted(val)[Bytes - i]}
<1>0. val \in Nat /\ vec \in Vectors
  BY PowerDef, ToByteVectorType DEF MaxNumber
<1>1. 0 \in S
  <2>1. shifted(val)[Bytes] \in Nat /\ shifted(val)[Bytes] < 1
    <3>1. Bytes \in 0..Bytes /\ Bytes - Bytes = 0
      OBVIOUS
    <3>2. shifted(val)[Bytes] \in Nat
      BY <1>0, <3>1, ShiftedDef
    <3> QED
      BY <3>1, <3>2, ShiftedBound, PowerDef
  <2>2. gathered(vec)[0] = 0
    BY <1>0, GatheredDef
  <2> QED
    BY <2>1, <2>2
<1>2. ASSUME NEW n \in 0..Bytes - 1, n \in S PROVE n + 1 \in S
  <2> DEFINE k == Bytes - (n + 1)
  <2>1. /\ n + 1 \in 1..Bytes /\ (n + 1) - 1 = n /\ n + 1 \in 0..Bytes
        /\ Bytes - n \in 1..Bytes /\ (Bytes - n) - 1 = k /\ k \in 0..Bytes
    OBVIOUS
  <2>2. gathered(vec)[n + 1] = gathered(vec)[n] * Radix + vec[n + 1]
    BY <1>0, <2>1, GatheredDef
  <2>3. vec[n + 1] = shifted(val)[k] % Radix
    BY <2>1 DEF toByteVector
  <2>4. gathered(vec)[n] = shifted(val)[k] \div Radix
    BY <1>0, <1>2, <2>1, ShiftedDef
  <2>5. shifted(val)[k] \in Nat
    BY <1>0, <2>1, ShiftedDef
  <2>6. (shifted(val)[k] \div Radix) * Radix + (shifted(val)[k] % Radix) = shifted(val)[k]
    <3>1. Radix \in Nat /\ Radix > 0
      OBVIOUS
    <3> HIDE DEF k
    <3> QED
      BY <2>5, <3>1, Division
  <2>7. gathered(vec)[n + 1] = shifted(val)[k]
    <3> HIDE DEF vec, k
    <3> QED
      BY <2>2, <2>3, <2>4, <2>6
  <2> QED
    BY <2>1, <2>7
<1>3. 0..Bytes \subseteq S
  <2> HIDE DEF S
  <2> QED
    BY <1>1, <1>2, UpTo
<1>4. gathered(vec)[Bytes] = shifted(val)[0]
  BY <1>3
<1> QED
  BY <1>0, <1>4, ShiftedDef DEF fromByteVector

\* toByteVector() gives back the vector of which fromByteVector() was given the
\* number: no two vectors are the same number.
THEOREM VectorsComeBack ==
  \A vec \in Vectors : toByteVector(fromByteVector(vec)) = vec
<1> SUFFICES ASSUME NEW vec \in Vectors
             PROVE  toByteVector(fromByteVector(vec)) = vec
  OBVIOUS
<1> USE BignumAssumption
<1>0. PICK val \in Nat : val = fromByteVector(vec)
  BY FromByteVectorType
<1> DEFINE S == {i \in 0..Bytes : shifted(val)[i] = gathered(vec)[Bytes - i]}
<1>1. \A k \in 0..Bytes - 1 :
        /\ gathered(vec)[k] \in Nat /\ vec[k + 1] \in 0..Radix - 1
        /\ gathered(vec)[k + 1] = gathered(vec)[k] * Radix + vec[k + 1]
  <2> SUFFICES ASSUME NEW k \in 0..Bytes - 1
               PROVE  /\ gathered(vec)[k] \in Nat /\ vec[k + 1] \in 0..Radix - 1
                      /\ gathered(vec)[k + 1] = gathered(vec)[k] * Radix + vec[k + 1]
    OBVIOUS
  <2>1. k + 1 \in 1..Bytes /\ (k + 1) - 1 = k /\ k \in 0..Bytes
    OBVIOUS
  <2>2. vec[k + 1] \in 0..Radix - 1
    BY <2>1 DEF Vectors
  <2> QED
    BY <2>1, <2>2, GatheredDef
<1>2. \A k \in 0..Bytes - 1 :
        /\ gathered(vec)[k + 1] \div Radix = gathered(vec)[k]
        /\ gathered(vec)[k + 1] % Radix = vec[k + 1]
  <2> SUFFICES ASSUME NEW k \in 0..Bytes - 1
               PROVE  /\ gathered(vec)[k + 1] \div Radix = gathered(vec)[k]
                      /\ gathered(vec)[k + 1] % Radix = vec[k + 1]
    OBVIOUS
  <2> DEFINE a == gathered(vec)[k]
             b == vec[k + 1]
  <2>0. a \in Nat /\ b \in 0..Radix - 1 /\ Radix \in Nat
    BY <1>1
  <2>1. (a * Radix + b) \div Radix = a /\ (a * Radix + b) % Radix = b
    <3> HIDE DEF a, b, S
    <3> QED
      BY ONLY <2>0, Unshift
  <2> QED
    BY <1>1, <2>1
<1>3. 0 \in S
  <2>1. shifted(val)[0] = val /\ Bytes - 0 = Bytes
    BY ShiftedDef
  <2> QED
    BY <1>0, <2>1 DEF fromByteVector
<1>4. ASSUME NEW n \in 0..Bytes - 1, n \in S PROVE n + 1 \in S
  <2> DEFINE k == Bytes - (n + 1)
  <2>1. /\ n + 1 \in 1..Bytes /\ (n + 1) - 1 = n /\ n + 1 \in 0..Bytes
        /\ k \in 0..Bytes - 1 /\ k + 1 = Bytes - n
    OBVIOUS
  <2>2. shifted(val)[n + 1] = shifted(val)[n] \div Radix
    BY <2>1, ShiftedDef
  <2>3. gathered(vec)[k + 1] \div Radix = gathered(vec)[k]
    BY <1>2, <2>1
  <2>4. shifted(val)[n + 1] = gathered(vec)[k]
    <3> HIDE DEF k
    <3> QED
      BY <1>4, <2>1, <2>2, <2>3
  <2> QED
    BY <2>1, <2>4
<1>5. 0..Bytes \subseteq S
  <2> HIDE DEF S
  <2> QED
    BY <1>3, <1>4, UpTo
<1>6. ASSUME NEW i \in 1..Bytes PROVE toByteVector(val)[i] = vec[i]
  <2>1. /\ Bytes - i \in 0..Bytes /\ Bytes - (Bytes - i) = i
        /\ i - 1 \in 0..Bytes - 1 /\ (i - 1) + 1 = i
    OBVIOUS
  <2>2. toByteVector(val)[i] = shifted(val)[Bytes - i] % Radix
    BY DEF toByteVector
  <2>3. shifted(val)[Bytes - i] = gathered(vec)[i]
    BY <1>5, <2>1
  <2>4. gathered(vec)[i] % Radix = vec[i]
    BY <1>2, <2>1
  <2> QED
    BY <2>2, <2>3, <2>4
<1>7. toByteVector(val) \in Vectors
  BY ToByteVectorType
<1> QED
  BY <1>0, <1>6, <1>7 DEF Vectors

\* What two vectors have in common counts the same.
LEMMA CommonPrefix ==
  ASSUME NEW v \in Vectors, NEW w \in Vectors, NEW k \in 0..Bytes,
         \A i \in 1..k : v[i] = w[i]
  PROVE  gathered(v)[k] = gathered(w)[k]
<1> USE BignumAssumption
<1> DEFINE S == {i \in 0..k : gathered(v)[i] = gathered(w)[i]}
<1>1. 0 \in S
  BY GatheredDef
<1>2. ASSUME NEW n \in 0..k - 1, n \in S PROVE n + 1 \in S
  <2>1. n + 1 \in 1..Bytes /\ (n + 1) - 1 = n /\ n + 1 \in 1..k
    OBVIOUS
  <2>2. /\ gathered(v)[n + 1] = gathered(v)[n] * Radix + v[n + 1]
        /\ gathered(w)[n + 1] = gathered(w)[n] * Radix + w[n + 1]
    BY <2>1, GatheredDef
  <2>3. v[n + 1] = w[n + 1]
    BY <2>1
  <2> QED
    BY <1>2, <2>1, <2>2, <2>3
<1>3. 0..k \subseteq S
  <2> HIDE DEF S
  <2> QED
    BY <1>1, <1>2, UpTo
<1> QED
  BY <1>3

\* Once it is ahead, a number stays ahead whatever bytes follow.
LEMMA StaysAhead ==
  ASSUME NEW v \in Vectors, NEW w \in Vectors, NEW k \in 0..Bytes,
         gathered(v)[k] < gathered(w)[k]
  PROVE  fromByteVector(v) < fromByteVector(w)
<1> USE BignumAssumption
<1> DEFINE S == {i \in 0..Bytes - k : gathered(v)[k + i] < gathered(w)[k + i]}
<1>1. 0 \in S
  OBVIOUS
<1>2. ASSUME NEW n \in 0..(Bytes - k) - 1, n \in S PROVE n + 1 \in S
  <2> DEFINE i == k + n
  <2>1. i + 1 \in 1..Bytes /\ (i + 1) - 1 = i /\ i \in 0..Bytes /\ k + (n + 1) = i + 1
    OBVIOUS
  <2>2. /\ gathered(v)[i] \in Nat /\ v[i + 1] \in 0..Radix - 1
        /\ gathered(w)[i] \in Nat /\ w[i + 1] \in Nat
    <3>1. v[i + 1] \in 0..Radix - 1 /\ w[i + 1] \in 0..Radix - 1
      BY <2>1 DEF Vectors
    <3>2. gathered(v) \in [0..Bytes -> Nat] /\ gathered(w) \in [0..Bytes -> Nat]
      BY GatheredDef
    <3> QED
      BY <2>1, <3>1, <3>2
  <2>3. gathered(v)[i] < gathered(w)[i]
    BY <1>2
  <2>4. gathered(v)[i] * Radix + v[i + 1] < gathered(w)[i] * Radix
    <3> HIDE DEF i
    <3> QED
      BY <2>2, <2>3, RoundBound
  <2>5. /\ gathered(v)[i + 1] = gathered(v)[i] * Radix + v[i + 1]
        /\ gathered(w)[i + 1] = gathered(w)[i] * Radix + w[i + 1]
    BY <2>1, GatheredDef
  <2>6. gathered(v)[i + 1] < gathered(w)[i + 1]
    <3>1. gathered(v)[i] * Radix + v[i + 1] \in Nat /\ gathered(w)[i] * Radix \in Nat
      <4> HIDE DEF i
      <4> QED
        BY <2>2
    <3> HIDE DEF i
    <3> QED
      BY <2>2, <2>4, <2>5, <3>1
  <2> QED
    BY <2>1, <2>6
<1>3. 0..Bytes - k \subseteq S
  <2>1. Bytes - k \in Nat
    OBVIOUS
  <2> HIDE DEF S
  <2> QED
    BY <1>1, <1>2, <2>1, UpTo
<1>4. gathered(v)[Bytes] < gathered(w)[Bytes]
  <2>1. Bytes - k \in 0..Bytes - k /\ k + (Bytes - k) = Bytes
    OBVIOUS
  <2> QED
    BY <1>3, <2>1
<1> QED
  BY <1>4 DEF fromByteVector

\* The first byte in which two vectors differ decides which number is smaller.
THEOREM FirstDifferenceDecides ==
  ASSUME NEW v \in Vectors, NEW w \in Vectors, NEW k \in 1..Bytes,
         \A i \in 1..k - 1 : v[i] = w[i], v[k] < w[k]
  PROVE  fromByteVector(v) < fromByteVector(w)
<1> USE BignumAssumption
<1>1. k - 1 \in 0..Bytes /\ k \in 0..Bytes
  OBVIOUS
<1>2. gathered(v)[k - 1] = gathered(w)[k - 1]
  BY <1>1, CommonPrefix
<1>3. /\ gathered(v)[k] = gathered(v)[k - 1] * Radix + v[k]
      /\ gathered(w)[k] = gathered(w)[k - 1] * Radix + w[k]
      /\ gathered(v)[k - 1] \in Nat
  BY <1>1, GatheredDef
<1>4. v[k] \in Nat /\ w[k] \in Nat
  BY DEF Vectors
<1>5. gathered(v)[k] < gathered(w)[k]
  BY <1>2, <1>3, <1>4
<1> QED
  BY <1>1, <1>5, StaysAhead
=============================================================================

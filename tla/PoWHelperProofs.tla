-------------------------- MODULE PoWHelperProofs --------------------------
(***************************************************************************)
(* Proofs about PoWHelper, at any width and for any parameters: types,     *)
(* what a verdict means, and which way a difficulty moves.                 *)
(***************************************************************************)
EXTENDS PoWHelper, BignumProofs

-----------------------------------------------------------------------------
(* Sequences of bytes, and the smaller and larger of two numbers *)

\* A vector is a sequence of as many bytes as the width has.
LEMMA VectorLen ==
  ASSUME NEW v \in Vectors
  PROVE  Len(v) = Bytes
<1>1. v \in Seq(0..Radix - 1)
  BY BignumAssumption DEF Vectors
<1>2. DOMAIN v = 1..Bytes /\ DOMAIN v = 1..Len(v) /\ Len(v) \in Nat
  BY <1>1 DEF Vectors
<1> QED
  BY <1>2, BignumAssumption

\* std::reverse() keeps the bytes, last one first (powhelper.cpp:94).
LEMMA ReverseVector ==
  ASSUME NEW v \in Vectors
  PROVE  /\ Reverse(v) \in Vectors
         /\ \A i \in 1..Bytes : Reverse(v)[i] = v[(Bytes - i) + 1]
<1>1. Reverse(v) = [i \in 1..Bytes |-> v[(Bytes - i) + 1]]
  BY VectorLen DEF Reverse
<1>2. \A i \in 1..Bytes : (Bytes - i) + 1 \in 1..Bytes
  BY BignumAssumption
<1>3. \A i \in 1..Bytes : v[(Bytes - i) + 1] \in 0..Radix - 1
  BY <1>2 DEF Vectors
<1> QED
  BY <1>1, <1>3 DEF Vectors

\* Vectors with the same bytes are the same.
LEMMA SameVector ==
  ASSUME NEW v \in Vectors, NEW w \in Vectors, \A i \in 1..Bytes : v[i] = w[i]
  PROVE  v = w
<1>1. v = [i \in 1..Bytes |-> v[i]] /\ w = [i \in 1..Bytes |-> w[i]]
  BY DEF Vectors
<1> QED
  BY <1>1

\* Reversed twice, a vector is itself.
LEMMA ReverseTwice ==
  ASSUME NEW v \in Vectors
  PROVE  Reverse(Reverse(v)) = v
<1>1. Reverse(v) \in Vectors /\ Reverse(Reverse(v)) \in Vectors
  BY ReverseVector
<1>2. ASSUME NEW i \in 1..Bytes PROVE Reverse(Reverse(v))[i] = v[i]
  <2> DEFINE j == (Bytes - i) + 1
  <2>1. j \in 1..Bytes /\ (Bytes - j) + 1 = i
    BY BignumAssumption
  <2>2. Reverse(Reverse(v))[i] = Reverse(v)[j]
    BY <1>1, ReverseVector
  <2>3. Reverse(v)[j] = v[(Bytes - j) + 1]
    BY <2>1, ReverseVector
  <2> QED
    BY <2>1, <2>2, <2>3
<1> QED
  BY <1>1, <1>2, SameVector

\* Some byte is the last one of those that differ.
LEMMA LastOne ==
  ASSUME NEW S \in SUBSET (1..Bytes), S # {}
  PROVE  Max(S) \in S /\ \A i \in S : i <= Max(S)
<1> USE BignumAssumption
<1> DEFINE Has(T) == \E x \in T : \A y \in T : x >= y
           N == {n \in 0..Bytes : \A T \in SUBSET (1..n) : T # {} => Has(T)}
<1>1. 0 \in N
  <2>1. 1..0 = {} /\ 0 \in 0..Bytes
    OBVIOUS
  <2> HIDE DEF Has
  <2> QED
    BY <2>1
<1>2. ASSUME NEW n \in 0..Bytes - 1, n \in N PROVE n + 1 \in N
  <2> SUFFICES ASSUME NEW T \in SUBSET (1..n + 1), T # {} PROVE Has(T)
    OBVIOUS
  <2>1. CASE n + 1 \in T
    BY <2>1
  <2>2. CASE n + 1 \notin T
    <3>1. T \in SUBSET (1..n)
      BY <2>2
    <3> QED
      BY <1>2, <3>1
  <2> QED
    BY <2>1, <2>2
<1>3. 0..Bytes \subseteq N
  <2> HIDE DEF N
  <2> QED
    BY <1>1, <1>2, UpTo
<1>4. Has(S)
  <2>1. Bytes \in N
    <3>1. Bytes \in 0..Bytes
      OBVIOUS
    <3> HIDE DEF N
    <3> QED
      BY <1>3, <3>1
  <2> HIDE DEF Has
  <2> QED
    BY <2>1
<1> QED
  BY <1>4 DEF Max

\* std::max and std::min of two.
LEMMA Larger ==
  ASSUME NEW a \in Int, NEW b \in Int
  PROVE  Max({a, b}) = IF a >= b THEN a ELSE b
  BY DEF Max

\* See Larger.
LEMMA Smaller ==
  ASSUME NEW a \in Int, NEW b \in Int
  PROVE  Min({a, b}) = IF a <= b THEN a ELSE b
  BY DEF Min

-----------------------------------------------------------------------------
(* What passes a target *)

\* The loop of passesTarget() compares two little-endian numbers
\* (powhelper.cpp:98-119).
THEOREM PassingIsNotExceeding ==
  \A h, t \in Vectors :
    passesTarget(h, t) <=> fromByteVector(Reverse(h)) <= fromByteVector(Reverse(t))
<1> SUFFICES ASSUME NEW h \in Vectors, NEW t \in Vectors
             PROVE  passesTarget(h, t) <=>
                      fromByteVector(Reverse(h)) <= fromByteVector(Reverse(t))
  OBVIOUS
<1> DEFINE differ == {i \in 1..Bytes : h[i] # t[i]}
           x == fromByteVector(Reverse(h))
           y == fromByteVector(Reverse(t))
<1>0. Reverse(h) \in Vectors /\ Reverse(t) \in Vectors
  BY ReverseVector
<1>1. x \in Int /\ y \in Int
  BY <1>0, FromByteVectorType
<1>2. passesTarget(h, t) <=> differ = {} \/ h[Max(differ)] < t[Max(differ)]
  BY VectorLen DEF passesTarget
<1>3. CASE differ = {}
  <2>1. h = t
    BY <1>3, SameVector
  <2> QED
    BY <1>1, <1>2, <1>3, <2>1
<1>4. CASE differ # {}
  <2>1. PICK m \in 1..Bytes : m = Max(differ) /\ h[m] # t[m] /\ \A i \in differ : i <= m
    <3>1. Max(differ) \in differ /\ \A i \in differ : i <= Max(differ)
      BY <1>4, LastOne
    <3> QED
      BY <3>1
  <2>2. PICK k \in 1..Bytes : k = (Bytes - m) + 1 /\ (Bytes - k) + 1 = m
    BY BignumAssumption
  <2>3. ASSUME NEW i \in 1..k - 1 PROVE Reverse(h)[i] = Reverse(t)[i]
    <3>1. i \in 1..Bytes /\ (Bytes - i) + 1 \in 1..Bytes /\ ~((Bytes - i) + 1 <= m)
      BY <2>2, BignumAssumption
    <3>2. h[(Bytes - i) + 1] = t[(Bytes - i) + 1]
      BY <2>1, <3>1
    <3> QED
      BY <3>1, <3>2, ReverseVector
  <2>4. Reverse(h)[k] = h[m] /\ Reverse(t)[k] = t[m]
    BY <2>2, ReverseVector
  <2>5. h[m] \in Int /\ t[m] \in Int
    BY DEF Vectors
  <2>6. CASE h[m] < t[m]
    <3>1. x < y
      BY <1>0, <2>3, <2>4, <2>6, FirstDifferenceDecides
    <3>2. passesTarget(h, t)
      <4> HIDE DEF differ
      <4> QED
        BY <1>2, <2>1, <2>6
    <3> QED
      BY <1>1, <3>1, <3>2
  <2>7. CASE t[m] < h[m]
    <3>1. y < x
      BY <1>0, <2>3, <2>4, <2>7, FirstDifferenceDecides
    <3>2. ~(h[m] < t[m])
      BY <2>5, <2>7
    <3>3. ~passesTarget(h, t)
      <4> HIDE DEF differ
      <4> QED
        BY <1>2, <1>4, <2>1, <3>2
    <3> QED
      BY <1>1, <3>1, <3>3
  <2>8. h[m] < t[m] \/ t[m] < h[m]
    <3>1. h[m] # t[m]
      BY <2>1
    <3> QED
      BY <2>5, <3>1
  <2> QED
    BY <2>6, <2>7, <2>8
<1> QED
  BY <1>3, <1>4

\* A quotient is not larger than what it is a quotient of, and may be multiplied
\* back.
LEMMA Quotient ==
  ASSUME NEW n \in Nat, NEW m \in Nat, NEW d \in Nat, d # 0
  PROVE  /\ m \div d \in 0..m
         /\ n <= m \div d <=> n * d <= m
  BY SMT

\* No bytes, no number.
LEMMA Zero ==
  /\ toByteVector(0) \in Vectors
  /\ Reverse(toByteVector(0)) = toByteVector(0)
  /\ fromByteVector(toByteVector(0)) = 0
<1> USE BignumAssumption
<1>1. PICK zero \in Vectors : \A i \in 1..Bytes : zero[i] = 0
  <2>1. [i \in 1..Bytes |-> 0] \in Vectors
    BY DEF Vectors
  <2> QED
    BY <2>1
<1>2. fromByteVector(zero) = 0
  <2> DEFINE S == {i \in 0..Bytes : gathered(zero)[i] = 0}
  <2>1. 0 \in S
    BY GatheredDef
  <2>2. ASSUME NEW n \in 0..Bytes - 1, n \in S PROVE n + 1 \in S
    <3>1. n + 1 \in 1..Bytes /\ (n + 1) - 1 = n /\ n + 1 \in 0..Bytes
      OBVIOUS
    <3>2. gathered(zero)[n + 1] = gathered(zero)[n] * Radix + zero[n + 1]
      BY <3>1, GatheredDef
    <3>3. gathered(zero)[n] = 0 /\ zero[n + 1] = 0
      BY <1>1, <2>2, <3>1
    <3> QED
      BY <3>1, <3>2, <3>3
  <2>3. Bytes \in S
    <3>1. Bytes \in 0..Bytes
      OBVIOUS
    <3> HIDE DEF S
    <3>2. 0..Bytes \subseteq S
      BY <2>1, <2>2, UpTo
    <3> QED
      BY <3>1, <3>2
  <2> QED
    BY <2>3 DEF fromByteVector
<1>3. toByteVector(0) = zero
  BY <1>2, VectorsComeBack
<1>4. Reverse(zero) = zero
  <2>1. ASSUME NEW i \in 1..Bytes PROVE Reverse(zero)[i] = zero[i]
    <3>1. (Bytes - i) + 1 \in 1..Bytes
      OBVIOUS
    <3> QED
      BY <1>1, <3>1, ReverseVector
  <2> QED
    BY <2>1, ReverseVector, SameVector
<1> QED
  BY <1>2, <1>3, <1>4

\* The target of a difficulty, read as the little-endian number it is
\* (powhelper.cpp:81-96).
LEMMA TargetOf ==
  ASSUME NEW vec \in Vectors
  PROVE  LET d == fromByteVector(vec)
         IN /\ getTarget(vec) \in Vectors
            /\ fromByteVector(Reverse(getTarget(vec))) = IF d = 0 THEN 0 ELSE MaxNumber \div d
<1> DEFINE d == fromByteVector(vec)
<1>1. d \in 0..MaxNumber /\ MaxNumber \in Nat
  BY FromByteVectorType, PoWAssumption, PowerDef, BignumAssumption DEF MaxNumber
<1>2. CASE d = 0
  BY <1>2, Zero DEF getTarget
<1>3. CASE d # 0
  <2>1. PICK q \in 0..MaxNumber : q = MaxNumber \div d
    <3> HIDE DEF d
    <3>1. MaxNumber \div d \in 0..MaxNumber
      BY <1>1, <1>3, Quotient
    <3> QED
      BY <3>1
  <2>2. toByteVector(q) \in Vectors
    BY <1>1, ToByteVectorType
  <2>3. getTarget(vec) = Reverse(toByteVector(q))
    BY <1>3, <2>1 DEF getTarget
  <2>4. Reverse(getTarget(vec)) = toByteVector(q) /\ getTarget(vec) \in Vectors
    BY <2>2, <2>3, ReverseTwice, ReverseVector
  <2> QED
    BY <1>3, <2>1, <2>4, NumbersComeBack
<1> QED
  BY <1>2, <1>3

-----------------------------------------------------------------------------
(* The next difficulty *)

\* A cast rounds towards zero: it keeps the sign and does not exceed the quotient.
LEMMA TruncatedBounds ==
  ASSUME NEW a \in Int, NEW b \in Nat, b # 0
  PROVE  /\ Truncated(a, b) \in Int
         /\ a >= 0 => 0 <= Truncated(a, b) /\ Truncated(a, b) * b <= a
         /\ a <= 0 => Truncated(a, b) <= 0 /\ a <= Truncated(a, b) * b
<1>1. CASE a >= 0
  <2>1. a \div b \in Nat /\ (a \div b) * b <= a
    BY <1>1, SMT
  <2>2. a = 0 => a \div b = 0
    BY SMT
  <2> QED
    BY <1>1, <2>1, <2>2 DEF Truncated
<1>2. CASE a < 0
  <2>1. PICK c \in Nat : c = -a
    BY <1>2
  <2>2. c \div b \in Nat /\ (c \div b) * b <= c
    BY SMT
  <2>3. Truncated(a, b) = -(c \div b)
    BY <1>2, <2>1 DEF Truncated
  <2>4. PICK q \in Nat : q = c \div b /\ q * b <= c
    BY <2>2
  <2>5. (-q) * b = -(q * b)
    BY SMT
  <2> QED
    BY <1>2, <2>1, <2>3, <2>4, <2>5
<1> QED
  BY <1>1, <1>2

\* The parameters are numbers.
LEMMA ParameterTypes ==
  ASSUME ph \in Parameters
  PROVE  /\ ph.kp \in Int /\ ph.lower \in Int /\ ph.upper \in Int
         /\ ph.set_point \in Nat /\ ph.set_point # 0
         /\ ph.quantization \in Nat /\ ph.quantization # 0
  BY PoWAssumption

\* The adjustment is within its boundaries, if there is room between them, and
\* has the sign of the time that is left (powhelper.cpp:52-63).
LEMMA AdjustmentBounds ==
  ASSUME ph \in Parameters, NEW m \in Measurements
  PROVE  LET a == Adjustment(m)
         IN /\ a \in Int
            /\ ph.lower <= ph.upper => ph.lower <= a /\ a <= ph.upper
            /\ ph.kp >= 0 /\ ph.lower <= 0 /\ ph.upper >= 0 =>
                 /\ m > ph.set_point => a <= 0
                 /\ m < ph.set_point => a >= 0
<1> DEFINE left == ph.kp * ph.set_point - ph.kp * m
           wanted == Truncated(left, ph.set_point)
<1>0. /\ ph.kp \in Int /\ ph.lower \in Int /\ ph.upper \in Int
      /\ ph.set_point \in Nat /\ ph.set_point # 0 /\ m \in Nat
  BY ParameterTypes, PoWAssumption
<1>1. left \in Int
  BY <1>0
<1>2. /\ wanted \in Int
      /\ left >= 0 => wanted >= 0
      /\ left <= 0 => wanted <= 0
  <2> HIDE DEF left
  <2> QED
    BY <1>0, <1>1, TruncatedBounds
<1>3. /\ ph.kp >= 0 /\ m > ph.set_point => left <= 0
      /\ ph.kp >= 0 /\ m < ph.set_point => left >= 0
  BY <1>0, SMT
<1>4. Min({ph.upper, wanted}) = IF ph.upper <= wanted THEN ph.upper ELSE wanted
  <2> HIDE DEF wanted
  <2> QED
    BY <1>0, <1>2, Smaller
<1>5. PICK n \in Int : n = Min({ph.upper, wanted}) /\ (n = ph.upper \/ n = wanted)
                       /\ n <= ph.upper /\ n <= wanted
  <2> HIDE DEF wanted
  <2> QED
    BY <1>0, <1>2, <1>4
<1>6. Adjustment(m) = IF ph.lower >= n THEN ph.lower ELSE n
  <2>1. Adjustment(m) = Max({ph.lower, n})
    BY <1>5 DEF Adjustment
  <2> QED
    BY <1>0, <2>1, Larger
<1> HIDE DEF left, wanted
<1> QED
  BY <1>0, <1>1, <1>2, <1>3, <1>5, <1>6

\* A difficulty is at least 2 and fits (powhelper.cpp:72-76).
LEMMA BoundedDef ==
  ASSUME NEW x \in Int
  PROVE  /\ MaxNumber \in Nat /\ Bounded(x) \in 2..MaxNumber
         /\ Bounded(x) = IF x <= 2 THEN 2 ELSE IF x <= MaxNumber THEN x ELSE MaxNumber
<1>1. MaxNumber \in Nat /\ 2 <= MaxNumber
  BY PoWAssumption, PowerDef, BignumAssumption DEF MaxNumber
<1>2. PICK y \in Int : y = Max({2, x}) /\ y = IF x <= 2 THEN 2 ELSE x
  BY Larger
<1>3. Bounded(x) = IF MaxNumber <= y THEN MaxNumber ELSE y
  BY <1>1, <1>2, Smaller DEF Bounded
<1> QED
  BY <1>1, <1>2, <1>3

\* A step has the sign of the adjustment, and is the share of the difficulty that
\* the adjustment asks for, or 1 (powhelper.cpp:65-70).
LEMMA DeltaBounds ==
  ASSUME ph \in Parameters, NEW d \in Nat, NEW a \in Int
  PROVE  LET step == Delta(d, a)
             q == ph.quantization
         IN /\ step \in Int
            /\ a = 0 => step = 0
            /\ a > 0 => step > 0 /\ (step = 1 \/ step * q <= d * a)
            /\ a < 0 => step < 0 /\ (step = -1 \/ d * a <= step * q)
<1>1. PICK q \in Nat : q = ph.quantization /\ q # 0
  BY ParameterTypes
<1>2. PICK x \in Int : x = d * a
  OBVIOUS
<1>3. PICK delta \in Int :
        /\ delta = Truncated(d * a, ph.quantization)
        /\ x >= 0 => 0 <= delta /\ delta * q <= x
        /\ x <= 0 => delta <= 0 /\ x <= delta * q
  BY <1>1, <1>2, TruncatedBounds
<1>4. Delta(d, a) = IF delta # 0 THEN delta
                    ELSE CASE a < 0 -> -1 [] a = 0 -> 0 [] a > 0 -> 1
  BY <1>3 DEF Delta
<1>5. (a >= 0 => x >= 0) /\ (a <= 0 => x <= 0)
  BY <1>2, SMT
<1>6. CASE delta # 0
  <2>1. Delta(d, a) = delta
    BY <1>4, <1>6
  <2> QED
    BY <1>1, <1>2, <1>3, <1>5, <1>6, <2>1
<1>7. CASE delta = 0 /\ a < 0
  <2>1. Delta(d, a) = -1
    BY <1>4, <1>7
  <2> QED
    BY <1>7, <2>1
<1>8. CASE delta = 0 /\ a > 0
  <2>1. Delta(d, a) = 1
    BY <1>4, <1>8
  <2> QED
    BY <1>8, <2>1
<1>9. CASE delta = 0 /\ a = 0
  <2>1. Delta(d, a) = 0
    BY <1>4, <1>9
  <2> QED
    BY <1>9, <2>1
<1> QED
  BY <1>6, <1>7, <1>8, <1>9

\* The new difficulty, as a number.
LEMMA GetDifficultyNumber ==
  ASSUME ph \in Parameters, NEW vec \in Vectors, NEW m \in Measurements
  PROVE  LET d == fromByteVector(vec)
         IN /\ getDifficulty(m, vec) \in Vectors
            /\ fromByteVector(getDifficulty(m, vec)) = Bounded(d + Delta(d, Adjustment(m)))
<1>1. PICK d \in Nat : d = fromByteVector(vec)
  BY FromByteVectorType
<1>2. PICK a \in Int : a = Adjustment(m)
  BY AdjustmentBounds
<1>3. PICK step \in Int : step = Delta(d, a)
  BY DeltaBounds
<1>4. PICK e \in 2..MaxNumber : e = Bounded(d + step)
  BY BoundedDef
<1>5. e \in Nat /\ e \in 0..MaxNumber
  BY BoundedDef
<1>6. getDifficulty(m, vec) = toByteVector(e)
  BY <1>1, <1>2, <1>3, <1>4 DEF getDifficulty
<1> QED
  BY <1>1, <1>2, <1>3, <1>4, <1>5, <1>6, ToByteVectorType, NumbersComeBack

-----------------------------------------------------------------------------
(* The chain *)

\* What holds between the calls: the target is that of the difficulty, and the
\* verdict is about this hash and this target.
PoWInv ==
  /\ TypeOK
  /\ target = getTarget(difficulty)
  /\ verdict # "none" => (verdict = "accepted" <=> passesTarget(hash, target))

\* It holds before the first block.
LEMMA PoWInit == Init => PoWInv
<1> SUFFICES ASSUME Init PROVE PoWInv
  OBVIOUS
<1>1. getTarget(difficulty) \in Vectors /\ toByteVector(0) \in Vectors
  BY TargetOf, Zero DEF Init
<1> QED
  BY <1>1 DEF Init, PoWInv, TypeOK

\* Neither a new block nor a verification breaks it.
LEMMA PoWStep == PoWInv /\ [Next]_vars => PoWInv'
<1> SUFFICES ASSUME PoWInv, [Next]_vars PROVE PoWInv'
  OBVIOUS
<1>1. ASSUME NEW m \in Measurements, Retarget(m) PROVE PoWInv'
  <2>1. difficulty' \in Vectors /\ difficulty' = getDifficulty(m, difficulty)
    BY <1>1, GetDifficultyNumber DEF PoWInv, TypeOK, Retarget
  <2>2. getTarget(difficulty') \in Vectors /\ toByteVector(0) \in Vectors
    BY <2>1, TargetOf, Zero
  <2> QED
    BY <1>1, <2>1, <2>2 DEF Retarget, PoWInv, TypeOK
<1>2. ASSUME NEW h \in Vectors, verifyInput(h) PROVE PoWInv'
  BY <1>2 DEF verifyInput, PoWInv, TypeOK
<1>3. CASE UNCHANGED vars
  BY <1>3 DEF vars, PoWInv, TypeOK
<1> QED
  BY <1>1, <1>2, <1>3 DEF Next

\* The target is always that of the difficulty.
LEMMA PoWInvariant == Spec => []PoWInv
  BY PoWInit, PoWStep, PTL DEF Spec

\* Difficulty, target and hash are byte vectors, whatever the block times and the
\* parameters.
THEOREM PoWTypeCorrect == Spec => []TypeOK
<1>1. PoWInv => TypeOK
  BY DEF PoWInv
<1> QED
  BY <1>1, PoWInvariant, PTL

\* A hash is accepted exactly if hash times difficulty fits into the width: the
\* byte orders of difficulty, target and comparison agree.
THEOREM VerdictIsTheDifficultys == Spec => []VerdictMatchesDifficulty
<1>1. PoWInv => VerdictMatchesDifficulty
  <2> SUFFICES ASSUME PoWInv, verdict # "none"
               PROVE  LET number == fromByteVector(Reverse(hash))
                          d == fromByteVector(difficulty)
                      IN verdict = "accepted" <=> IF d = 0 THEN number = 0
                                                  ELSE number * d <= MaxNumber
    BY DEF VerdictMatchesDifficulty
  <2>1. difficulty \in Vectors /\ hash \in Vectors /\ target \in Vectors
    BY DEF PoWInv, TypeOK
  <2>2. PICK number \in Nat : number = fromByteVector(Reverse(hash))
    BY <2>1, ReverseVector, FromByteVectorType
  <2>3. PICK d \in Nat : d = fromByteVector(difficulty)
    BY <2>1, FromByteVectorType
  <2>4. verdict = "accepted" <=> number <= fromByteVector(Reverse(target))
    BY <2>1, <2>2, PassingIsNotExceeding DEF PoWInv
  <2>5. fromByteVector(Reverse(target)) = IF d = 0 THEN 0 ELSE MaxNumber \div d
    BY <2>1, <2>3, TargetOf DEF PoWInv
  <2>6. MaxNumber \in Nat
    BY BoundedDef
  <2>7. d # 0 => (number <= MaxNumber \div d <=> number * d <= MaxNumber)
    BY <2>6, Quotient
  <2> QED
    BY <2>2, <2>3, <2>4, <2>5, <2>7
<1> QED
  BY <1>1, PoWInvariant, PTL

\* More of the same is more.
LEMMA MonotoneProduct ==
  ASSUME NEW x \in Int, NEW y \in Int, NEW q \in Nat, x <= y
  PROVE  x * q <= y * q
  BY SMT

\* One retargeting, as arithmetic: from d by a step to e, the bounded sum.
LEMMA Steering ==
  ASSUME NEW d \in Nat, NEW a \in Int, NEW q \in Nat, q # 0, NEW step \in Int, NEW e \in Int,
         NEW max \in Nat, 2 <= d, d <= max,
         e = IF d + step <= 2 THEN 2 ELSE IF d + step <= max THEN d + step ELSE max,
         a = 0 => step = 0,
         a > 0 => step > 0 /\ (step = 1 \/ step * q <= d * a),
         a < 0 => step < 0 /\ (step = -1 \/ d * a <= step * q)
  PROVE  /\ a <= 0 => e <= d
         /\ a >= 0 => e >= d
         /\ a > 0 => e > d \/ e = max
         /\ a < 0 => e < d \/ e = 2
         /\ (e - d) * q <= q \/ (a > 0 /\ (e - d) * q <= d * a)
         /\ (d - e) * q <= q \/ (a < 0 /\ (d - e) * q <= -(d * a))
<1>1. /\ a <= 0 => e <= d
      /\ a >= 0 => e >= d
      /\ a > 0 => e > d \/ e = max
      /\ a < 0 => e < d \/ e = 2
  OBVIOUS
<1>2. (e - d) * q <= q \/ (a > 0 /\ (e - d) * q <= d * a)
  <2>1. CASE e <= d + 1
    <3>1. e - d \in Int /\ e - d <= 1
      BY <2>1
    <3>2. (e - d) * q <= 1 * q
      BY <3>1, MonotoneProduct
    <3> QED
      BY <3>2
  <2>2. CASE e > d + 1
    <3>1. a > 0 /\ e - d \in Int /\ e - d <= step /\ step # 1
      BY <2>2
    <3>2. (e - d) * q <= step * q
      BY <3>1, MonotoneProduct
    <3>3. (e - d) * q \in Int /\ step * q \in Int /\ d * a \in Int
      BY <3>1
    <3> QED
      BY <3>1, <3>2, <3>3
  <2> QED
    BY <2>1, <2>2
<1>3. (d - e) * q <= q \/ (a < 0 /\ (d - e) * q <= -(d * a))
  <2>1. CASE d - e <= 1
    <3>1. d - e \in Int
      OBVIOUS
    <3>2. (d - e) * q <= 1 * q
      BY <2>1, <3>1, MonotoneProduct
    <3> QED
      BY <3>2
  <2>2. CASE d - e > 1
    <3>1. a < 0 /\ d - e \in Int /\ -step \in Int /\ d - e <= -step /\ step # -1
      BY <2>2
    <3>2. (d - e) * q <= (-step) * q
      BY <3>1, MonotoneProduct
    <3>3. (-step) * q = -(step * q) /\ step * q \in Int /\ d * a \in Int /\ (d - e) * q \in Int
      BY <3>1, SMT
    <3> QED
      BY <3>1, <3>2, <3>3
  <2> QED
    BY <2>1, <2>2
<1> QED
  BY <1>1, <1>2, <1>3

\* A slow block never makes the next one harder nor a fast one easier, an adjustment
\* moves the difficulty, and by no more than its boundaries allow.
THEOREM DifficultyIsSteered == Spec => RetargetsTowardsSetPoint
<1>1. ASSUME PoWInv, NEW m \in Measurements, Retarget(m) PROVE Steered(m)
  <2>1. /\ ph \in Parameters /\ difficulty \in Vectors
        /\ difficulty' = getDifficulty(m, difficulty)
    BY <1>1 DEF PoWInv, TypeOK, Retarget
  <2>2. PICK d \in 0..MaxNumber : d = fromByteVector(difficulty)
    BY <2>1, FromByteVectorType
  <2>3. PICK a \in Int : a = Adjustment(m)
    BY <2>1, AdjustmentBounds
  <2>4. PICK q \in Nat : q = ph.quantization /\ q # 0
    BY <2>1, ParameterTypes
  <2>5. MaxNumber \in Nat /\ d \in Nat /\ d <= MaxNumber
    BY BoundedDef
  <2>6. PICK step \in Int :
          /\ step = Delta(d, a)
          /\ a = 0 => step = 0
          /\ a > 0 => step > 0 /\ (step = 1 \/ step * q <= d * a)
          /\ a < 0 => step < 0 /\ (step = -1 \/ d * a <= step * q)
    BY <2>1, <2>4, <2>5, DeltaBounds
  <2>7. PICK e \in 2..MaxNumber :
          /\ e = fromByteVector(difficulty')
          /\ e = IF d + step <= 2 THEN 2 ELSE IF d + step <= MaxNumber THEN d + step ELSE MaxNumber
    <3>1. fromByteVector(difficulty') = Bounded(d + step)
      BY <1>1, <2>1, <2>2, <2>3, <2>6, GetDifficultyNumber
    <3> QED
      BY <2>5, <2>6, <3>1, BoundedDef
  <2>8. d >= 2 =>
          /\ a <= 0 => e <= d
          /\ a >= 0 => e >= d
          /\ a > 0 => e > d \/ e = MaxNumber
          /\ a < 0 => e < d \/ e = 2
          /\ (e - d) * q <= q \/ (a > 0 /\ (e - d) * q <= d * a)
          /\ (d - e) * q <= q \/ (a < 0 /\ (d - e) * q <= -(d * a))
    <3> HAVE d >= 2
    <3> QED
      BY <2>4, <2>5, <2>6, <2>7, Steering
  <2>9. /\ ph.lower \in Int /\ ph.upper \in Int /\ ph.kp \in Int
        /\ ph.lower <= ph.upper => ph.lower <= a /\ a <= ph.upper
        /\ ph.kp >= 0 /\ ph.lower <= 0 /\ ph.upper >= 0 =>
             /\ m > ph.set_point => a <= 0
             /\ m < ph.set_point => a >= 0
    BY <2>1, <2>3, ParameterTypes, AdjustmentBounds
  <2>10. PICK high \in Int, low \in Int : high = d * ph.upper /\ low = -(d * ph.lower)
    BY <2>5, <2>9
  <2>11. ph.lower <= ph.upper => d * a <= high /\ -(d * a) <= low
    <3> HAVE ph.lower <= ph.upper
    <3>1. ph.lower * d <= a * d /\ a * d <= ph.upper * d
      BY <2>5, <2>9, MonotoneProduct
    <3> QED
      BY <2>5, <2>9, <2>10, <3>1, SMT
  <2>12. /\ Max({q, high}) = IF q >= high THEN q ELSE high
         /\ Max({q, low}) = IF q >= low THEN q ELSE low
    BY <2>4, <2>10, Larger
  <2>13. d >= 2 /\ ph.lower <= ph.upper =>
           (e - d) * q <= Max({q, high}) /\ (d - e) * q <= Max({q, low})
    <3>1. PICK up \in Int, down \in Int, da \in Int :
            up = (e - d) * q /\ down = (d - e) * q /\ da = d * a
      BY <2>4, <2>5, <2>7
    <3>2. d >= 2 => (up <= q \/ up <= da) /\ (down <= q \/ down <= -da)
      BY <2>8, <3>1
    <3>3. ph.lower <= ph.upper => da <= high /\ -da <= low
      BY <2>11, <3>1
    <3> HAVE d >= 2 /\ ph.lower <= ph.upper
    <3> QED
      BY <2>12, <3>1, <3>2, <3>3
  <2> QED
    BY <2>2, <2>3, <2>4, <2>7, <2>8, <2>9, <2>10, <2>13 DEF Steered
<1>2. PoWInv /\ [Next]_vars =>
        [\A measurement \in Measurements : Retarget(measurement) => Steered(measurement)]_vars
  BY <1>1
<1> QED
  BY <1>2, PoWInvariant, PTL DEF RetargetsTowardsSetPoint, Spec
=============================================================================

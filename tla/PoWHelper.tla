----------------------------- MODULE PoWHelper -----------------------------
(***************************************************************************)
(* A chain of blocks whose difficulty a PoWHelper adapts to the time each  *)
(* block took, and the verification of inputs against it.                  *)
(*                                                                         *)
(* The adjustment is computed here with exact fractions, where the code    *)
(* has doubles: with the magnitudes of a block time (Kp * measurement      *)
(* below 2^53) the two agree, as a quotient is an integer or at least      *)
(* 1 / set_point away from one.  A set point of 0 is excluded: the code    *)
(* divides by it and casts the infinity to a long.                         *)
(***************************************************************************)
EXTENDS Bignum, FiniteSets, FiniteSetsExt, SequencesExt

CONSTANTS
  Parameters,   \* what PoWHelpers are constructed with
  Measurements  \* the times a block may take

ASSUME PoWAssumption ==
  /\ Parameters \subseteq [kp: Int, set_point: Nat \ {0}, lower: Int, upper: Int,
                           quantization: Nat \ {0}]
  /\ Measurements \subseteq Nat
  /\ 2 <= MaxNumber  \* the lower bound of a difficulty fits

VARIABLES
  ph,          \* the parameters of the PoWHelper
  difficulty,  \* a byte vector, like ...
  target,
  hash,        \* ... the hash last verified against the target
  verdict      \* what verifyInput() said of it

vars == <<ph, difficulty, target, hash, verdict>>

\* Mutant of Truncated: \div rounds down.
Floored(a, b) == a \div b

\* C++ division and the cast of a double round towards zero.
Truncated(a, b) == IF a >= 0 THEN a \div b ELSE -((-a) \div b)

\* The two boundaries in the order in which the code applies them.
Adjustment(measurement) ==
  LET wanted == Truncated(ph.kp * ph.set_point - ph.kp * measurement, ph.set_point)
  IN Max({ph.lower, Min({ph.upper, wanted})})

\* A step that rounds to nothing is still made.
Delta(parent, adjustment) ==
  LET delta == Truncated(parent * adjustment, ph.quantization)
  IN IF delta # 0 THEN delta
     ELSE CASE adjustment < 0 -> -1
            [] adjustment = 0 -> 0
            [] adjustment > 0 -> 1

\* From 2, "to avoid issues with the target", to what fits.
Bounded(number) == Min({MaxNumber, Max({2, number})})

getDifficulty(measurement, parent) ==
  LET number == fromByteVector(parent)
  IN toByteVector(Bounded(number + Delta(number, Adjustment(measurement))))

\* Mutant of getTarget: not reversed.
bigEndianTarget(vec) == toByteVector(MaxNumber \div Max({1, fromByteVector(vec)}))

\* Monero's hashes are little endian, and so is the target.
getTarget(vec) ==
  IF fromByteVector(vec) = 0 THEN toByteVector(0)
  ELSE Reverse(toByteVector(MaxNumber \div fromByteVector(vec)))

\* The most significant byte in which they differ decides.
passesTarget(h, t) ==
  /\ Len(h) = Bytes /\ Len(t) = Bytes
  /\ LET differ == {i \in 1..Bytes : h[i] # t[i]}
     IN differ = {} \/ h[Max(differ)] < t[Max(differ)]

-----------------------------------------------------------------------------

Init ==
  /\ ph \in Parameters
  /\ difficulty \in Vectors
  /\ target = getTarget(difficulty)
  /\ hash = toByteVector(0) /\ verdict = "none"

\* A block took that long: the difficulty and the target of the next one.
Retarget(measurement) ==
  /\ verdict' = "none" /\ hash' = toByteVector(0)
  /\ difficulty' = getDifficulty(measurement, difficulty)
  /\ target' = getTarget(difficulty')
  /\ UNCHANGED ph

\* The hash of an input may be anything.
verifyInput(h) ==
  /\ hash' = h
  /\ verdict' = IF passesTarget(h, target) THEN "accepted" ELSE "rejected"
  /\ UNCHANGED <<ph, difficulty, target>>

Next ==
  \/ \E measurement \in Measurements : Retarget(measurement)
  \/ \E h \in Vectors : verifyInput(h)

Spec == Init /\ [][Next]_vars

-----------------------------------------------------------------------------

\* Type invariant.
TypeOK ==
  /\ ph \in Parameters
  /\ difficulty \in Vectors /\ target \in Vectors /\ hash \in Vectors
  /\ verdict \in {"none", "accepted", "rejected"}

\* An input is accepted exactly if its hash, read as the little-endian number it
\* is, times the difficulty fits into the width: a difficulty of d lets one hash
\* of d pass.  Three byte orders have to agree for this (powhelper.cpp:81-119,
\* bignum.cpp).
VerdictMatchesDifficulty ==
  verdict # "none" =>
    LET number == fromByteVector(Reverse(hash))
        d == fromByteVector(difficulty)
    IN verdict = "accepted" <=> IF d = 0 THEN number = 0 ELSE number * d <= MaxNumber

\* The block time moves the difficulty d to e as the controller promises.
Steered(measurement) ==
  LET d == fromByteVector(difficulty)
      e == fromByteVector(difficulty')
      a == Adjustment(measurement)
  IN /\ e \in 2..MaxNumber
     /\ d >= 2 /\ ph.kp >= 0 /\ ph.lower <= 0 /\ ph.upper >= 0 =>
          /\ measurement > ph.set_point => e <= d
          /\ measurement < ph.set_point => e >= d
     /\ d >= 2 /\ a > 0 => e > d \/ e = MaxNumber
     /\ d >= 2 /\ a < 0 => e < d \/ e = 2
     /\ d >= 2 /\ ph.lower <= ph.upper =>
          /\ (e - d) * ph.quantization <= Max({ph.quantization, d * ph.upper})
          /\ (d - e) * ph.quantization <= Max({ph.quantization, -(d * ph.lower)})

\* A block that took too long never makes the next one harder, nor a fast one
\* easier; an adjustment that is not 0 does move a difficulty that has not
\* reached its bound, and none by more than the bounds of the adjustment
\* (powhelper.cpp:52-76).
RetargetsTowardsSetPoint ==
  [][\A measurement \in Measurements : Retarget(measurement) => Steered(measurement)]_vars
=============================================================================

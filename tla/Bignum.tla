------------------------------- MODULE Bignum -------------------------------
(***************************************************************************)
(* bignum.cpp: an unsigned number as a vector of bytes, the most           *)
(* significant one first, and back.  The program has 32 bytes of 256       *)
(* values.                                                                 *)
(***************************************************************************)
EXTENDS Integers, Sequences

CONSTANTS Bytes, Radix

ASSUME BignumAssumption == Bytes \in Nat \ {0} /\ Radix \in Nat \ {0, 1}

\* 1 << 8 * i
power[i \in 0..Bytes] == IF i = 0 THEN 1 ELSE power[i - 1] * Radix

\* std::numeric_limits<uint256_t>::max()
MaxNumber == power[Bytes] - 1

Vectors == [1..Bytes -> 0..Radix - 1]

\* tmp after i rounds of fromByteVector's loop.
gathered(vec) ==
  LET tmp[i \in 0..Bytes] == IF i = 0 THEN 0 ELSE tmp[i - 1] * Radix + vec[i]
  IN tmp

\* Of a vector of the right size; the exception for another one (8-11) is left out.
fromByteVector(vec) == gathered(vec)[Bytes]

\* What is left of val after i rounds of toByteVector's loop.
shifted(val) ==
  LET left[i \in 0..Bytes] == IF i = 0 THEN val ELSE left[i - 1] \div Radix
  IN left

\* Mutant of toByteVector: the bytes are not masked.
unmasked(val) == LET left == shifted(val) IN [i \in 1..Bytes |-> left[Bytes - i]]

toByteVector(val) ==
  LET left == shifted(val) IN [i \in 1..Bytes |-> left[Bytes - i] % Radix]
=============================================================================

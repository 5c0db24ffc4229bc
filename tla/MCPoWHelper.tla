---------------------------- MODULE MCPoWHelper ----------------------------
(***************************************************************************)
(* PoWHelper with numbers of three digits to the base 4.                   *)
(***************************************************************************)
EXTENDS PoWHelper

\* Scaled down from the defaults (100, 60, -1000, 1000, 1024); a strong
\* controller, whose adjustment exceeds its quantization; and one whose
\* boundaries exclude 0.
MCParameters ==
  {[kp |-> 5, set_point |-> 3, lower |-> -7, upper |-> 7, quantization |-> 8],
   [kp |-> 9, set_point |-> 2, lower |-> -20, upper |-> 12, quantization |-> 4],
   [kp |-> 1, set_point |-> 4, lower |-> 1, upper |-> 3, quantization |-> 5]}
=============================================================================

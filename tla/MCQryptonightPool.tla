------------------------- MODULE MCQryptonightPool -------------------------
(***************************************************************************)
(* QryptonightPool on small instances.                                     *)
(***************************************************************************)
EXTENDS QryptonightPool
=============================================================================

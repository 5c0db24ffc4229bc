--------------------------- MODULE MCQryptonight ---------------------------
(***************************************************************************)
(* Qryptonight on small instances: miners, whose objects come from one     *)
(* pool, and a thread that constructs its objects itself.                  *)
(***************************************************************************)
EXTENDS Qryptonight

CONSTANTS t1, t2, t3, minerPool

AllMine == [t \in Threads |-> minerPool]
OneDirect == [t \in Threads |-> IF t = t1 THEN NoPool ELSE minerPool]
=============================================================================

--------------------------- MODULE MCQryptominer ---------------------------
(***************************************************************************)
(* Qryptominer on small instances.  Both workers of a two-thread search    *)
(* for j1 meet a passing nonce at their first try.  Only the last nonce    *)
(* passes for j2: of four nonces worker 1 comes to it with its stride, at  *)
(* its second try.  Nothing passes for j3.                                 *)
(***************************************************************************)
EXTENDS QryptominerInv

CONSTANTS j1, j2, j3

MCWinning ==
  [p \in Jobs \X Jobs |->
     CASE p = <<j1, j1>> -> {0, 1}
       [] p = <<j2, j2>> -> {NonceMod - 1}
       [] OTHER -> {}]
=============================================================================

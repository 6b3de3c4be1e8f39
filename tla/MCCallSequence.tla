--------------------------- MODULE MCCallSequence ---------------------------
(* Two registers stand for the six: an argument beyond them is on the stack, *)
(* %rdx is the last one and %rcx the first.                                  *)
EXTENDS CallSequence
=============================================================================

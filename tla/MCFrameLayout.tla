--------------------------- MODULE MCFrameLayout ---------------------------
(* Values for the model checking of FrameLayout. *)
EXTENDS FrameLayout

CONSTANTS a, b, unnamed

MCNames == {a, b, unnamed}
MCUnnamed == {unnamed}
=============================================================================

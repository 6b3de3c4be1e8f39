--------------------------- MODULE MCSymbolTable ---------------------------
(* Values for the model checking of SymbolTable. *)
EXTENDS SymbolTable

CONSTANTS a, f

MCNames == {a, f}
MCParameterNames == {a}
MCPrelude == {f}
=============================================================================

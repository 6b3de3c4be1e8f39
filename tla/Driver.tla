------------------------------- MODULE Driver -------------------------------
(***************************************************************************)
(* What one call of Caramel does with its program (main.cpp, FrontEnd.cpp, *)
(* BackEnd.cpp): which of its phases are reached, what it leaves on the    *)
(* disk and what it returns.                                               *)
(*                                                                         *)
(* What the compiler makes of a program is its fate: an error of syntax,   *)
(* an error of semantics, an exception that ends the analysis ("front") or *)
(* the generation ("back"), assembly that the assembler refuses, assembly  *)
(* that computes something else than the program, or good assembly.        *)
(***************************************************************************)
Flags == {"good-defaults", "compile", "assemble", "syntax-tree-dot", "ast-dot", "ir-dot"}

Fates == {"syntax", "semantic", "front", "back", "refused", "wrong", "good"}

(* The good defaults turn on the generation of assembly; the others that they *)
(* name are off unless they are asked for.                                    *)
Config(flags) ==
  [compile       |-> flags \cap {"compile", "good-defaults"} # {},
   assemble      |-> "assemble" \in flags,
   syntaxTreeDot |-> "syntax-tree-dot" \in flags,
   irDot         |-> "ir-dot" \in flags]

(* The front end exits behind the syntax tree, at the first error of syntax,  *)
(* and after the analysis when it counted errors.                             *)
Parsed(fate) == fate # "syntax"
Analysed(c, fate) ==
  Parsed(fate) /\ ~c.syntaxTreeDot /\ fate \notin {"semantic", "front"}

Generates(c) == c.irDot \/ c.compile
WritesAssembly(c, fate) == Analysed(c, fate) /\ c.compile /\ fate # "back"
Assembles(c, fate) == WritesAssembly(c, fate) /\ c.assemble

(* The return code: an exit(1) of the front end, or the signal of abort().    *)
ReturnsZero(c, fate) ==
  \/ c.syntaxTreeDot /\ Parsed(fate)
  \/ Analysed(c, fate) /\ (Generates(c) => fate # "back")
=============================================================================

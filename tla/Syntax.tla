------------------------------- MODULE Syntax -------------------------------
(***************************************************************************)
(* Function bodies as the AST visitor builds them: expressions and control *)
(* structures.  An atom is an expression without && or || in it.           *)
(***************************************************************************)
EXTENDS Integers, Sequences

CONSTANTS
  Names,  \* of atoms
  Depth   \* how deep the statements of a body may nest

ASSUME DepthAssumption == Depth \in Nat

Atom(name) == [is |-> "atom", name |-> name]
Not(expression) == [is |-> "not", of |-> expression]
And(left, right) == [is |-> "and", left |-> left, right |-> right]
Or(left, right) == [is |-> "or", left |-> left, right |-> right]

If(cond, then, else) == [is |-> "if", cond |-> cond, then |-> then, else |-> else]
While(cond, body) == [is |-> "while", cond |-> cond, body |-> body]
Do(body, cond) == [is |-> "do", cond |-> cond, body |-> body]
For(begin, end, step, body) ==
  [is |-> "for", begin |-> begin, end |-> end, step |-> step, body |-> body]
Break == [is |-> "break"]
Return(value) == [is |-> "return", value |-> value]  \* of one expression or none

(* The expressions of at most n levels, and the statements.                  *)
Expressions[n \in 0..Depth] ==
  IF n = 0 THEN {}
  ELSE [is : {"atom"}, name : Names]
       \union [is : {"not"}, of : Expressions[n - 1]]
       \union [is : {"and", "or"}, left : Expressions[n - 1], right : Expressions[n - 1]]

Statements[n \in 0..Depth] ==
  IF n = 0 THEN {}
  ELSE LET Parts == Expressions[n - 1]
           Bodies == Seq(Statements[n - 1])
       IN Expressions[n]
          \union {Break}
          \union [is : {"return"}, value : {v \in Seq(Parts) : Len(v) <= 1}]
          \union [is : {"if"}, cond : Parts, then : Bodies, else : Bodies]
          \union [is : {"while", "do"}, cond : Parts, body : Bodies]
          \union [is : {"for"}, begin : Parts, end : Parts, step : Parts, body : Bodies]
=============================================================================

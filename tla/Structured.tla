----------------------------- MODULE Structured -----------------------------
(***************************************************************************)
(* What the body of a function means: the order in which the control       *)
(* structures of the source let its expressions be evaluated.  This is the *)
(* promise that the basic blocks of ControlFlow keep.                      *)
(*                                                                         *)
(* What an atom evaluates to is up to the data.  What is left to run is a  *)
(* sequence of statements, expressions and marks.                          *)
(***************************************************************************)
EXTENDS Sequences, Syntax

CONSTANT Programs  \* bodies of functions: sequences of statements

VARIABLES
  rest,   \* what is left of the body; an atom comes first, if there is one
  ended   \* whether the function has returned

vars == <<rest, ended>>

-----------------------------------------------------------------------------
(* Marks: what is done with the value of the expression just evaluated *)

Choice(yes, no) == [is |-> "choice", yes |-> yes, no |-> no]
Negation == [is |-> "negation"]
Again(cond, body) == [is |-> "again", cond |-> cond, body |-> body]
LoopEnd == [is |-> "loop end"]
Leave == [is |-> "leave"]

RECURSIVE AfterLoop(_)
AfterLoop(items) ==
  IF Head(items) = LoopEnd THEN Tail(items) ELSE AfterLoop(Tail(items))

(* What is left once the value of the last expression is known.              *)
RECURSIVE Settle(_, _)
Settle(items, value) ==
  IF items = <<>> THEN <<>>
  ELSE LET item == Head(items)
           after == Tail(items)
       IN CASE item.is = "atom" -> items
            [] item.is = "not" -> Settle(<<item.of, Negation>> \o after, value)
            [] item.is = "negation" -> Settle(after, ~ value)
            [] item.is = "and" ->
                 Settle(<<item.left, Choice(<<item.right>>, <<>>)>> \o after, value)
            [] item.is = "or" ->
                 Settle(<<item.left, Choice(<<>>, <<item.right>>)>> \o after, value)
            [] item.is = "choice" ->
                 Settle((IF value THEN item.yes ELSE item.no) \o after, value)
            [] item.is = "if" ->
                 Settle(<<item.cond, Choice(item.then, item.else)>> \o after, value)
            [] item.is = "while" ->
                 Settle(<<Again(item.cond, item.body), LoopEnd>> \o after, value)
            [] item.is = "do" ->
                 Settle(item.body \o <<Again(item.cond, item.body), LoopEnd>> \o after, value)
            [] item.is = "for" ->
                 Settle(<<item.begin, Again(item.end, item.body \o <<item.step>>), LoopEnd>>
                          \o after, value)
            [] item.is = "again" ->
                 Settle(<<item.cond, Choice(item.body \o <<item>>, <<>>)>> \o after, value)
            [] item.is = "loop end" -> Settle(after, value)
            [] item.is = "break" -> Settle(AfterLoop(after), value)
            [] item.is = "return" -> Settle(item.value \o <<Leave>>, value)
            [] item.is = "leave" -> <<>>

-----------------------------------------------------------------------------

Init ==
  /\ \E program \in Programs : rest = Settle(program, FALSE)
  /\ ended = FALSE

(* The next atom is evaluated, and no other.                                 *)
Evaluate ==
  /\ rest # <<>>
  /\ \E value \in BOOLEAN : rest' = Settle(Tail(rest), value)
  /\ UNCHANGED ended

(* The function returns once nothing is left.                                *)
End ==
  /\ rest = <<>>
  /\ ended' = TRUE
  /\ UNCHANGED rest

Next == Evaluate \/ End

Spec == Init /\ [][Next]_vars
=============================================================================

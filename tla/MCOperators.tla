---------------------------- MODULE MCOperators ----------------------------
(* Values for the model checking of Operators. *)
EXTENDS Operators, SequencesExt

CONSTANTS c, x, z

(* The variables by the order of their definitions, then the array, element 0 *)
(* lowest, as CFG::addSymbol and addArraySymbol lay them out.                 *)
Order == SetToSeq(CharVars) \o SetToSeq(Int32Vars) \o SetToSeq(Int64Vars)
MCPlace == [v \in Variables |->
              Int64 + MapThenSumSet(LAMBDA i : TypeOf(Order[i]),
                                    1..(CHOOSE n \in 1..Len(Order) : Order[n] = v))]
MCArrayPlace == Int64 + MapThenSumSet(TypeOf, Variables) + Length * ElementType
MCLocals == MCArrayPlace

Bits(v, w) == [k \in 1..w |-> Bit(v, w - k)]
Laid(v, e) ==
  FlattenSeq([i \in 1..Len(Order) |-> Bits(v[Order[i]], TypeOf(Order[i]))]) \o
  FlattenSeq([i \in 1..Length |-> Bits(e[Length - i], ElementType)])

MCInitials ==
  {Laid([v \in Variables |-> CASE v = c -> -1 [] v = x -> 2 [] v = z -> -3],
        [i \in Indices |-> 1 - 3 * i]),
   Laid([v \in Variables |-> CASE v = c -> 1 [] v = x -> -2 [] v = z -> 3],
        [i \in Indices |-> 2 * i - 1])}
=============================================================================

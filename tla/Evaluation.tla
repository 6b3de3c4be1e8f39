----------------------------- MODULE Evaluation -----------------------------
(***************************************************************************)
(* What an expression of C means, step by step: the values of the operands *)
(* that wait for their operator, those of the variables and those of one   *)
(* array.  Only what C defines is meant, so that arithmetic is exact; a    *)
(* conversion keeps the low bits.                                          *)
(*                                                                         *)
(* Operators shows how the instructions of the compiler implement it.      *)
(***************************************************************************)
EXTENDS Numbers, Sequences

VARIABLES
  vals,  \* the operands that wait, the one evaluated last at the end
  env,   \* the values of the variables
  elems, \* the values of the elements
  step   \* what was evaluated last

FromEnd(n) == vals[Len(vals) - n]
Replaced(n, v) == Append(SubSeq(vals, 1, Len(vals) - n), v)  \* v for the last n

Init ==
  vals = <<>> /\ step = <<>> /\ env \in [Variables -> Int] /\ elems \in [Indices -> Int]

(* A step without side effects: v for the last n operands.                    *)
Yield(s, n, v) ==
  step' = s /\ Len(vals) >= n /\ vals' = Replaced(n, v) /\ UNCHANGED <<env, elems>>

(* x, or element i, becomes v; r is the result for the last n operands.       *)
Store(s, x, v, n, r) ==
  /\ step' = s
  /\ Len(vals) >= n /\ vals' = Replaced(n, r) /\ env' = [env EXCEPT ![x] = v] /\ UNCHANGED elems
StoreAt(s, i, v, n, r) ==
  /\ step' = s
  /\ Len(vals) >= n /\ vals' = Replaced(n, r) /\ elems' = [elems EXCEPT ![i] = v] /\ UNCHANGED env

Literal(c) == Yield(<<"literal", c>>, 0, c)
Use(x) == Yield(<<"name", x>>, 0, env[x])
Element ==
  \E i \in Indices : Len(vals) >= 1 /\ FromEnd(0) = i /\ Yield(<<"element">>, 1, elems[i])
Negate == Len(vals) >= 1 /\ Yield(<<"negate">>, 1, -FromEnd(0))
Not == Len(vals) >= 1 /\ Yield(<<"not">>, 1, Truth(FromEnd(0) = 0))

Binary(op) ==
  /\ step' = <<"binary", op>>
  /\ Len(vals) >= 2 /\ Defined(op, FromEnd(1), FromEnd(0), Int64)
  /\ Yield(step', 2, Result(op, FromEnd(1), FromEnd(0)))

(* The value of a function that returns its parameter, of the given type.     *)
Call(type) == Len(vals) >= 1 /\ Yield(<<"call", type>>, 1, Convert(FromEnd(0), type))

Assign(x) ==
  /\ Len(vals) >= 1
  /\ LET v == Convert(FromEnd(0), TypeOf(x)) IN Store(<<"assign", x>>, x, v, 1, v)

(* x = a[i], in one step.                                                     *)
CopyElement(x, i) ==
  LET v == Convert(elems[i], TypeOf(x)) IN Store(<<"copy", x, i>>, x, v, 0, v)

(* x op= e                                                                    *)
Update(x, op) ==
  /\ step' = <<"update", op, x>>
  /\ Len(vals) >= 1 /\ Defined(op, env[x], FromEnd(0), Int64)
  /\ LET v == Convert(Result(op, env[x], FromEnd(0)), TypeOf(x)) IN Store(step', x, v, 1, v)

(* ++x, --x, x++ and x--.                                                     *)
Step(x, d, post) ==
  LET v == Convert(env[x] + d, TypeOf(x))
  IN  Store(<<"step", d, post, x>>, x, v, 0, IF post THEN env[x] ELSE v)

(* a[i] = e, a[i] op= e, and ++a[i] and the like; i is evaluated after e.     *)
AssignElement ==
  /\ Len(vals) >= 2 /\ FromEnd(0) \in Indices
  /\ LET v == Convert(FromEnd(1), ElementType)
     IN  StoreAt(<<"assignElement">>, FromEnd(0), v, 2, v)

UpdateElement(op) ==
  /\ step' = <<"updateElement", op>>
  /\ Len(vals) >= 2 /\ FromEnd(0) \in Indices
  /\ Defined(op, elems[FromEnd(0)], FromEnd(1), Int64)
  /\ LET v == Convert(Result(op, elems[FromEnd(0)], FromEnd(1)), ElementType)
     IN  StoreAt(step', FromEnd(0), v, 2, v)

StepElement(d, post) ==
  /\ step' = <<"stepElement", d, post>>
  /\ Len(vals) >= 1 /\ FromEnd(0) \in Indices
  /\ LET old == elems[FromEnd(0)]
         v == Convert(old + d, ElementType)
     IN  StoreAt(step', FromEnd(0), v, 1, IF post THEN old ELSE v)

(* T x = e                                                                    *)
Define(x) ==
  /\ step' = <<"define", x>> /\ Len(vals) = 1
  /\ env' = [env EXCEPT ![x] = Convert(FromEnd(0), TypeOf(x))]
  /\ vals' = <<>> /\ UNCHANGED elems

(* The end of a statement, or of the left side of its comma.                  *)
Discard == step' = <<>> /\ Len(vals) = 1 /\ vals' = <<>> /\ UNCHANGED <<env, elems>>

Next ==
  \/ \E c \in Literals : Literal(c)
  \/ \E op \in Arithmetic \union Tests : Binary(op)
  \/ Element \/ Negate \/ Not \/ AssignElement \/ Discard
  \/ \E type \in Types : Call(type)
  \/ \E x \in Variables :
       \/ Use(x) \/ Assign(x) \/ Define(x)
       \/ \E op \in Arithmetic : Update(x, op)
       \/ \E i \in Indices : CopyElement(x, i)
  \/ \E op \in Arithmetic : UpdateElement(op)
  \/ \E d \in {-1, 1}, post \in BOOLEAN :
       StepElement(d, post) \/ \E x \in Variables : Step(x, d, post)

Spec == Init /\ [][Next]_<<vals, env, elems, step>>
=============================================================================

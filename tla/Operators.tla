----------------------------- MODULE Operators -----------------------------
(***************************************************************************)
(* What an expression compiles to: the instructions that each operator     *)
(* adds (ast/operators, getIR and buildIR), as the x86 visitor prints them *)
(* (ir/x86_64/X86_64IRVisitor.cpp), run on the bits of a stack frame.      *)
(*                                                                         *)
(* An expression is walked operands first, and what is compiled here has   *)
(* no jumps (those are ControlFlow's), so that an instruction runs as soon *)
(* as it is added.  An operand is a place: a temporary's or, for a name,   *)
(* the variable's own.  A place is accessed at whatever width the operator *)
(* has; what lies above a slot is the slot that was laid out before.       *)
(***************************************************************************)
EXTENDS Numbers, Sequences, Functions

CONSTANTS
  Place, ArrayPlace,  \* where the variables and element 0 of the array are
  Locals,      \* the bits of the frame that they lie in
  Initials,    \* bound: what these bits are at first
  MaxStart,    \* bound: bits of the frame before a statement
  MaxFrame,    \* bound: bits of the frame before the last operation
  MaxPending,  \* bound: operands that wait
  Careful      \* whether programs avoid what the code gets wrong

(* A place is the depth of its lowest bit.                                    *)
Slot(x) == (Place[x] - TypeOf(x) + 1)..Place[x]
ArraySlot == (ArrayPlace - Length * ElementType + 1)..ArrayPlace

(* What FrameLayout makes of a frame: below the %rbp that the prolog saved,   *)
(* variables and array are apart.                                             *)
ASSUME SlotsAssumption ==
  /\ Place \in [Variables -> Nat] /\ ArrayPlace \in Nat /\ Locals \in Nat /\ Int64 <= Locals
  /\ \A x \in Variables : Slot(x) \subseteq (Int64 + 1)..Locals /\ Slot(x) \intersect ArraySlot = {}
  /\ ArraySlot \subseteq (Int64 + 1)..Locals
  /\ \A x, y \in Variables : x # y => Slot(x) \intersect Slot(y) = {}

ASSUME BoundsAssumption ==
  /\ Initials \subseteq [1..(Locals - Int64) -> {0, 1}]
  /\ MaxStart \in Nat /\ MaxFrame \in Nat /\ MaxPending \in Nat /\ Careful \in BOOLEAN

VARIABLES
  mem,   \* the bits of the frame, from the highest address down
  pend,  \* the operands that wait for their operator, the last one at the end
  junk,  \* the bit that fills what was not written: stack, registers, %rbp
  step   \* what was evaluated last

vars == <<mem, pend, junk, step>>

-----------------------------------------------------------------------------
(* The frame *)

(* CFG::addSymbol puts a new symbol below all others.                         *)
Fill(w) == [i \in 1..w |-> junk]
NewPlace(m, w) == Len(m) + w

BitAt(m, d) == IF d \in 1..Len(m) THEN m[d] ELSE junk
Unsigned(m, d, w) == ValueOf([i \in 1..w |-> BitAt(m, d - i + 1)], w)
Read(m, d, w) == Convert(Unsigned(m, d, w), w)
Write(m, d, w, v) == [k \in 1..Len(m) |-> IF k \in (d - w + 1)..d THEN Bit(v, d - k) ELSE m[k]]

ElementPlace(i, stride) == ArrayPlace - i * stride
IsTemporary(place) == place > Locals

-----------------------------------------------------------------------------
(* Instructions *)

(* A register, as 64 bits, after a move at width w from d: a move of 32 bits  *)
(* clears what is above, one of 8 leaves it.                                  *)
Loaded(m, d, w) ==
  Convert(Unsigned(m, d, w) + (IF w < Int32 THEN junk * (Pow2[Int64] - Pow2[w]) ELSE 0), Int64)

(* What is computed from the places l and r by an instruction at width w.     *)
Addition(m, l, r, w)       == Read(m, l, w) + Read(m, r, w)
Subtraction(m, l, r, w)    == Read(m, l, w) - Read(m, r, w)
Multiplication(m, l, r, w) == Read(m, l, w) * Read(m, r, w)
BitwiseAnd(m, l, r, w)     == And(Read(m, l, w), Read(m, r, w))
BitwiseOr(m, l, r, w)      == Or(Read(m, l, w), Read(m, r, w))
BitwiseXor(m, l, r, w)     == Xor(Read(m, l, w), Read(m, r, w))

(* The count of a shift is a byte, in %cl.                                    *)
LeftShift(m, l, r, w)  == Read(m, l, w) * Pow2[Unsigned(m, r, Char)]
RightShift(m, l, r, w) == Read(m, l, w) \div Pow2[Unsigned(m, r, Char)]

(* cltd and idivl divide 32 bits by 32 bits and clear the bits above.         *)
Dividend(m, l, w) == Convert(Loaded(m, l, w), Int32)
Divisor(m, r) == Read(m, r, Int32)
Div(m, l, r, w) == Quotient(Dividend(m, l, w), Divisor(m, r)) % Pow2[Int32]
Mod(m, l, r, w) == Remainder(Dividend(m, l, w), Divisor(m, r)) % Pow2[Int32]

(* As a bug: cmp has its operands in the order of the source.                 *)
FlagSwapped(m, op, l, r) == Truth(Holds(op, Read(m, r, Int32), Read(m, l, Int32)))

(* cmp compares 32 bits, and the flag is written as 32 bits.                  *)
FlagToReg(m, op, l, r) == Truth(Holds(op, Read(m, l, Int32), Read(m, r, Int32)))

Computed(m, op, l, r, w) ==
  CASE op = "+"  -> Addition(m, l, r, w)
    [] op = "-"  -> Subtraction(m, l, r, w)
    [] op = "*"  -> Multiplication(m, l, r, w)
    [] op = "/"  -> Div(m, l, r, w)
    [] op = "%"  -> Mod(m, l, r, w)
    [] op = "&"  -> BitwiseAnd(m, l, r, w)
    [] op = "|"  -> BitwiseOr(m, l, r, w)
    [] op = "^"  -> BitwiseXor(m, l, r, w)
    [] op = "<<" -> LeftShift(m, l, r, w)
    [] op = ">>" -> RightShift(m, l, r, w)
    [] op \in Tests -> FlagToReg(m, op, l, r)

(* There is no imulb, and idivl stops the program at a zero or an overflow.   *)
Runs(m, op, l, r, w) ==
  /\ op = "*" => w # Char
  /\ op \in Divisions =>
       Divisor(m, r) # 0 /\ Fits(Quotient(Dividend(m, l, w), Divisor(m, r)), Int32)

(* As a bug: a temporary takes the slot of the one before.                    *)
TemporaryReused(m, w, at, v) ==
  IF IsTemporary(Len(m)) THEN Write(m, Len(m), at, v)
  ELSE Write(m \o Fill(w), NewPlace(m, w), at, v)

(* A new temporary of width w, written at width at.                           *)
Temporary(m, w, at, v) == Write(m \o Fill(w), NewPlace(m, w), at, v)

(* Shifts happen in place; the temporary is a copy of it.                     *)
Operation(m, op, l, r, w) ==
  LET v == Computed(m, op, l, r, w)
  IN  Temporary(IF op \in Shifts THEN Write(m, l, w, v) ELSE m,
                w, IF op \in Tests THEN Int32 ELSE w, v)

(* The index goes to %rax at the width of the access; cltq extends 32 bits.   *)
(* (A char would be extended by cbtq, which does not exist.)                  *)
IndexOf(m, p, w) ==
  IF p.type = Int32 THEN Convert(Loaded(m, p.place, w), Int32) ELSE Loaded(m, p.place, w)

-----------------------------------------------------------------------------
(* Operands *)

Array == "array"  \* the object that all elements are, next to the variables
Objects == Variables \union {Array}

Top == pend[Len(pend)]
Under == pend[Len(pend) - 1]
Waiting(n) == SubSeq(pend, 1, Len(pend) - n)  \* all but the last n

(* C leaves open in which order operands are evaluated, and a program that    *)
(* could tell is none: what one changes is not used by another.               *)
MayRead(o, n) == \A p \in Range(Waiting(n)) : o \notin p.writes
MayWrite(o, n) == \A p \in Range(Waiting(n)) : o \notin p.reads \union p.writes

(* The last n operands give way to the one that the instructions left in m at *)
(* a place.                                                                   *)
Yield(s, m, n, place, type, isName, reads, writes) ==
  /\ step' = s
  /\ Len(pend) - n < MaxPending
  /\ mem' = m
  /\ pend' = Append(Waiting(n),
                    [place |-> place, type |-> type, value |-> Read(m, place, type),
                     isName |-> isName, reads |-> reads, writes |-> writes])
  /\ UNCHANGED junk

(* As a bug: the place is the one that the next symbol will have.             *)
ComputeNext(s, m, n, type) ==
  LET used == Range(SubSeq(pend, Len(pend) - n + 1, Len(pend)))
  IN  Yield(s, m, n, NewPlace(m, type), type, FALSE,
            UNION {p.reads : p \in used}, UNION {p.writes : p \in used})

(* Without side effects: a temporary that is the last in m.                   *)
Compute(s, m, n, type) ==
  LET used == Range(SubSeq(pend, Len(pend) - n + 1, Len(pend)))
  IN  Yield(s, m, n, Len(m), type, FALSE,
            UNION {p.reads : p \in used}, UNION {p.writes : p \in used})

(* With the side effect of a write to o, which the operands may read.         *)
Store(s, m, n, place, type, o, reads) ==
  LET used == Range(SubSeq(pend, Len(pend) - n + 1, Len(pend)))
  IN  /\ MayWrite(o, n) /\ \A p \in used : o \notin p.writes
      /\ Yield(s, m, n, place, type, FALSE,
               reads \union UNION {p.reads : p \in used},
               {o} \union UNION {p.writes : p \in used})

(* Operands for which an operator of the code is right: of one type, which    *)
(* has at least 32 bits, and no more for what is done at 32.                  *)
Suits(op, s, t) ==
  Careful => s = t /\ s >= Int32 /\ (op \in Divisions \union Tests => s = Int32)

-----------------------------------------------------------------------------
(* Operators *)

(* Bounds.                                                                    *)
Room == Len(mem) <= MaxFrame /\ (pend = <<>> => Len(mem) <= MaxStart)

Identifier(x) ==
  /\ Room /\ MayRead(x, 0)
  /\ Yield(<<"name", x>>, mem, 0, Place[x], TypeOf(x), TRUE, {x}, {})

(* A constant takes the slot of an int64_t and has the type int32_t.          *)
Constant(c) ==
  Room /\ Fits(c, Int32) /\ Compute(<<"literal", c>>, Temporary(mem, Int64, Int32, c), 0, Int32)

ArrayAccess ==
  /\ Room /\ pend # <<>> /\ Top.type # Char /\ Top.value \in Indices /\ MayRead(Array, 0)
  /\ Careful => ElementType >= Int32
  /\ LET i == IndexOf(mem, Top, ElementType)
         v == Read(mem, ElementPlace(i, ElementType), ElementType)
         m == Temporary(mem, ElementType, ElementType, v)
     IN  Yield(<<"element">>, m, 1, Len(m), ElementType, FALSE, Top.reads \union {Array}, Top.writes)

Binary(op) ==
  /\ Room /\ Len(pend) > 1
  /\ LET l == Under
         r == Top
         w == Wider(l.type, r.type)
     IN  /\ Defined(op, l.value, r.value, Wider(w, Int32))
         /\ Runs(mem, op, l.place, r.place, w) /\ Suits(op, l.type, r.type)
         /\ Careful /\ op \in Shifts => IsTemporary(l.place)
         /\ Compute(<<"binary", op>>, Operation(mem, op, l.place, r.place, w), 2, w)

(* 0 - e                                                                      *)
PreNegOperator ==
  /\ Room /\ pend # <<>> /\ Suits("-", Top.type, Top.type)
  /\ Fits(-Top.value, Wider(Top.type, Int32))
  /\ LET m == Temporary(mem, Top.type, Top.type, -Read(mem, Top.place, Top.type))
     IN  Compute(<<"negate">>, m, 1, Top.type)

(* e == 0, of the type of e.                                                  *)
LogicalNotOperator ==
  /\ Room /\ pend # <<>> /\ Suits("==", Top.type, Top.type)
  /\ LET zero == Temporary(mem, Int64, Int32, 0)
         m == Operation(zero, "==", Top.place, Len(zero), Wider(Top.type, Int32))
     IN  Compute(<<"not">>, m, 1, Top.type)

(* A function of a type, which returns its parameter.  A char that is passed  *)
(* in %di or %si goes to %r11b instead.                                       *)
Call(type, low) ==
  /\ Room /\ pend # <<>> /\ Top.type <= type
  /\ Careful => Top.type = type /\ ~(low /\ type = Char)
  /\ LET register == IF low /\ Top.type = Char THEN -junk
                     ELSE Loaded(mem, Top.place, Top.type)
     IN  Compute(<<"call", type>>, Temporary(mem, type, type, register), 1, type)

(* x = e; a name goes through an addition of 0.                               *)
Assign(x) ==
  /\ Room /\ pend # <<>> /\ (Careful => Top.type = TypeOf(x))
  /\ LET w == Wider(TypeOf(x), Top.type)
         v == Read(mem, Top.place, w)
         m == IF Top.isName THEN Temporary(mem, w, w, v) ELSE mem
     IN  Store(<<"assign", x>>, Write(m, Place[x], w, v), 1, Place[x], w, x, {})

(* x = a[i], where the access counts as a name and i is not compiled.         *)
CopyElement(x, i) ==
  /\ Room /\ MayRead(Array, 0)
  /\ Careful => i = 0 /\ ElementType = TypeOf(x)
  /\ LET w == Wider(TypeOf(x), ElementType)
         v == Read(mem, ElementPlace(0, ElementType), w)
         m == Write(Temporary(mem, w, w, v), Place[x], w, v)
     IN  Store(<<"copy", x, i>>, m, 0, Place[x], w, x, {Array})

(* x op= e                                                                    *)
Update(x, op) ==
  /\ Room /\ pend # <<>>
  /\ LET t == TypeOf(x)
         m == Operation(mem, op, Place[x], Top.place, t)
     IN  /\ Defined(op, Read(mem, Place[x], t), Top.value, Wider(Int32, Wider(t, Top.type)))
         /\ Runs(mem, op, Place[x], Top.place, t) /\ Suits(op, t, Top.type)
         /\ Store(<<"update", op, x>>, Write(m, Place[x], t, Read(m, Len(m), t)), 1,
                  Place[x], Wider(t, Top.type), x, {x})

(* ++x and --x yield x, x++ and x-- a copy made before.                       *)
Step(x, d, post) ==
  LET t == TypeOf(x)
      v == Read(mem, Place[x], t)
      m == IF post THEN Temporary(mem, t, t, v) ELSE mem
      n == Write(Temporary(m, t, t, v + d), Place[x], t, v + d)
  IN  /\ Room /\ Fits(v + d, Wider(t, Int32))
      /\ Store(<<"step", d, post, x>>, n, 0, IF post THEN Len(m) ELSE Place[x], t, x, {x})

(* a[i] = e, where e is evaluated before i.                                   *)
AssignElement ==
  /\ Room /\ Len(pend) > 1 /\ Top.type # Char /\ Top.value \in Indices
  /\ Careful => Under.type = ElementType /\ ElementType >= Int32
  /\ LET w == Wider(ElementType, Under.type)
         v == Read(mem, Under.place, w)
         m == Write(mem, ElementPlace(IndexOf(mem, Top, w), w), w, v)
         n == Temporary(m, w, w, Read(m, Under.place, w))
     IN  Store(<<"assignElement">>, n, 2, Len(n), w, Array, {})

(* a[i] op= e and ++a[i] read element i, and write to the name: element 0.    *)
UpdateElement(op) ==
  /\ Room /\ Len(pend) > 1 /\ Top.type # Char /\ Top.value \in Indices
  /\ Careful => Top.value = 0
  /\ LET t == ElementType
         i == IndexOf(mem, Top, t)
         l == Temporary(mem, t, t, Read(mem, ElementPlace(i, t), t))
         m == Operation(l, op, Len(l), Under.place, t)
     IN  /\ Defined(op, Read(mem, ElementPlace(Top.value, t), t), Under.value,
                    Wider(Int32, Wider(t, Under.type)))
         /\ Runs(l, op, Len(l), Under.place, t) /\ Suits(op, t, Under.type)
         /\ Store(<<"updateElement", op>>,
                  Write(m, ElementPlace(0, t), t, Read(m, Len(m), t)), 2,
                  ElementPlace(0, t), Wider(t, Under.type), Array, {Array})

(* The tree of a[i]++ is that of a[i].                                        *)
StepElement(d, post) ==
  /\ Room /\ pend # <<>> /\ Top.type # Char /\ Top.value \in Indices
  /\ Careful => Top.value = 0 /\ ElementType >= Int32 /\ ~post
  /\ LET t == ElementType
         first == ElementPlace(0, t)
         v == Read(mem, ElementPlace(IndexOf(mem, Top, t), t), t)
         l == Temporary(mem, t, t, v)
         m == Write(Temporary(l, t, t, v + d), first, t, v + d)
     IN  /\ Fits(Read(mem, ElementPlace(Top.value, t), t) + d, Wider(t, Int32))
         /\ Store(<<"stepElement", d, post>>, IF post THEN l ELSE m, 1,
                  IF post THEN Len(l) ELSE first, t, Array, {Array})

(* As a bug: the copy has the type of the initialiser.                        *)
DefinitionOfInitialiser(x) ==
  /\ Len(pend) = 1 /\ (Careful => TypeOf(x) <= Top.type)
  /\ mem' = Write(mem, Place[x], Top.type, Read(mem, Top.place, Top.type))
  /\ pend' = <<>> /\ step' = <<"define", x>> /\ UNCHANGED junk

(* T x = e                                                                    *)
VariableDefinition(x) ==
  /\ Len(pend) = 1 /\ (Careful => TypeOf(x) <= Top.type)
  /\ mem' = Write(mem, Place[x], TypeOf(x), Read(mem, Top.place, TypeOf(x)))
  /\ pend' = <<>> /\ step' = <<"define", x>> /\ UNCHANGED junk

(* The end of a statement, or of the left side of its comma.                  *)
EndStatement ==
  Len(pend) = 1 /\ pend' = <<>> /\ step' = <<>> /\ UNCHANGED <<mem, junk>>

(* The operators by their names in the code: of two operands,                 *)
PlusOperator          == Binary("+")
MinusOperator         == Binary("-")
MultOperator          == Binary("*")
DivOperator           == Binary("/")
ModOperator           == Binary("%")
LeftShiftOperator     == Binary("<<")
RightShiftOperator    == Binary(">>")
BitwiseAndOperator    == Binary("&")
BitwiseOrOperator     == Binary("|")
BitwiseXorOperator    == Binary("^")
EqualityOperator      == Binary("==")
NotEqOperator         == Binary("!=")
LowerThanOperator     == Binary("<")
LowerEqThanOperator   == Binary("<=")
GreaterThanOperator   == Binary(">")
GreaterEqThanOperator == Binary(">=")

(* with an assignment to a variable or an element,                            *)
Updating(op) == UpdateElement(op) \/ \E x \in Variables : Update(x, op)
AssignmentOperator ==
  \/ AssignElement
  \/ \E x \in Variables : Assign(x) \/ \E i \in Indices : CopyElement(x, i)
PlusAssignmentOperator       == Updating("+")
MinusAssignmentOperator      == Updating("-")
TimesAssignmentOperator      == Updating("*")
DivAssignmentOperator        == Updating("/")
ModAssignmentOperator        == Updating("%")
LeftShiftAssignmentOperator  == Updating("<<")
RightShiftAssignmentOperator == Updating(">>")
BitwiseAndAssignmentOperator == Updating("&")
BitwiseOrAssignmentOperator  == Updating("|")
BitwiseXorAssignmentOperator == Updating("^")

(* and of one operand.                                                        *)
Stepping(d, post) == StepElement(d, post) \/ \E x \in Variables : Step(x, d, post)
PreIncrOperator  == Stepping(1, FALSE)
PreDecrOperator  == Stepping(-1, FALSE)
PostIncOperator  == Stepping(1, TRUE)
PostDecrOperator == Stepping(-1, TRUE)

-----------------------------------------------------------------------------
Elements(m) == [i \in Indices |-> Read(m, ElementPlace(i, ElementType), ElementType)]
Variable(m) == [x \in Variables |-> Read(m, Place[x], TypeOf(x))]

Init ==
  /\ junk \in {0, 1}
  /\ \E locals \in Initials : mem = Fill(Int64) \o locals
  /\ pend = <<>> /\ step = <<>>

Next ==
  \/ \E n \in Literals : Constant(n)
  \/ \E x \in Variables : Identifier(x) \/ VariableDefinition(x)
  \/ ArrayAccess \/ EndStatement
  \/ \E type \in Types, low \in BOOLEAN : Call(type, low)
  \/ PlusOperator \/ MinusOperator
  \/ MultOperator \/ DivOperator \/ ModOperator
  \/ LeftShiftOperator \/ RightShiftOperator
  \/ BitwiseAndOperator \/ BitwiseOrOperator \/ BitwiseXorOperator
  \/ EqualityOperator \/ NotEqOperator
  \/ LowerThanOperator \/ LowerEqThanOperator
  \/ GreaterThanOperator \/ GreaterEqThanOperator
  \/ AssignmentOperator
  \/ PlusAssignmentOperator \/ MinusAssignmentOperator
  \/ TimesAssignmentOperator \/ DivAssignmentOperator \/ ModAssignmentOperator
  \/ LeftShiftAssignmentOperator \/ RightShiftAssignmentOperator
  \/ BitwiseAndAssignmentOperator
  \/ BitwiseOrAssignmentOperator \/ BitwiseXorAssignmentOperator
  \/ PreNegOperator \/ LogicalNotOperator
  \/ PreIncrOperator \/ PreDecrOperator
  \/ PostIncOperator \/ PostDecrOperator

Spec == Init /\ [][Next]_vars

-----------------------------------------------------------------------------
(* Properties *)

(* Places are slots of the frame, below the saved %rbp.                       *)
TypeOK ==
  /\ mem \in Seq({0, 1}) /\ Len(mem) >= Locals /\ junk \in {0, 1}
  /\ Len(pend) <= MaxPending
  /\ \A p \in Range(pend) :
       /\ p.place \in (Int64 + 1)..Len(mem) /\ p.type \in Types /\ p.isName \in BOOLEAN
       /\ p.value = Convert(p.value, p.type)
       /\ p.reads \subseteq Objects /\ p.writes \subseteq Objects

(* What an operand was worth when it was evaluated it is worth until its      *)
(* operator takes it, whatever is evaluated in between: temporaries and       *)
(* variables are shared places, written by name and at foreign widths.        *)
OperandsKeepValues == \A p \in Range(pend) : Read(mem, p.place, p.type) = p.value

(* No instruction reaches the %rbp that the prolog saved and leave restores.  *)
SavedBaseKept == SubSeq(mem, 1, Int64) = Fill(Int64)

(* Instructions leave in every place what C says that an expression computes, *)
(* and no other variable or element changes.                                  *)
C == INSTANCE Evaluation WITH
       vals <- [i \in 1..Len(pend) |-> pend[i].value],
       env <- Variable(mem),
       elems <- Elements(mem)
ImplementsEvaluation == C!Spec
=============================================================================

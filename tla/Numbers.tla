------------------------------ MODULE Numbers ------------------------------
(* Types and the arithmetic of C and of the processor on small integers.     *)
EXTENDS Integers

CONSTANTS
  Char, Int32, Int64,              \* the types, which are their widths in bits
  CharVars, Int32Vars, Int64Vars,  \* the variables of each type
  ElementType, Length,             \* the local array: its type and size
  Literals                         \* the constants that occur

Types == {Char, Int32, Int64}

Pow2[i \in Nat] == IF i = 0 THEN 1 ELSE 2 * Pow2[i - 1]

(* The low byte of a number holds the count of every shift that C defines,    *)
(* and 32 bits every index: arrays are declared with an int32_t.              *)
ASSUME TypesAssumption ==
  /\ Char \in Nat \ {0} /\ Int32 \in Nat /\ Int64 \in Nat
  /\ Char < Int32 /\ Int32 < Int64 /\ Int64 <= Pow2[Char]
  /\ ElementType \in Types /\ Length \in Nat /\ Length <= Pow2[Int32]
  /\ Literals \subseteq Nat

Variables == CharVars \union Int32Vars \union Int64Vars
TypeOf(x) == IF x \in CharVars THEN Char ELSE IF x \in Int32Vars THEN Int32 ELSE Int64
Indices == 0..(Length - 1)

Wider(s, t) == IF s > t THEN s ELSE t

(* The low bits of v as a signed number; whether v is such a number.          *)
Convert(v, width) == ((v + Pow2[width - 1]) % Pow2[width]) - Pow2[width - 1]
Fits(v, width) == Convert(v, width) = v

(* Division, in C and by idivl, rounds towards zero.                          *)
Abs(v) == IF v < 0 THEN -v ELSE v
Quotient(a, b) ==
  IF (a < 0) = (b < 0) THEN Abs(a) \div Abs(b) ELSE -(Abs(a) \div Abs(b))
Remainder(a, b) == a - b * Quotient(a, b)

(* Bit i of a number; the number of w bits, of which b[1] is the lowest.      *)
Bit(v, i) == (v \div Pow2[i]) % 2
ValueOf(b, w) ==
  LET low[i \in 0..w] == IF i = 0 THEN 0 ELSE low[i - 1] + Pow2[i - 1] * b[i]
  IN  low[w]

(* The number made of the bits that f makes of those of a and b.              *)
Bitwise(f(_, _), a, b) ==
  Convert(ValueOf([i \in 1..Int64 |-> f(Bit(a, i - 1), Bit(b, i - 1))], Int64), Int64)

And(a, b) == LET both(p, q) == p * q IN Bitwise(both, a, b)
Or(a, b)  == LET either(p, q) == p + q - p * q IN Bitwise(either, a, b)
Xor(a, b) == LET one(p, q) == (p + q) % 2 IN Bitwise(one, a, b)

Shifts == {"<<", ">>"}
Divisions == {"/", "%"}
Arithmetic == {"+", "-", "*", "&", "|", "^"} \union Divisions \union Shifts
Tests == {"==", "!=", "<", "<=", ">", ">="}

Truth(b) == IF b THEN 1 ELSE 0

Holds(op, a, b) ==
  CASE op = "==" -> a = b
    [] op = "!=" -> a # b
    [] op = "<"  -> a < b
    [] op = "<=" -> a <= b
    [] op = ">"  -> a > b
    [] op = ">=" -> a >= b

(* What C means by a op b, where it is defined.                               *)
Result(op, a, b) ==
  CASE op = "+"  -> a + b
    [] op = "-"  -> a - b
    [] op = "*"  -> a * b
    [] op = "/"  -> Quotient(a, b)
    [] op = "%"  -> Remainder(a, b)
    [] op = "&"  -> And(a, b)
    [] op = "|"  -> Or(a, b)
    [] op = "^"  -> Xor(a, b)
    [] op = "<<" -> a * Pow2[b]
    [] op = ">>" -> a \div Pow2[b]
    [] op \in Tests -> Truth(Holds(op, a, b))

(* Whether C defines it, computed at a width: no division by zero, no shift   *)
(* out of range or of a negative number to the left, no overflow.             *)
Defined(op, a, b, width) ==
  /\ op \in Divisions => b # 0
  /\ op \in Shifts => b \in 0..(width - 1)
  /\ op = "<<" => a >= 0
  /\ Fits(Result(op, a, b), width)
=============================================================================

-------------------------- MODULE OperatorsProofs --------------------------
(***************************************************************************)
(* Proofs about Operators, for any widths, variables, array, layout of the *)
(* frame and number of operands that wait.                                 *)
(***************************************************************************)
EXTENDS Operators, NumbersProofs

-----------------------------------------------------------------------------
(* Types and places *)

LEMMA WidthTypes ==
  /\ Char \in Nat \ {0} /\ Int32 \in Nat \ {0} /\ Int64 \in Nat \ {0}
  /\ \A t \in Types : t \in Nat \ {0} /\ t <= Int64
  /\ ElementType \in Types
  /\ \A t \in Types : t # Char => t >= Int32
  /\ \A x \in Variables : TypeOf(x) \in Types
  /\ \A s, t \in Types : Wider(s, t) \in Types
BY TypesAssumption DEF Types, TypeOf, Wider

(* The bits of a slot of width w whose lowest is at d.                        *)
SlotAt(d, w) == (d - w + 1)..d

LEMMA VariablePlaces ==
  ASSUME NEW x \in Variables
  PROVE  /\ Place[x] \in Nat /\ SlotAt(Place[x], TypeOf(x)) = Slot(x)
         /\ Int64 < Place[x] /\ Place[x] <= Locals /\ Int64 <= Place[x] - TypeOf(x)
         /\ Slot(x) \subseteq (Int64 + 1)..Locals /\ Slot(x) \intersect ArraySlot = {}
         /\ \A y \in Variables : y # x => Slot(x) \intersect Slot(y) = {}
<1>1. Place[x] \in Nat /\ Locals \in Nat /\ TypeOf(x) \in Nat \ {0} /\ Int64 \in Nat
  BY SlotsAssumption, WidthTypes
<1>2. Slot(x) \subseteq (Int64 + 1)..Locals /\ Slot(x) \intersect ArraySlot = {}
  BY SlotsAssumption
<1>3. Place[x] \in Slot(x) /\ Place[x] - TypeOf(x) + 1 \in Slot(x)
  BY <1>1 DEF Slot
<1>4. \A y \in Variables : y # x => Slot(x) \intersect Slot(y) = {}
  BY SlotsAssumption
<1>. QED  BY <1>1, <1>2, <1>3, <1>4 DEF Slot, SlotAt

(* The elements lie one above the other in the slot of the array.             *)
LEMMA ElementPlaces ==
  ASSUME NEW i \in Indices
  PROVE  /\ i \in Nat /\ ElementPlace(i, ElementType) \in Nat
         /\ Int64 < ElementPlace(i, ElementType) /\ ElementPlace(i, ElementType) <= Locals
         /\ SlotAt(ElementPlace(i, ElementType), ElementType) \subseteq ArraySlot
         /\ ArraySlot \subseteq (Int64 + 1)..Locals
         /\ \A j \in Indices : j # i =>
              SlotAt(ElementPlace(i, ElementType), ElementType)
                \intersect SlotAt(ElementPlace(j, ElementType), ElementType) = {}
<1>. DEFINE t == ElementType
<1>1. t \in Nat \ {0} /\ Length \in Nat /\ ArrayPlace \in Nat /\ Locals \in Nat /\ Int64 \in Nat
  BY SlotsAssumption, TypesAssumption, WidthTypes
<1>2. ArraySlot = (ArrayPlace - Length * t + 1)..ArrayPlace /\ ArraySlot \subseteq (Int64 + 1)..Locals
  BY SlotsAssumption DEF ArraySlot
<1>3. \A j \in Indices : j \in Nat /\ j < Length /\ ElementPlace(j, t) = ArrayPlace - j * t
  BY <1>1 DEF Indices, ElementPlace
<1>. HIDE DEF t
<1>4. ASSUME NEW a \in Nat, NEW b \in Nat, a < b
      PROVE  a * t \in Nat /\ b * t \in Nat /\ a * t + t <= b * t
  <2>1. PICK d \in Nat : b = a + 1 + d
    <3>1. b - a - 1 \in Nat /\ b = a + 1 + (b - a - 1)
      BY <1>4
    <3>. QED  BY <3>1
  <2>2. b * t = a * t + t + d * t /\ d * t \in Nat /\ a * t \in Nat
    BY <1>1, <2>1
  <2>. QED  BY <1>1, <2>2
<1>5. PICK p \in Nat, l \in Nat : p = i * t /\ l = Length * t /\ p + t <= l
  BY <1>1, <1>3, <1>4
<1>6. ElementPlace(i, t) = ArrayPlace - p /\ ArraySlot = (ArrayPlace - l + 1)..ArrayPlace
  BY <1>2, <1>3, <1>5
<1>7. ArrayPlace \in ArraySlot /\ ArrayPlace - l + 1 \in ArraySlot
  BY <1>1, <1>5, <1>6
<1>8. Int64 < ArrayPlace - p /\ ArrayPlace - p <= Locals
  <2>1. ArrayPlace \in (Int64 + 1)..Locals /\ ArrayPlace - l + 1 \in (Int64 + 1)..Locals
    BY <1>2, <1>7
  <2>. QED  BY <1>1, <1>5, <2>1
<1>9. SlotAt(ElementPlace(i, t), t) \subseteq ArraySlot
  BY <1>1, <1>5, <1>6 DEF SlotAt
<1>10. ASSUME NEW j \in Indices, j # i
       PROVE  SlotAt(ElementPlace(i, t), t) \intersect SlotAt(ElementPlace(j, t), t) = {}
  <2>1. PICK q \in Nat : q = j * t /\ (q + t <= p \/ p + t <= q)
    BY <1>1, <1>3, <1>4, <1>5, <1>10
  <2>2. ElementPlace(j, t) = ArrayPlace - q
    BY <1>3, <2>1
  <2>. QED  BY <1>1, <1>6, <2>1, <2>2 DEF SlotAt
<1>11. ElementPlace(i, t) \in Nat /\ Int64 < ElementPlace(i, t) /\ ElementPlace(i, t) <= Locals
  BY <1>1, <1>5, <1>6, <1>8
<1>12. i \in Nat /\ ArraySlot \subseteq (Int64 + 1)..Locals
  BY <1>2, <1>3
<1>. QED  BY <1>9, <1>10, <1>11, <1>12 DEF t

-----------------------------------------------------------------------------
(* Reading and writing *)

LEMMA BitAtType ==
  ASSUME junk \in {0, 1}, NEW m \in Seq({0, 1}), NEW d \in Int
  PROVE  BitAt(m, d) \in {0, 1}
BY DEF BitAt

(* What is read is a number of as many bits.                                  *)
LEMMA UnsignedType ==
  ASSUME junk \in {0, 1}, NEW m \in Seq({0, 1}), NEW d \in Int, NEW w \in Nat
  PROVE  Unsigned(m, d, w) \in 0..(Pow2[w] - 1) /\ Unsigned(m, d, w) \in Int
<1>. DEFINE b == [i \in 1..w |-> BitAt(m, d - i + 1)]
<1>1. \A i \in 1..w : b[i] \in {0, 1}
  BY BitAtType
<1>2. Unsigned(m, d, w) = ValueOf(b, w)
  BY DEF Unsigned
<1>. HIDE DEF b
<1>3. ValueOf(b, w) \in 0..(Pow2[w] - 1)
  <2>1. w \in 0..w
    OBVIOUS
  <2>. QED  BY <1>1, <2>1, ValueRange
<1>. QED  BY <1>2, <1>3

LEMMA ReadType ==
  ASSUME junk \in {0, 1}, NEW m \in Seq({0, 1}), NEW d \in Int, NEW w \in Nat \ {0}
  PROVE  Read(m, d, w) \in Int /\ Fits(Read(m, d, w), w)
BY UnsignedType, ConvertFacts, ConvertFits DEF Read

(* A narrower read of the same place yields the low bits.                     *)
LEMMA NarrowRead ==
  ASSUME junk \in {0, 1}, NEW m \in Seq({0, 1}), NEW d \in Int,
         NEW w \in Nat, NEW u \in Nat \ {0}, u <= w
  PROVE  /\ Unsigned(m, d, u) = Unsigned(m, d, w) % Pow2[u]
         /\ Convert(Unsigned(m, d, w), u) = Read(m, d, u)
         /\ Convert(Read(m, d, w), u) = Read(m, d, u)
<1>. DEFINE b == [i \in 1..w |-> BitAt(m, d - i + 1)]
            c == [i \in 1..u |-> BitAt(m, d - i + 1)]
<1>1. \A i \in 1..w : b[i] \in {0, 1}
  BY BitAtType
<1>2. \A i \in 1..u : c[i] \in Int /\ c[i] = b[i]
  BY BitAtType
<1>3. Unsigned(m, d, w) = ValueOf(b, w) /\ Unsigned(m, d, u) = ValueOf(c, u)
  BY DEF Unsigned
<1>. HIDE DEF b, c
<1>4. ValueOf(c, u) = ValueOf(b, u)
  BY <1>2, ValueOfSame
<1>5. ValueOf(b, u) = ValueOf(b, w) % Pow2[u]
  BY <1>1, LowBits
<1>6. Unsigned(m, d, u) = Unsigned(m, d, w) % Pow2[u] /\ Unsigned(m, d, w) \in Int
  BY <1>3, <1>4, <1>5, UnsignedType
<1>7. Convert(Unsigned(m, d, w) % Pow2[u], u) = Convert(Unsigned(m, d, w), u)
  BY <1>6, ConvertNarrower
<1>8. Convert(Convert(Unsigned(m, d, w), w), u) = Convert(Unsigned(m, d, w), u)
  BY <1>6, ConvertNarrower
<1>. QED  BY <1>6, <1>7, <1>8 DEF Read

(* A read depends on the bits of its slot only.                               *)
LEMMA SameRead ==
  ASSUME junk \in {0, 1}, NEW m \in Seq({0, 1}), NEW n \in Seq({0, 1}), NEW d \in Int, NEW w \in Nat,
         \A k \in SlotAt(d, w) : BitAt(m, k) = BitAt(n, k)
  PROVE  Unsigned(m, d, w) = Unsigned(n, d, w) /\ Read(m, d, w) = Read(n, d, w)
<1>. DEFINE b == [i \in 1..w |-> BitAt(m, d - i + 1)]
            c == [i \in 1..w |-> BitAt(n, d - i + 1)]
<1>1. ASSUME NEW i \in 1..w PROVE b[i] = c[i]
  <2>1. d - i + 1 \in SlotAt(d, w)
    BY DEF SlotAt
  <2>. QED  BY <2>1
<1>2. Unsigned(m, d, w) = Unsigned(n, d, w)
  BY <1>1 DEF Unsigned
<1>. QED  BY <1>2 DEF Read

(* n is m with changes in R, and perhaps longer.                              *)
Untouched(m, n, R) ==
  /\ n \in Seq({0, 1}) /\ Len(m) <= Len(n)
  /\ \A k \in 1..Len(m) : k \notin R => n[k] = m[k]

LEMMA UntouchedTwice ==
  ASSUME NEW m \in Seq({0, 1}), NEW n, NEW o, NEW R, NEW S, Untouched(m, n, R), Untouched(n, o, S)
  PROVE  Untouched(m, o, R \union S)
<1>1. n \in Seq({0, 1}) /\ o \in Seq({0, 1}) /\ Len(m) \in Nat /\ Len(n) \in Nat /\ Len(o) \in Nat
  BY DEF Untouched
<1>. QED  BY <1>1 DEF Untouched

LEMMA UntouchedRead ==
  ASSUME junk \in {0, 1}, NEW m \in Seq({0, 1}), NEW n, NEW R, Untouched(m, n, R),
         NEW d \in Int, NEW w \in Nat, SlotAt(d, w) \subseteq (1..Len(m)) \ R
  PROVE  Unsigned(n, d, w) = Unsigned(m, d, w) /\ Read(n, d, w) = Read(m, d, w)
<1>1. n \in Seq({0, 1}) /\ Len(m) \in Nat /\ Len(n) \in Nat /\ Len(m) <= Len(n)
  BY DEF Untouched
<1>2. ASSUME NEW k \in SlotAt(d, w) PROVE BitAt(n, k) = BitAt(m, k)
  <2>1. k \in 1..Len(m) /\ k \notin R
    OBVIOUS
  <2>2. k \in 1..Len(n)
    BY <1>1, <2>1
  <2>. QED  BY <2>1, <2>2 DEF Untouched, BitAt
<1>. QED  BY <1>1, <1>2, SameRead

LEMMA WriteFacts ==
  ASSUME NEW m \in Seq({0, 1}), NEW d \in Int, NEW w \in Nat, NEW v \in Int
  PROVE  /\ Write(m, d, w, v) \in Seq({0, 1}) /\ Len(Write(m, d, w, v)) = Len(m)
         /\ Untouched(m, Write(m, d, w, v), SlotAt(d, w))
<1>1. ASSUME NEW k \in 1..Len(m)
      PROVE  (IF k \in (d - w + 1)..d THEN Bit(v, d - k) ELSE m[k]) \in {0, 1}
  <2>1. k \in (d - w + 1)..d => d - k \in Nat
    OBVIOUS
  <2>2. k \in (d - w + 1)..d => Bit(v, d - k) \in {0, 1}
    BY <2>1, BitType
  <2>. QED  BY <2>2
<1>2. Len(m) \in Nat
  OBVIOUS
<1>3. Write(m, d, w, v) \in [1..Len(m) -> {0, 1}]
  BY <1>1 DEF Write
<1>4. Write(m, d, w, v) \in Seq({0, 1}) /\ Len(Write(m, d, w, v)) = Len(m)
  BY <1>2, <1>3
<1>. QED  BY <1>4 DEF Untouched, Write, SlotAt

(* A slot that was written holds what was written to it.                      *)
LEMMA ReadWritten ==
  ASSUME junk \in {0, 1}, NEW m \in Seq({0, 1}), NEW d \in Nat, NEW w \in Nat \ {0}, NEW v \in Int,
         SlotAt(d, w) \subseteq 1..Len(m)
  PROVE  Read(Write(m, d, w, v), d, w) = Convert(v, w)
<1>. DEFINE n == Write(m, d, w, v)
            b == [i \in 1..w |-> BitAt(n, d - i + 1)]
            c == [i \in 1..w |-> Bit(v, i - 1)]
<1>1. n \in Seq({0, 1}) /\ Len(n) = Len(m)
  BY WriteFacts
<1>2. ASSUME NEW i \in 1..w PROVE b[i] = c[i]
  <2>1. d - i + 1 \in SlotAt(d, w) /\ d - (d - i + 1) = i - 1
    BY DEF SlotAt
  <2>2. d - i + 1 \in 1..Len(m)
    BY <2>1
  <2>3. n[d - i + 1] = Bit(v, i - 1)
    BY <2>1, <2>2 DEF Write, SlotAt
  <2>. QED  BY <1>1, <2>2, <2>3 DEF BitAt
<1>3. b = c
  BY <1>2
<1>4. Unsigned(n, d, w) = v % Pow2[w]
  BY <1>3, ValueOfBits DEF Unsigned
<1>5. Convert(v % Pow2[w], w) = Convert(v, w)
  BY ConvertNarrower
<1>. QED  BY <1>4, <1>5 DEF Read

(* A temporary is a new slot at the end, no matter what is written to it.     *)
LEMMA TemporaryFacts ==
  ASSUME junk \in {0, 1}, NEW m \in Seq({0, 1}), NEW w \in Nat, NEW at \in Nat \ {0}, NEW v \in Int
  PROVE  LET n == Temporary(m, w, at, v)
         IN  /\ n \in Seq({0, 1}) /\ Len(n) = Len(m) + w
             /\ at <= w => Untouched(m, n, {}) /\ Read(n, Len(n), at) = Convert(v, at)
<1>. DEFINE e == m \o Fill(w)
            n == Temporary(m, w, at, v)
<1>1. e \in Seq({0, 1}) /\ Len(e) = Len(m) + w /\ \A k \in 1..Len(m) : e[k] = m[k]
  BY DEF Fill
<1>2. n = Write(e, Len(e), at, v)
  BY <1>1 DEF Temporary, NewPlace
<1>3. Len(m) \in Nat /\ Len(e) \in Nat
  BY <1>1
<1>. HIDE DEF e, n
<1>4. n \in Seq({0, 1}) /\ Len(n) = Len(e) /\ Untouched(e, n, SlotAt(Len(e), at))
  BY <1>1, <1>2, <1>3, WriteFacts
<1>5. ASSUME at <= w PROVE Untouched(m, n, {}) /\ Read(n, Len(n), at) = Convert(v, at)
  <2>1. SlotAt(Len(e), at) \subseteq 1..Len(e)
    BY <1>1, <1>3, <1>5 DEF SlotAt
  <2>2. \A k \in 1..Len(m) : k \in 1..Len(e) /\ k \notin SlotAt(Len(e), at)
    BY <1>1, <1>3, <1>5 DEF SlotAt
  <2>3. Untouched(m, n, {})
    BY <1>1, <1>3, <1>4, <2>2 DEF Untouched
  <2>4. Read(n, Len(n), at) = Convert(v, at)
    BY <1>1, <1>2, <1>3, <1>4, <2>1, ReadWritten
  <2>. QED  BY <2>3, <2>4
<1>. QED  BY <1>1, <1>4, <1>5 DEF n

-----------------------------------------------------------------------------
(* Types *)

Operand == [place : Nat, type : Types, value : Int, isName : BOOLEAN,
            reads : SUBSET Objects, writes : SUBSET Objects]

TypeInv ==
  /\ mem \in Seq({0, 1}) /\ Len(mem) >= Locals /\ junk \in {0, 1}
  /\ pend \in Seq(Operand) /\ Len(pend) <= MaxPending
  /\ \A i \in 1..Len(pend) :
       /\ Int64 < pend[i].place /\ pend[i].place <= Len(mem)
       /\ Fits(pend[i].value, pend[i].type)

LEMMA TypeInvTypes == TypeInv => TypeOK
<1>. SUFFICES ASSUME TypeInv PROVE TypeOK
  OBVIOUS
<1>1. ASSUME NEW p \in Range(pend)
      PROVE  /\ p.place \in (Int64 + 1)..Len(mem) /\ p.type \in Types /\ p.isName \in BOOLEAN
             /\ p.value = Convert(p.value, p.type)
             /\ p.reads \subseteq Objects /\ p.writes \subseteq Objects
  <2>1. PICK i \in 1..Len(pend) : p = pend[i]
    BY DEF Range, TypeInv
  <2>2. p \in Operand /\ Int64 < p.place /\ p.place <= Len(mem) /\ Fits(p.value, p.type)
    BY <2>1 DEF TypeInv
  <2>3. p.place \in (Int64 + 1)..Len(mem)
    BY <2>2, WidthTypes DEF TypeInv, Operand
  <2>. QED  BY <2>2, <2>3 DEF Operand, Fits
<1>. QED  BY <1>1 DEF TypeInv, TypeOK

LEMMA InitTypes == Init => TypeInv
<1>. SUFFICES ASSUME Init PROVE TypeInv
  OBVIOUS
<1>1. junk \in {0, 1} /\ pend = <<>>
  BY DEF Init
<1>2. PICK locals \in Initials : mem = Fill(Int64) \o locals
  BY DEF Init
<1>3. Int64 \in Nat /\ Locals \in Nat /\ Int64 <= Locals /\ MaxPending \in Nat
  BY WidthTypes, SlotsAssumption, BoundsAssumption
<1>4. locals \in Seq({0, 1}) /\ Len(locals) = Locals - Int64
  BY <1>3, BoundsAssumption
<1>5. Fill(Int64) \in Seq({0, 1}) /\ Len(Fill(Int64)) = Int64
  BY <1>1, <1>3 DEF Fill
<1>6. mem \in Seq({0, 1}) /\ Len(mem) = Locals
  <2>1. \A f, g \in Seq({0, 1}) : f \o g \in Seq({0, 1}) /\ Len(f \o g) = Len(f) + Len(g)
    OBVIOUS
  <2>2. mem \in Seq({0, 1}) /\ Len(mem) = Int64 + (Locals - Int64)
    BY <1>2, <1>4, <1>5, <2>1
  <2>. QED  BY <1>3, <2>2
<1>. QED  BY <1>1, <1>3, <1>6 DEF TypeInv

(* The operands that an operator takes.                                       *)
LEMMA OperandTypes ==
  ASSUME TypeInv
  PROVE  /\ pend # <<>> => Top \in Operand /\ Int64 < Top.place /\ Top.place <= Len(mem)
                           /\ Fits(Top.value, Top.type) /\ 1 \in 0..Len(pend)
         /\ Len(pend) > 1 => Under \in Operand /\ Int64 < Under.place /\ Under.place <= Len(mem)
                             /\ Fits(Under.value, Under.type) /\ 2 \in 0..Len(pend) /\ pend # <<>>
         /\ Len(pend) \in Nat
<1>1. pend \in Seq(Operand) /\ Len(pend) \in Nat
  BY DEF TypeInv
<1>2. pend # <<>> => Len(pend) \in 1..Len(pend) /\ 1 \in 0..Len(pend)
  BY <1>1
<1>3. Len(pend) > 1 => Len(pend) - 1 \in 1..Len(pend) /\ 2 \in 0..Len(pend) /\ pend # <<>>
  BY <1>1
<1>4. \A i \in 1..Len(pend) : pend[i] \in Operand
  BY <1>1
<1>. QED  BY <1>1, <1>2, <1>3, <1>4 DEF Top, Under, TypeInv

LEMMA UsedTypes ==
  ASSUME TypeInv, NEW n \in 0..Len(pend)
  PROVE  /\ UNION {p.reads : p \in Range(SubSeq(pend, Len(pend) - n + 1, Len(pend)))} \subseteq Objects
         /\ UNION {p.writes : p \in Range(SubSeq(pend, Len(pend) - n + 1, Len(pend)))} \subseteq Objects
<1>. DEFINE u == SubSeq(pend, Len(pend) - n + 1, Len(pend))
<1>1. pend \in Seq(Operand) /\ Len(pend) \in Nat
  BY DEF TypeInv
<1>2. u \in Seq(Operand)
  BY <1>1
<1>. HIDE DEF u
<1>3. \A p \in Range(u) : p \in Operand
  BY <1>2 DEF Range
<1>4. \A p \in Range(u) : p.reads \subseteq Objects /\ p.writes \subseteq Objects
  BY <1>3 DEF Operand
<1>. QED  BY <1>4 DEF u

(* What waits when the last n operands have given way to a new one.           *)
LEMMA YieldedPend ==
  ASSUME TypeInv, NEW n \in 0..Len(pend), NEW p
  PROVE  LET q == Append(Waiting(n), p)
         IN  /\ Len(q) = Len(pend) - n + 1 /\ q[Len(q)] = p
             /\ \A i \in 1..(Len(pend) - n) : q[i] = pend[i] /\ i \in 1..Len(pend)
             /\ p \in Operand => q \in Seq(Operand)
<1>1. pend \in Seq(Operand) /\ Len(pend) \in Nat
  BY DEF TypeInv
<1>2. Waiting(n) \in Seq(Operand) /\ Len(Waiting(n)) = Len(pend) - n
  BY <1>1 DEF Waiting
<1>3. \A i \in 1..(Len(pend) - n) : Waiting(n)[i] = pend[i] /\ i \in 1..Len(pend)
  BY <1>1 DEF Waiting
<1>. QED  BY <1>1, <1>2, <1>3

LEMMA YieldTypes ==
  ASSUME TypeInv, NEW s, NEW n \in 0..Len(pend), NEW m \in Seq({0, 1}), Len(mem) <= Len(m),
         NEW place \in Nat, Int64 < place, place <= Len(m), NEW type \in Types,
         NEW isName \in BOOLEAN, NEW reads \in SUBSET Objects, NEW writes \in SUBSET Objects,
         Yield(s, m, n, place, type, isName, reads, writes)
  PROVE  TypeInv'
<1>. DEFINE p == [place |-> place, type |-> type, value |-> Read(m, place, type),
                  isName |-> isName, reads |-> reads, writes |-> writes]
<1>1. /\ mem' = m /\ junk' = junk /\ Len(pend) - n < MaxPending
      /\ pend' = Append(Waiting(n), p)
  BY DEF Yield
<1>2. Read(m, place, type) \in Int /\ Fits(Read(m, place, type), type)
  BY WidthTypes, ReadType DEF TypeInv
<1>3. p \in Operand /\ p.place = place /\ p.type = type /\ Fits(p.value, p.type)
  BY <1>2 DEF Operand
<1>. HIDE DEF p
<1>4. /\ Len(pend') = Len(pend) - n + 1 /\ pend'[Len(pend')] = p /\ pend' \in Seq(Operand)
      /\ \A i \in 1..(Len(pend) - n) : pend'[i] = pend[i] /\ i \in 1..Len(pend)
  BY <1>1, <1>3, YieldedPend
<1>5. Len(pend) \in Nat /\ MaxPending \in Nat /\ Len(mem) \in Nat /\ Len(m) \in Nat /\ Locals \in Nat
  BY BoundsAssumption, SlotsAssumption DEF TypeInv
<1>6. ASSUME NEW i \in 1..Len(pend')
      PROVE  Int64 < pend'[i].place /\ pend'[i].place <= Len(m) /\ Fits(pend'[i].value, pend'[i].type)
  <2>1. CASE i = Len(pend')
    BY <1>3, <1>4, <2>1
  <2>2. CASE i # Len(pend')
    <3>1. i \in 1..(Len(pend) - n)
      BY <1>4, <1>5, <2>2
    <3>2. pend'[i] = pend[i] /\ i \in 1..Len(pend) /\ pend[i].place \in Nat
      <4>1. pend'[i] = pend[i] /\ i \in 1..Len(pend)
        BY <1>4, <3>1
      <4>2. pend[i] \in Operand
        BY <4>1 DEF TypeInv
      <4>. QED  BY <4>1, <4>2 DEF Operand
    <3>3. Int64 < pend[i].place /\ pend[i].place <= Len(mem) /\ Fits(pend[i].value, pend[i].type)
      BY <3>2 DEF TypeInv
    <3>. QED  BY <1>5, <3>2, <3>3
  <2>. QED  BY <2>1, <2>2
<1>7. Len(m) >= Locals /\ junk \in {0, 1}
  BY <1>5 DEF TypeInv
<1>8. Len(pend') <= MaxPending
  BY <1>1, <1>4, <1>5
<1>. QED  BY <1>1, <1>4, <1>6, <1>7, <1>8 DEF TypeInv, Fits, Convert

LEMMA ComputeTypes ==
  ASSUME TypeInv, NEW s, NEW n \in 0..Len(pend), NEW m \in Seq({0, 1}), Len(mem) < Len(m),
         NEW type \in Types, Compute(s, m, n, type)
  PROVE  TypeInv'
<1>. DEFINE u == Range(SubSeq(pend, Len(pend) - n + 1, Len(pend)))
            r == UNION {p.reads : p \in u}
            w == UNION {p.writes : p \in u}
<1>1. r \in SUBSET Objects /\ w \in SUBSET Objects
  BY UsedTypes
<1>2. Yield(s, m, n, Len(m), type, FALSE, r, w)
  BY DEF Compute
<1>. HIDE DEF r, w
<1>3. Len(m) \in Nat /\ Int64 < Len(m) /\ Len(mem) <= Len(m) /\ Len(m) <= Len(m)
  BY SlotsAssumption, WidthTypes DEF TypeInv
<1>. QED  BY <1>1, <1>2, <1>3, YieldTypes

LEMMA StoreTypes ==
  ASSUME TypeInv, NEW s, NEW n \in 0..Len(pend), NEW m \in Seq({0, 1}), Len(mem) <= Len(m),
         NEW place \in Nat, Int64 < place, place <= Len(m), NEW type \in Types,
         NEW o \in Objects, NEW reads \in SUBSET Objects, Store(s, m, n, place, type, o, reads)
  PROVE  TypeInv'
<1>. DEFINE u == Range(SubSeq(pend, Len(pend) - n + 1, Len(pend)))
            r == reads \union UNION {p.reads : p \in u}
            w == {o} \union UNION {p.writes : p \in u}
<1>1. r \in SUBSET Objects /\ w \in SUBSET Objects
  BY UsedTypes
<1>2. Yield(s, m, n, place, type, FALSE, r, w)
  BY DEF Store
<1>. HIDE DEF r, w
<1>. QED  BY <1>1, <1>2, YieldTypes

(* What instructions compute are integers.                                    *)
LEMMA LoadedType ==
  ASSUME junk \in {0, 1}, NEW m \in Seq({0, 1}), NEW d \in Int, NEW w \in Types
  PROVE  Loaded(m, d, w) \in Int
<1>1. w \in Nat /\ Unsigned(m, d, w) \in Int /\ Pow2[Int64] \in Int /\ Pow2[w] \in Int
  BY WidthTypes, UnsignedType, PowerTypes
<1>2. Unsigned(m, d, w) + (IF w < Int32 THEN junk * (Pow2[Int64] - Pow2[w]) ELSE 0) \in Int
  BY <1>1
<1>. QED  BY <1>2, WidthTypes, ConvertFacts DEF Loaded

LEMMA IndexType ==
  ASSUME junk \in {0, 1}, NEW m \in Seq({0, 1}), NEW p \in Operand, NEW w \in Types
  PROVE  IndexOf(m, p, w) \in Int /\ ElementPlace(IndexOf(m, p, w), w) \in Int
<1>1. p.place \in Int
  BY DEF Operand
<1>2. Loaded(m, p.place, w) \in Int
  BY <1>1, LoadedType
<1>3. IndexOf(m, p, w) \in Int
  BY <1>2, WidthTypes, ConvertFacts DEF IndexOf
<1>4. ArrayPlace \in Int /\ w \in Int
  BY SlotsAssumption, WidthTypes
<1>. HIDE DEF Operand
<1>. QED  BY <1>3, <1>4 DEF ElementPlace

LEMMA ComputedType ==
  ASSUME junk \in {0, 1}, NEW m \in Seq({0, 1}), NEW l \in Nat, NEW r \in Nat, NEW w \in Types,
         NEW op \in Arithmetic \union Tests, Runs(m, op, l, r, w)
  PROVE  Computed(m, op, l, r, w) \in Int
<1>. DEFINE a == Read(m, l, w)
            b == Read(m, r, w)
<1>1. a \in Int /\ b \in Int /\ Read(m, l, Int32) \in Int /\ Read(m, r, Int32) \in Int
  BY WidthTypes, ReadType
<1>. HIDE DEF a, b
<1>2. CASE op \in {"+", "-", "*"}
  <2>1. a + b \in Int /\ a - b \in Int /\ a * b \in Int
    BY <1>1
  <2>. QED  BY <1>2, <2>1 DEF Computed, Addition, Subtraction, Multiplication, Tests, a, b
<1>3. CASE op \in Divisions
  <2>1. Dividend(m, l, w) \in Int
    BY LoadedType, WidthTypes, ConvertFacts DEF Dividend
  <2>2. Divisor(m, r) \in Int /\ Divisor(m, r) # 0
    BY <1>1, <1>3 DEF Runs, Divisor
  <2>3. /\ Quotient(Dividend(m, l, w), Divisor(m, r)) \in Int
        /\ Remainder(Dividend(m, l, w), Divisor(m, r)) \in Int
    BY <2>1, <2>2, QuotientType
  <2>4. Pow2[Int32] \in Nat /\ Pow2[Int32] >= 1
    BY WidthTypes, PowerTypes
  <2>5. \A x \in Int : x % Pow2[Int32] \in Int
    BY <2>4, Division
  <2>6. Div(m, l, r, w) \in Int /\ Mod(m, l, r, w) \in Int
    BY <2>3, <2>5 DEF Div, Mod
  <2>. QED  BY <1>3, <2>6 DEF Computed, Divisions, Tests
<1>4. CASE op \in {"&", "|", "^"}
  <2>1. And(a, b) \in Int /\ Or(a, b) \in Int /\ Xor(a, b) \in Int
    BY <1>1, BitwiseTypes
  <2>. QED  BY <1>4, <2>1 DEF Computed, BitwiseAnd, BitwiseOr, BitwiseXor, Tests, a, b
<1>5. CASE op \in Shifts
  <2>1. PICK n \in Nat : n = Unsigned(m, r, Char)
    BY WidthTypes, UnsignedType
  <2>2. Pow2[n] \in Nat /\ Pow2[n] >= 1
    BY <2>1, PowerTypes
  <2>3. a * Pow2[n] \in Int /\ a \div Pow2[n] \in Int
    BY <1>1, <2>2, Division
  <2>. QED  BY <1>5, <2>1, <2>3 DEF Computed, LeftShift, RightShift, Shifts, Tests, a
<1>6. CASE op \in Tests
  BY <1>6 DEF Computed, FlagToReg, Truth, Tests
<1>. QED  BY <1>2, <1>3, <1>4, <1>5, <1>6 DEF Arithmetic

LEMMA OperationType ==
  ASSUME junk \in {0, 1}, NEW m \in Seq({0, 1}), NEW l \in Nat, NEW r \in Nat, NEW w \in Types,
         NEW op \in Arithmetic \union Tests, Runs(m, op, l, r, w)
  PROVE  Operation(m, op, l, r, w) \in Seq({0, 1}) /\ Len(Operation(m, op, l, r, w)) = Len(m) + w
<1>. DEFINE v == Computed(m, op, l, r, w)
            n == IF op \in Shifts THEN Write(m, l, w, v) ELSE m
            at == IF op \in Tests THEN Int32 ELSE w
<1>1. v \in Int /\ w \in Nat /\ at \in Nat \ {0}
  BY ComputedType, WidthTypes
<1>2. n \in Seq({0, 1}) /\ Len(n) = Len(m)
  BY <1>1, WriteFacts
<1>3. Operation(m, op, l, r, w) = Temporary(n, w, at, v)
  BY DEF Operation
<1>. HIDE DEF v, n, at
<1>. QED  BY <1>1, <1>2, <1>3, TemporaryFacts

LEMMA TemporaryType ==
  ASSUME junk \in {0, 1}, NEW m \in Seq({0, 1}), NEW w \in Types, NEW at \in Types, NEW v \in Int
  PROVE  /\ Temporary(m, w, at, v) \in Seq({0, 1}) /\ Len(Temporary(m, w, at, v)) = Len(m) + w
         /\ Len(m) < Len(Temporary(m, w, at, v)) /\ Len(Temporary(m, w, at, v)) \in Nat
<1>1. w \in Nat \ {0} /\ at \in Nat \ {0} /\ Len(m) \in Nat
  BY WidthTypes
<1>2. Temporary(m, w, at, v) \in Seq({0, 1}) /\ Len(Temporary(m, w, at, v)) = Len(m) + w
  BY <1>1, TemporaryFacts
<1>. QED  BY <1>1, <1>2

(* The steps by what they have in common.                                     *)
LEMMA NextCases ==
  ASSUME Next
  PROVE  \/ \E c \in Literals : Constant(c)
         \/ \E x \in Variables : Identifier(x)
         \/ \E x \in Variables : VariableDefinition(x)
         \/ \E x \in Variables : Assign(x)
         \/ \E x \in Variables, i \in Indices : CopyElement(x, i)
         \/ ArrayAccess \/ EndStatement \/ PreNegOperator \/ LogicalNotOperator \/ AssignElement
         \/ \E type \in Types, low \in BOOLEAN : Call(type, low)
         \/ \E op \in Arithmetic \union Tests : Binary(op)
         \/ \E x \in Variables, op \in Arithmetic : Update(x, op)
         \/ \E op \in Arithmetic : UpdateElement(op)
         \/ \E x \in Variables, d \in {-1, 1}, post \in BOOLEAN : Step(x, d, post)
         \/ \E d \in {-1, 1}, post \in BOOLEAN : StepElement(d, post)
<1>. DEFINE B == \E op \in Arithmetic \union Tests : Binary(op)
            U == \E op \in Arithmetic : Updating(op)
            S == \E d \in {-1, 1}, post \in BOOLEAN : Stepping(d, post)
<1>1. ASSUME NEW op, Binary(op), op \in Arithmetic \union Tests PROVE B
  BY <1>1
<1>2. ASSUME NEW op, Updating(op), op \in Arithmetic PROVE U
  BY <1>2
<1>3. ASSUME NEW d, NEW post, Stepping(d, post), d \in {-1, 1}, post \in BOOLEAN PROVE S
  BY <1>3
<1>4. /\ \A op \in {"+", "-", "*", "/", "%", "<<", ">>", "&", "|", "^"} : op \in Arithmetic
      /\ Tests = {"==", "!=", "<", "<=", ">", ">="}
  BY DEF Arithmetic, Divisions, Shifts, Tests
<1>. HIDE DEF B, U, S
<1>5. ASSUME \/ PlusOperator \/ MinusOperator \/ MultOperator \/ DivOperator \/ ModOperator
             \/ LeftShiftOperator \/ RightShiftOperator
             \/ BitwiseAndOperator \/ BitwiseOrOperator \/ BitwiseXorOperator
             \/ EqualityOperator \/ NotEqOperator \/ LowerThanOperator \/ LowerEqThanOperator
             \/ GreaterThanOperator \/ GreaterEqThanOperator
      PROVE  B
  BY <1>5, <1>1, <1>4 DEF PlusOperator, MinusOperator, MultOperator, DivOperator, ModOperator,
       LeftShiftOperator, RightShiftOperator, BitwiseAndOperator, BitwiseOrOperator,
       BitwiseXorOperator, EqualityOperator, NotEqOperator, LowerThanOperator,
       LowerEqThanOperator, GreaterThanOperator, GreaterEqThanOperator
<1>6. ASSUME \/ PlusAssignmentOperator \/ MinusAssignmentOperator
             \/ TimesAssignmentOperator \/ DivAssignmentOperator \/ ModAssignmentOperator
             \/ LeftShiftAssignmentOperator \/ RightShiftAssignmentOperator
             \/ BitwiseAndAssignmentOperator
             \/ BitwiseOrAssignmentOperator \/ BitwiseXorAssignmentOperator
      PROVE  U
  BY <1>6, <1>2, <1>4 DEF PlusAssignmentOperator, MinusAssignmentOperator, TimesAssignmentOperator,
       DivAssignmentOperator, ModAssignmentOperator, LeftShiftAssignmentOperator,
       RightShiftAssignmentOperator, BitwiseAndAssignmentOperator,
       BitwiseOrAssignmentOperator, BitwiseXorAssignmentOperator
<1>7. PreIncrOperator \/ PreDecrOperator \/ PostIncOperator \/ PostDecrOperator => S
  BY <1>3 DEF PreIncrOperator, PreDecrOperator, PostIncOperator, PostDecrOperator
<1>8. U => (\E op \in Arithmetic : UpdateElement(op))
             \/ \E x \in Variables, op \in Arithmetic : Update(x, op)
  BY DEF U, Updating
<1>9. S => (\E d \in {-1, 1}, post \in BOOLEAN : StepElement(d, post))
             \/ \E x \in Variables, d \in {-1, 1}, post \in BOOLEAN : Step(x, d, post)
  BY DEF S, Stepping
<1>10. AssignmentOperator => \/ AssignElement
                             \/ \E x \in Variables : Assign(x)
                             \/ \E x \in Variables, i \in Indices : CopyElement(x, i)
  BY DEF AssignmentOperator
<1>11. \/ \E n \in Literals : Constant(n)
       \/ \E x \in Variables : Identifier(x) \/ VariableDefinition(x)
       \/ ArrayAccess \/ EndStatement \/ PreNegOperator \/ LogicalNotOperator
       \/ \E type \in Types, low \in BOOLEAN : Call(type, low)
       \/ AssignmentOperator \/ B \/ U \/ S
  BY <1>5, <1>6, <1>7 DEF Next
<1>. QED  BY <1>8, <1>9, <1>10, <1>11 DEF B

(* A statement that ends leaves no operands.                                  *)
LEMMA NoneWaits ==
  ASSUME TypeInv, mem' \in Seq({0, 1}), Len(mem') = Len(mem), pend' = <<>>, UNCHANGED junk
  PROVE  TypeInv'
<1>1. <<>> \in Seq(Operand) /\ Len(<<>>) = 0 /\ MaxPending \in Nat
  BY BoundsAssumption
<1>. QED  BY <1>1 DEF TypeInv

LEMMA TypeStep ==
  ASSUME TypeInv, Next
  PROVE  TypeInv'
<1>. USE DEF Objects
<1>1. /\ mem \in Seq({0, 1}) /\ junk \in {0, 1} /\ Len(mem) \in Nat /\ Len(mem) <= Len(mem)
      /\ 0 \in 0..Len(pend)
  BY OperandTypes DEF TypeInv
<1>2. /\ pend # <<>> => Top \in Operand /\ Top.place \in Nat /\ Top.type \in Types /\ Top.value \in Int
                        /\ Top.reads \in SUBSET Objects /\ Top.writes \in SUBSET Objects
                        /\ Int64 < Top.place /\ Top.place <= Len(mem) /\ 1 \in 0..Len(pend)
      /\ Len(pend) > 1 => /\ Under \in Operand /\ Under.place \in Nat /\ Under.type \in Types
                          /\ Under.value \in Int /\ 2 \in 0..Len(pend) /\ pend # <<>>
  <2>1. \A p \in Operand : /\ p.place \in Nat /\ p.type \in Types /\ p.value \in Int
                           /\ p.reads \in SUBSET Objects /\ p.writes \in SUBSET Objects
    BY DEF Operand
  <2>. HIDE DEF Operand
  <2>. QED  BY <2>1, OperandTypes
<1>3. \A m \in Seq({0, 1}), d \in Int, w \in Types : Read(m, d, w) \in Int
  BY <1>1, WidthTypes, ReadType
<1>4. \A m \in Seq({0, 1}), d \in Int, w \in Types, v \in Int :
        Write(m, d, w, v) \in Seq({0, 1}) /\ Len(Write(m, d, w, v)) = Len(m)
  BY WidthTypes, WriteFacts
<1>5. \A m \in Seq({0, 1}), w, at \in Types, v \in Int :
        /\ Temporary(m, w, at, v) \in Seq({0, 1}) /\ Len(Temporary(m, w, at, v)) = Len(m) + w
        /\ Len(m) < Len(Temporary(m, w, at, v)) /\ Len(Temporary(m, w, at, v)) \in Nat
  BY <1>1, TemporaryType
<1>6. \A x \in Variables : /\ TypeOf(x) \in Types /\ Place[x] \in Nat /\ Int64 < Place[x]
                           /\ Place[x] <= Len(mem) /\ {x} \in SUBSET Objects /\ x \in Objects
  BY <1>1, WidthTypes, VariablePlaces, SlotsAssumption DEF TypeInv
<1>7. /\ Array \in Objects /\ {Array} \in SUBSET Objects /\ {} \in SUBSET Objects
      /\ \A s, t \in SUBSET Objects : s \union t \in SUBSET Objects
  OBVIOUS
<1>8. \A s, t \in Types : Wider(s, t) \in Types
  BY WidthTypes
<1>9. Char \in Types /\ Int32 \in Types /\ Int64 \in Types /\ ElementType \in Types
  BY WidthTypes DEF Types
<1>10. \A i \in Int, w \in Types : ElementPlace(i, w) \in Int
  BY SlotsAssumption, WidthTypes DEF ElementPlace
<1>11. 0 \in Indices => /\ ElementPlace(0, ElementType) \in Nat
                        /\ Int64 < ElementPlace(0, ElementType)
                        /\ ElementPlace(0, ElementType) <= Len(mem)
  BY <1>1, ElementPlaces, SlotsAssumption DEF TypeInv
<1>12. \A i \in Indices : i \in Int /\ 0 \in Indices
  BY TypesAssumption DEF Indices
<1>13. \A m \in Seq({0, 1}), w \in Types : pend # <<>> => IndexOf(m, Top, w) \in Int
  BY <1>1, <1>2, IndexType
<1>14. \A m \in Seq({0, 1}), l, r \in Nat, w \in Types, op \in Arithmetic \union Tests :
         Runs(m, op, l, r, w) =>
           Operation(m, op, l, r, w) \in Seq({0, 1}) /\ Len(Operation(m, op, l, r, w)) = Len(m) + w
  BY <1>1, OperationType
<1>15. \A t \in Types : t \in Nat \ {0}
  BY WidthTypes
<1>. HIDE DEF Objects
<1>16. ASSUME NEW c \in Literals, Constant(c) PROVE TypeInv'
  <2>1. c \in Int
    BY TypesAssumption
  <2>. QED  BY <1>1, <1>5, <1>9, <1>16, <2>1, ComputeTypes DEF Constant
<1>17. ASSUME NEW x \in Variables, Identifier(x) PROVE TypeInv'
  BY <1>1, <1>6, <1>7, <1>17, YieldTypes DEF Identifier
<1>18. ASSUME NEW x \in Variables, VariableDefinition(x) PROVE TypeInv'
  <2>1. pend # <<>>
    BY <1>18 DEF VariableDefinition
  <2>2. Read(mem, Top.place, TypeOf(x)) \in Int
    BY <1>1, <1>2, <1>3, <1>6, <2>1
  <2>. QED  BY <1>1, <1>4, <1>6, <1>18, <2>2, NoneWaits DEF VariableDefinition
<1>19. ASSUME NEW x \in Variables, Assign(x) PROVE TypeInv'
  <2>. DEFINE w == Wider(TypeOf(x), Top.type)
              v == Read(mem, Top.place, w)
              m == IF Top.isName THEN Temporary(mem, w, w, v) ELSE mem
              n == Write(m, Place[x], w, v)
  <2>1. pend # <<>> /\ Store(<<"assign", x>>, n, 1, Place[x], w, x, {})
    BY <1>19 DEF Assign
  <2>2. w \in Types
    BY <1>2, <1>6, <1>8, <2>1
  <2>3. v \in Int
    BY <1>1, <1>2, <1>3, <2>1, <2>2
  <2>. HIDE DEF w, v
  <2>4. m \in Seq({0, 1}) /\ Len(mem) <= Len(m)
    BY <1>1, <1>5, <2>2, <2>3
  <2>. HIDE DEF m
  <2>5. n \in Seq({0, 1}) /\ Len(n) = Len(m)
    BY <1>4, <1>6, <2>2, <2>3, <2>4
  <2>. HIDE DEF n
  <2>6. Place[x] <= Len(n) /\ Len(mem) <= Len(n)
    BY <1>1, <1>6, <2>4, <2>5
  <2>. QED  BY <1>2, <1>6, <1>7, <2>1, <2>2, <2>5, <2>6, StoreTypes
<1>20. ASSUME NEW x \in Variables, NEW i \in Indices, CopyElement(x, i) PROVE TypeInv'
  <2>. DEFINE w == Wider(TypeOf(x), ElementType)
              v == Read(mem, ElementPlace(0, ElementType), w)
              m == Temporary(mem, w, w, v)
              n == Write(m, Place[x], w, v)
  <2>1. Store(<<"copy", x, i>>, n, 0, Place[x], w, x, {Array})
    BY <1>20 DEF CopyElement
  <2>2. w \in Types
    BY <1>6, <1>8, <1>9
  <2>3. v \in Int
    BY <1>1, <1>3, <1>9, <1>10, <2>2
  <2>. HIDE DEF w, v
  <2>4. m \in Seq({0, 1}) /\ Len(mem) <= Len(m)
    BY <1>1, <1>5, <2>2, <2>3
  <2>. HIDE DEF m
  <2>5. n \in Seq({0, 1}) /\ Len(n) = Len(m)
    BY <1>4, <1>6, <2>2, <2>3, <2>4
  <2>. HIDE DEF n
  <2>6. Place[x] <= Len(n) /\ Len(mem) <= Len(n)
    BY <1>1, <1>6, <2>4, <2>5
  <2>. QED  BY <1>1, <1>6, <1>7, <2>1, <2>2, <2>5, <2>6, StoreTypes
<1>21. ASSUME ArrayAccess PROVE TypeInv'
  <2>. DEFINE i == IndexOf(mem, Top, ElementType)
              v == Read(mem, ElementPlace(i, ElementType), ElementType)
              m == Temporary(mem, ElementType, ElementType, v)
  <2>1. /\ pend # <<>>
        /\ Yield(<<"element">>, m, 1, Len(m), ElementType, FALSE, Top.reads \union {Array}, Top.writes)
    BY <1>21 DEF ArrayAccess
  <2>2. v \in Int
    BY <1>1, <1>3, <1>9, <1>10, <1>13, <2>1
  <2>. HIDE DEF v
  <2>3. m \in Seq({0, 1}) /\ Len(mem) < Len(m) /\ Len(m) \in Nat
    BY <1>1, <1>5, <1>9, <2>2
  <2>. HIDE DEF m
  <2>4. Int64 < Len(m) /\ Len(mem) <= Len(m) /\ Len(m) <= Len(m)
    BY <1>1, <2>3, SlotsAssumption, WidthTypes DEF TypeInv
  <2>5. Top.reads \union {Array} \in SUBSET Objects
    BY <1>2, <1>7, <2>1
  <2>. QED  BY <1>2, <1>9, <2>1, <2>3, <2>4, <2>5, YieldTypes
<1>22. ASSUME EndStatement PROVE TypeInv'
  BY <1>1, <1>22, NoneWaits DEF EndStatement
<1>23. ASSUME PreNegOperator PROVE TypeInv'
  <2>. DEFINE m == Temporary(mem, Top.type, Top.type, -Read(mem, Top.place, Top.type))
  <2>1. pend # <<>> /\ Compute(<<"negate">>, m, 1, Top.type)
    BY <1>23 DEF PreNegOperator
  <2>2. -Read(mem, Top.place, Top.type) \in Int
    BY <1>1, <1>2, <1>3, <2>1
  <2>3. m \in Seq({0, 1}) /\ Len(mem) < Len(m)
    BY <1>1, <1>2, <1>5, <2>1, <2>2
  <2>. QED  BY <1>2, <2>1, <2>3, ComputeTypes
<1>24. ASSUME LogicalNotOperator PROVE TypeInv'
  <2>. DEFINE zero == Temporary(mem, Int64, Int32, 0)
              w == Wider(Top.type, Int32)
              m == Operation(zero, "==", Top.place, Len(zero), w)
  <2>1. pend # <<>> /\ Compute(<<"not">>, m, 1, Top.type)
    BY <1>24 DEF LogicalNotOperator
  <2>2. 0 \in Int
    OBVIOUS
  <2>3. zero \in Seq({0, 1}) /\ Len(mem) < Len(zero) /\ Len(zero) \in Nat
    BY <1>1, <1>5, <1>9, <2>2
  <2>4. w \in Types
    BY <1>2, <1>8, <1>9, <2>1
  <2>5. zero \in Seq({0, 1}) /\ Len(mem) < Len(zero) /\ Len(zero) \in Nat /\ w \in Types
    BY <2>3, <2>4
  <2>. HIDE DEF zero, w
  <2>6. Runs(zero, "==", Top.place, Len(zero), w) /\ "==" \in Arithmetic \union Tests
    BY DEF Runs, Divisions, Tests
  <2>7. m \in Seq({0, 1}) /\ Len(m) = Len(zero) + w
    BY <1>2, <1>14, <2>1, <2>5, <2>6
  <2>8. Len(mem) < Len(m)
    BY <1>1, <1>15, <2>5, <2>7
  <2>. HIDE DEF m
  <2>. QED  BY <1>2, <2>1, <2>7, <2>8, ComputeTypes
<1>25. ASSUME AssignElement PROVE TypeInv'
  <2>. DEFINE w == Wider(ElementType, Under.type)
              v == Read(mem, Under.place, w)
              d == ElementPlace(IndexOf(mem, Top, w), w)
              m == Write(mem, d, w, v)
              u == Read(m, Under.place, w)
              n == Temporary(m, w, w, u)
  <2>1. Len(pend) > 1 /\ Store(<<"assignElement">>, n, 2, Len(n), w, Array, {})
    BY <1>25 DEF AssignElement
  <2>2. w \in Types
    BY <1>2, <1>8, <1>9, <2>1
  <2>. HIDE DEF w
  <2>3. Under.place \in Int /\ IndexOf(mem, Top, w) \in Int
    BY <1>1, <1>2, <1>13, <2>1, <2>2
  <2>4. v \in Int /\ d \in Int
    BY <1>1, <1>3, <1>10, <2>2, <2>3
  <2>. HIDE DEF v, d
  <2>5. m \in Seq({0, 1}) /\ Len(m) = Len(mem)
    BY <1>1, <1>4, <2>2, <2>4
  <2>. HIDE DEF m
  <2>6. u \in Int
    BY <1>2, <1>3, <2>1, <2>2, <2>5
  <2>. HIDE DEF u
  <2>7. n \in Seq({0, 1}) /\ Len(m) < Len(n) /\ Len(n) \in Nat
    BY <1>5, <2>2, <2>5, <2>6
  <2>. HIDE DEF n
  <2>8. Int64 < Len(n) /\ Len(mem) <= Len(n) /\ Len(n) <= Len(n)
    BY <1>1, <2>5, <2>7, SlotsAssumption, WidthTypes DEF TypeInv
  <2>. QED  BY <1>2, <1>7, <2>1, <2>2, <2>7, <2>8, StoreTypes
<1>26. ASSUME NEW type \in Types, NEW low \in BOOLEAN, Call(type, low) PROVE TypeInv'
  <2>. DEFINE v == IF low /\ Top.type = Char THEN -junk ELSE Loaded(mem, Top.place, Top.type)
              m == Temporary(mem, type, type, v)
  <2>1. pend # <<>> /\ Compute(<<"call", type>>, m, 1, type)
    BY <1>26 DEF Call
  <2>2. v \in Int
    BY <1>1, <1>2, <2>1, LoadedType
  <2>. HIDE DEF v
  <2>3. m \in Seq({0, 1}) /\ Len(mem) < Len(m)
    BY <1>1, <1>5, <2>2
  <2>. HIDE DEF m
  <2>. QED  BY <1>2, <2>1, <2>3, ComputeTypes
<1>27. ASSUME NEW op \in Arithmetic \union Tests, Binary(op) PROVE TypeInv'
  <2>. DEFINE w == Wider(Under.type, Top.type)
              m == Operation(mem, op, Under.place, Top.place, w)
  <2>1. /\ Len(pend) > 1 /\ Runs(mem, op, Under.place, Top.place, w)
        /\ Compute(<<"binary", op>>, m, 2, w)
    BY <1>27 DEF Binary
  <2>2. w \in Types
    BY <1>2, <1>8, <2>1
  <2>. HIDE DEF w
  <2>3. m \in Seq({0, 1}) /\ Len(m) = Len(mem) + w
    BY <1>1, <1>2, <1>14, <2>1, <2>2
  <2>4. Len(mem) < Len(m)
    BY <1>1, <1>15, <2>2, <2>3
  <2>. HIDE DEF m
  <2>. QED  BY <1>2, <2>1, <2>2, <2>3, <2>4, ComputeTypes
<1>28. ASSUME NEW x \in Variables, NEW op \in Arithmetic, Update(x, op) PROVE TypeInv'
  <2>. DEFINE t == TypeOf(x)
              m == Operation(mem, op, Place[x], Top.place, t)
              v == Read(m, Len(m), t)
              n == Write(m, Place[x], t, v)
  <2>1. /\ pend # <<>> /\ Runs(mem, op, Place[x], Top.place, t)
        /\ Store(<<"update", op, x>>, n, 1, Place[x], Wider(t, Top.type), x, {x})
    BY <1>28 DEF Update
  <2>2. t \in Types /\ Wider(t, Top.type) \in Types
    BY <1>2, <1>6, <1>8, <2>1
  <2>. HIDE DEF t
  <2>3. m \in Seq({0, 1}) /\ Len(m) = Len(mem) + t
    BY <1>1, <1>2, <1>6, <1>14, <2>1, <2>2
  <2>4. Len(mem) <= Len(m) /\ Len(m) \in Int
    BY <1>1, <1>15, <2>2, <2>3
  <2>. HIDE DEF m
  <2>5. v \in Int
    BY <1>3, <2>2, <2>3, <2>4
  <2>. HIDE DEF v
  <2>6. n \in Seq({0, 1}) /\ Len(n) = Len(m)
    BY <1>4, <1>6, <2>2, <2>3, <2>5
  <2>. HIDE DEF n
  <2>7. Place[x] <= Len(n) /\ Len(mem) <= Len(n)
    BY <1>1, <1>6, <2>4, <2>6
  <2>. QED  BY <1>2, <1>6, <1>7, <2>1, <2>2, <2>6, <2>7, StoreTypes
<1>29. ASSUME NEW op \in Arithmetic, UpdateElement(op) PROVE TypeInv'
  <2>. DEFINE t == ElementType
              i == IndexOf(mem, Top, t)
              u == Read(mem, ElementPlace(i, t), t)
              l == Temporary(mem, t, t, u)
              m == Operation(l, op, Len(l), Under.place, t)
              v == Read(m, Len(m), t)
              n == Write(m, ElementPlace(0, t), t, v)
  <2>1. /\ Len(pend) > 1 /\ Top.value \in Indices /\ Runs(l, op, Len(l), Under.place, t)
        /\ Store(<<"updateElement", op>>, n, 2, ElementPlace(0, t), Wider(t, Under.type), Array, {Array})
    BY <1>29 DEF UpdateElement
  <2>2. t \in Types /\ Wider(t, Under.type) \in Types
    BY <1>2, <1>8, <1>9, <2>1
  <2>3. /\ ElementPlace(0, t) \in Nat /\ Int64 < ElementPlace(0, t) /\ ElementPlace(0, t) <= Len(mem)
        /\ ElementPlace(0, t) \in Int
    BY <1>11, <1>12, <2>1
  <2>. HIDE DEF t
  <2>4. u \in Int
    BY <1>1, <1>2, <1>3, <1>10, <1>13, <2>1, <2>2
  <2>. HIDE DEF u
  <2>5. l \in Seq({0, 1}) /\ Len(mem) < Len(l) /\ Len(l) \in Nat
    BY <1>1, <1>5, <2>2, <2>4
  <2>. HIDE DEF l
  <2>6. m \in Seq({0, 1}) /\ Len(m) = Len(l) + t
    BY <1>2, <1>14, <2>1, <2>2, <2>5
  <2>7. Len(mem) <= Len(m) /\ Len(m) \in Int
    BY <1>1, <1>15, <2>2, <2>5, <2>6
  <2>. HIDE DEF m
  <2>8. v \in Int
    BY <1>3, <2>2, <2>6, <2>7
  <2>. HIDE DEF v
  <2>9. n \in Seq({0, 1}) /\ Len(n) = Len(m)
    BY <1>4, <2>2, <2>3, <2>6, <2>8
  <2>. HIDE DEF n
  <2>10. ElementPlace(0, t) <= Len(n) /\ Len(mem) <= Len(n)
    BY <1>1, <2>3, <2>7, <2>9
  <2>. QED  BY <1>2, <1>7, <2>1, <2>2, <2>3, <2>9, <2>10, StoreTypes
<1>30. ASSUME NEW x \in Variables, NEW d \in {-1, 1}, NEW post \in BOOLEAN, Step(x, d, post)
       PROVE  TypeInv'
  <2>. DEFINE t == TypeOf(x)
              v == Read(mem, Place[x], t)
              m == IF post THEN Temporary(mem, t, t, v) ELSE mem
              l == Temporary(m, t, t, v + d)
              n == Write(l, Place[x], t, v + d)
              place == IF post THEN Len(m) ELSE Place[x]
  <2>1. Store(<<"step", d, post, x>>, n, 0, place, t, x, {x})
    BY <1>30 DEF Step
  <2>2. t \in Types
    BY <1>6
  <2>. HIDE DEF t
  <2>3. v \in Int /\ v + d \in Int
    BY <1>1, <1>3, <1>6, <2>2
  <2>. HIDE DEF v
  <2>4. /\ m \in Seq({0, 1}) /\ Len(mem) <= Len(m) /\ Len(m) \in Nat
        /\ post => Len(mem) < Len(m)
    BY <1>1, <1>5, <2>2, <2>3
  <2>. HIDE DEF m
  <2>5. l \in Seq({0, 1}) /\ Len(m) < Len(l) /\ Len(l) \in Nat
    BY <1>5, <2>2, <2>3, <2>4
  <2>. HIDE DEF l
  <2>6. n \in Seq({0, 1}) /\ Len(n) = Len(l)
    BY <1>4, <1>6, <2>2, <2>3, <2>5
  <2>. HIDE DEF n
  <2>7. post => Int64 < Len(m)
    BY <1>1, <2>4, SlotsAssumption, WidthTypes DEF TypeInv
  <2>8. place \in Nat /\ Int64 < place /\ place <= Len(n) /\ Len(mem) <= Len(n)
    BY <1>1, <1>6, <2>4, <2>5, <2>6, <2>7
  <2>. HIDE DEF place
  <2>. QED  BY <1>1, <1>6, <2>1, <2>2, <2>6, <2>8, StoreTypes
<1>31. ASSUME NEW d \in {-1, 1}, NEW post \in BOOLEAN, StepElement(d, post) PROVE TypeInv'
  <2>. DEFINE t == ElementType
              first == ElementPlace(0, t)
              v == Read(mem, ElementPlace(IndexOf(mem, Top, t), t), t)
              l == Temporary(mem, t, t, v)
              k == Temporary(l, t, t, v + d)
              m == Write(k, first, t, v + d)
              n == IF post THEN l ELSE m
              place == IF post THEN Len(l) ELSE first
  <2>1. /\ pend # <<>> /\ Top.value \in Indices
        /\ Store(<<"stepElement", d, post>>, n, 1, place, t, Array, {Array})
    BY <1>31 DEF StepElement
  <2>2. /\ t \in Types /\ first \in Nat /\ Int64 < first /\ first <= Len(mem)
    BY <1>9, <1>11, <1>12, <2>1
  <2>. HIDE DEF t, first
  <2>3. v \in Int /\ v + d \in Int
    BY <1>1, <1>2, <1>3, <1>10, <1>13, <2>1, <2>2
  <2>. HIDE DEF v
  <2>4. l \in Seq({0, 1}) /\ Len(mem) < Len(l) /\ Len(l) \in Nat
    BY <1>1, <1>5, <2>2, <2>3
  <2>. HIDE DEF l
  <2>5. k \in Seq({0, 1}) /\ Len(l) < Len(k) /\ Len(k) \in Nat
    BY <1>5, <2>2, <2>3, <2>4
  <2>. HIDE DEF k
  <2>6. m \in Seq({0, 1}) /\ Len(m) = Len(k)
    BY <1>4, <2>2, <2>3, <2>5
  <2>. HIDE DEF m
  <2>7. Int64 < Len(l)
    BY <1>1, <2>4, SlotsAssumption, WidthTypes DEF TypeInv
  <2>8. n \in Seq({0, 1}) /\ Len(mem) <= Len(n) /\ place \in Nat /\ Int64 < place /\ place <= Len(n)
    BY <1>1, <2>2, <2>4, <2>5, <2>6, <2>7
  <2>. HIDE DEF n, place
  <2>. QED  BY <1>2, <1>7, <2>1, <2>2, <2>8, StoreTypes
<1>. HIDE DEF Operand
<1>. QED  BY <1>16, <1>17, <1>18, <1>19, <1>20, <1>21, <1>22, <1>23, <1>24, <1>25, <1>26,
             <1>27, <1>28, <1>29, <1>30, <1>31, NextCases

(* Operands are slots of the frame below the saved %rbp and hold a number of  *)
(* their type, whatever program the operators compile.                        *)
THEOREM TypeCorrect == Spec => []TypeOK
<1>1. Init => TypeInv
  BY InitTypes
<1>2. TypeInv /\ [Next]_vars => TypeInv'
  <2>1. TypeInv /\ UNCHANGED vars => TypeInv'
    BY DEF TypeInv, vars
  <2>. QED  BY <2>1, TypeStep
<1>3. TypeInv => TypeOK
  BY TypeInvTypes
<1>. QED  BY <1>1, <1>2, <1>3, PTL DEF Spec

-----------------------------------------------------------------------------
(* The invariant of careful programs *)

(* The slot of an operand: a temporary below the variables, a variable or     *)
(* element 0 that the operand reads or writes.                                *)
OperandSlot(p) == SlotAt(p.place, p.type)
InTemporary(p) == Locals <= p.place - p.type
InVariable(p) ==
  \E x \in Variables : x \in p.reads \union p.writes /\ p.place = Place[x] /\ p.type = TypeOf(x)
InElement(p) ==
  Array \in p.writes /\ p.place = ElementPlace(0, ElementType) /\ p.type = ElementType /\ 0 \in Indices

PlacesInv == \A i \in 1..Len(pend) :
  InTemporary(pend[i]) \/ InVariable(pend[i]) \/ InElement(pend[i])
ApartInv == \A i, j \in 1..Len(pend) :
  i # j /\ InTemporary(pend[i]) /\ InTemporary(pend[j])
    => OperandSlot(pend[i]) \intersect OperandSlot(pend[j]) = {}
ValuesInv == \A i \in 1..Len(pend) : Read(mem, pend[i].place, pend[i].type) = pend[i].value
BaseInv == \A k \in 1..Int64 : mem[k] = junk

IInv == TypeInv /\ PlacesInv /\ ApartInv /\ ValuesInv /\ BaseInv

LEMMA InitInv == Init => IInv
<1>. SUFFICES ASSUME Init PROVE IInv
  OBVIOUS
<1>1. TypeInv
  BY InitTypes
<1>2. pend = <<>>
  BY DEF Init
<1>3. PlacesInv /\ ApartInv /\ ValuesInv
  BY <1>2 DEF PlacesInv, ApartInv, ValuesInv
<1>4. BaseInv
  <2>1. PICK locals \in Initials : mem = Fill(Int64) \o locals
    BY DEF Init
  <2>2. Int64 \in Nat /\ Locals - Int64 \in Nat
    BY WidthTypes, SlotsAssumption
  <2>3. locals \in Seq({0, 1})
    BY <2>2, BoundsAssumption
  <2>4. Fill(Int64) \in Seq({0, 1}) /\ Len(Fill(Int64)) = Int64 /\ \A k \in 1..Int64 : Fill(Int64)[k] = junk
    BY <1>1, <2>2 DEF Fill, TypeInv
  <2>5. \A g, h \in Seq({0, 1}) : \A k \in 1..Len(g) : (g \o h)[k] = g[k]
    OBVIOUS
  <2>. QED  BY <2>1, <2>3, <2>4, <2>5 DEF BaseInv
<1>. QED  BY <1>1, <1>3, <1>4 DEF IInv

LEMMA InvImplies == IInv => OperandsKeepValues /\ SavedBaseKept
<1>. SUFFICES ASSUME IInv PROVE OperandsKeepValues /\ SavedBaseKept
  OBVIOUS
<1>1. ASSUME NEW p \in Range(pend) PROVE Read(mem, p.place, p.type) = p.value
  <2>1. PICK i \in 1..Len(pend) : p = pend[i]
    BY DEF Range, IInv, TypeInv
  <2>. QED  BY <2>1 DEF IInv, ValuesInv
<1>2. mem \in Seq({0, 1}) /\ Int64 \in Nat /\ Int64 <= Len(mem)
  BY WidthTypes, SlotsAssumption DEF IInv, TypeInv
<1>3. SubSeq(mem, 1, Int64) = [k \in 1..Int64 |-> mem[k]]
  BY <1>2
<1>4. [k \in 1..Int64 |-> mem[k]] = Fill(Int64)
  BY DEF IInv, BaseInv, Fill
<1>. QED  BY <1>1, <1>3, <1>4 DEF OperandsKeepValues, SavedBaseKept

LEMMA PlacedSlots ==
  ASSUME TypeInv, PlacesInv, NEW i \in 1..Len(pend)
  PROVE  /\ pend[i] \in Operand
         /\ OperandSlot(pend[i]) \subseteq (Int64 + 1)..Len(mem)
         /\ InTemporary(pend[i]) => \A k \in OperandSlot(pend[i]) : k > Locals
         /\ ~InTemporary(pend[i]) => OperandSlot(pend[i]) \subseteq (Int64 + 1)..Locals
<1>. DEFINE p == pend[i]
<1>1. p \in Operand /\ p.place \in Nat /\ p.type \in Nat \ {0} /\ p.place <= Len(mem) /\ Len(mem) \in Nat
  <2>1. p \in Operand /\ p.place <= Len(mem) /\ Len(mem) \in Nat
    BY DEF TypeInv
  <2>. QED  BY <2>1, WidthTypes DEF Operand
<1>2. Int64 \in Nat /\ Locals \in Nat /\ Int64 <= Locals /\ Locals <= Len(mem)
  BY WidthTypes, SlotsAssumption DEF TypeInv
<1>3. CASE InTemporary(p)
  BY <1>1, <1>2, <1>3 DEF InTemporary, OperandSlot, SlotAt
<1>4. CASE InVariable(p)
  <2>1. PICK x \in Variables : p.place = Place[x] /\ p.type = TypeOf(x)
    BY <1>4 DEF InVariable
  <2>2. OperandSlot(p) \subseteq (Int64 + 1)..Locals
    BY <2>1, VariablePlaces DEF OperandSlot
  <2>3. p.place <= Locals
    BY <2>1, VariablePlaces
  <2>4. ~InTemporary(p)
    BY <1>1, <1>2, <2>3 DEF InTemporary
  <2>. QED  BY <1>1, <1>2, <2>2, <2>4
<1>5. CASE InElement(p)
  <2>1. 0 \in Indices /\ p.place = ElementPlace(0, ElementType) /\ p.type = ElementType
    BY <1>5 DEF InElement
  <2>2. OperandSlot(p) \subseteq (Int64 + 1)..Locals /\ p.place <= Locals
    BY <2>1, ElementPlaces DEF OperandSlot
  <2>3. ~InTemporary(p)
    BY <1>1, <1>2, <2>2 DEF InTemporary
  <2>. QED  BY <1>1, <1>2, <2>2, <2>3
<1>. QED  BY <1>3, <1>4, <1>5 DEF PlacesInv

(* Changes in R reach neither the saved %rbp nor what waits on.               *)
Avoids(R, n) ==
  /\ \A k \in 1..Int64 : k \notin R
  /\ \A i \in 1..(Len(pend) - n) : OperandSlot(pend[i]) \intersect R = {}

LEMMA StillWaiting ==
  ASSUME TypeInv, NEW n \in 0..Len(pend), NEW i \in 1..(Len(pend) - n)
  PROVE  i \in 1..Len(pend) /\ pend[i] \in Range(Waiting(n))
<1>1. pend \in Seq(Operand) /\ Len(pend) \in Nat /\ i \in 1..Len(pend)
  BY DEF TypeInv
<1>2. Len(Waiting(n)) = Len(pend) - n /\ Waiting(n)[i] = pend[i] /\ Waiting(n) \in Seq(Operand)
  BY <1>1 DEF Waiting
<1>. QED  BY <1>1, <1>2 DEF Range

LEMMA AvoidsNothing == TypeInv => \A n \in 0..Len(pend) : Avoids({}, n)
BY DEF Avoids

LEMMA AvoidsBoth ==
  \A R, S, n : Avoids(R, n) /\ Avoids(S, n) => Avoids(R \union S, n)
BY DEF Avoids

(* An assignment to what no other operand uses avoids what waits.             *)
LEMMA AvoidsVariable ==
  ASSUME TypeInv, PlacesInv, NEW n \in 0..Len(pend), NEW x \in Variables, MayWrite(x, n)
  PROVE  Avoids(Slot(x), n)
<1>1. Slot(x) \subseteq (Int64 + 1)..Locals /\ Int64 \in Nat /\ Locals \in Nat
  BY VariablePlaces, WidthTypes, SlotsAssumption
<1>2. \A k \in 1..Int64 : k \notin Slot(x)
  BY <1>1
<1>3. ASSUME NEW i \in 1..(Len(pend) - n) PROVE OperandSlot(pend[i]) \intersect Slot(x) = {}
  <2>1. i \in 1..Len(pend) /\ x \notin pend[i].reads \union pend[i].writes
    BY StillWaiting DEF MayWrite
  <2>2. CASE InTemporary(pend[i])
    BY <1>1, <2>1, <2>2, PlacedSlots
  <2>3. CASE InVariable(pend[i])
    <3>1. PICK y \in Variables : y # x /\ OperandSlot(pend[i]) = SlotAt(Place[y], TypeOf(y))
      BY <2>1, <2>3 DEF InVariable, OperandSlot
    <3>2. OperandSlot(pend[i]) = Slot(y)
      BY <3>1, VariablePlaces
    <3>. QED  BY <3>1, <3>2, VariablePlaces
  <2>4. CASE InElement(pend[i])
    <3>1. OperandSlot(pend[i]) \subseteq ArraySlot
      BY <2>4, ElementPlaces DEF InElement, OperandSlot
    <3>. QED  BY <3>1, VariablePlaces
  <2>. QED  BY <2>1, <2>2, <2>3, <2>4 DEF PlacesInv
<1>. QED  BY <1>2, <1>3 DEF Avoids

LEMMA AvoidsArray ==
  ASSUME TypeInv, PlacesInv, NEW n \in 0..Len(pend), MayWrite(Array, n)
  PROVE  Avoids(ArraySlot, n)
<1>1. ArraySlot \subseteq (Int64 + 1)..Locals /\ Int64 \in Nat /\ Locals \in Nat
  BY WidthTypes, SlotsAssumption
<1>2. \A k \in 1..Int64 : k \notin ArraySlot
  BY <1>1
<1>3. ASSUME NEW i \in 1..(Len(pend) - n) PROVE OperandSlot(pend[i]) \intersect ArraySlot = {}
  <2>1. i \in 1..Len(pend) /\ Array \notin pend[i].writes
    BY StillWaiting DEF MayWrite
  <2>2. CASE InTemporary(pend[i])
    <3>1. \A k \in OperandSlot(pend[i]) : k > Locals
      BY <2>1, <2>2, PlacedSlots
    <3>. SUFFICES ASSUME NEW k \in OperandSlot(pend[i]), k \in ArraySlot PROVE FALSE
      OBVIOUS
    <3>2. k \in (Int64 + 1)..Locals
      BY <1>1
    <3>. QED  BY <1>1, <3>1, <3>2
  <2>3. CASE InVariable(pend[i])
    <3>1. PICK y \in Variables : OperandSlot(pend[i]) = SlotAt(Place[y], TypeOf(y))
      BY <2>3 DEF InVariable, OperandSlot
    <3>. QED  BY <3>1, VariablePlaces
  <2>. QED  BY <2>1, <2>2, <2>3 DEF PlacesInv, InElement
<1>. QED  BY <1>2, <1>3 DEF Avoids

(* A shift in the place of its left operand.                                  *)
LEMMA AvoidsUnder ==
  ASSUME IInv, Len(pend) > 1, InTemporary(Under)
  PROVE  Avoids(OperandSlot(Under), 2) /\ \A k \in OperandSlot(Under) : k > Locals
<1>. USE DEF IInv
<1>1. Len(pend) \in Nat /\ Len(pend) - 1 \in 1..Len(pend) /\ Under = pend[Len(pend) - 1]
  BY OperandTypes DEF Under
<1>2. \A k \in OperandSlot(Under) : k > Locals
  BY <1>1, PlacedSlots
<1>3. \A k \in 1..Int64 : k \notin OperandSlot(Under)
  BY <1>2, WidthTypes, SlotsAssumption
<1>4. ASSUME NEW i \in 1..(Len(pend) - 2)
      PROVE  OperandSlot(pend[i]) \intersect OperandSlot(Under) = {}
  <2>1. i \in 1..Len(pend) /\ i # Len(pend) - 1
    BY <1>1
  <2>2. CASE InTemporary(pend[i])
    BY <1>1, <2>1, <2>2 DEF ApartInv
  <2>3. CASE ~InTemporary(pend[i])
    <3>1. OperandSlot(pend[i]) \subseteq (Int64 + 1)..Locals
      BY <2>1, <2>3, PlacedSlots
    <3>. QED  BY <1>2, <3>1, WidthTypes, SlotsAssumption
  <2>. QED  BY <2>2, <2>3
<1>. QED  BY <1>2, <1>3, <1>4 DEF Avoids

-----------------------------------------------------------------------------
(* A step of careful programs *)

(* What an expression means in terms of the state.                            *)
Vals == [i \in 1..Len(pend) |-> pend[i].value]

(* The new operand has a temporary of its own, or is a variable or element 0. *)
WellPlaced(place, type, reads, writes) ==
  \/ Len(mem) <= place - type
  \/ \E x \in Variables : x \in reads \union writes /\ place = Place[x] /\ type = TypeOf(x)
  \/ Array \in writes /\ place = ElementPlace(0, ElementType) /\ type = ElementType /\ 0 \in Indices

LEMMA ReadPrimed ==
  ASSUME junk' = junk
  PROVE  \A d, w : (Read(mem, d, w))' = Read(mem', d, w)
BY DEF Read, Unsigned, BitAt

(* What is waited for keeps its value when a step avoids it.                  *)
LEMMA YieldStep ==
  ASSUME IInv, NEW s, NEW n \in 0..Len(pend), NEW m, NEW place, NEW type, NEW isName,
         NEW reads, NEW writes, NEW R, Untouched(mem, m, R), Avoids(R, n),
         Yield(s, m, n, place, type, isName, reads, writes), TypeInv',
         WellPlaced(place, type, reads, writes)
  PROVE  /\ IInv'
         /\ step' = s /\ mem' = m /\ junk' = junk /\ n <= Len(Vals)
         /\ Vals' = Append(SubSeq(Vals, 1, Len(Vals) - n), Read(m, place, type))
<1>. DEFINE p == [place |-> place, type |-> type, value |-> Read(m, place, type),
                  isName |-> isName, reads |-> reads, writes |-> writes]
            l == Len(pend) - n
<1>1. /\ step' = s /\ mem' = m /\ junk' = junk
      /\ pend' = Append(Waiting(n), p)
  BY DEF Yield
<1>2. TypeInv /\ PlacesInv /\ ApartInv /\ ValuesInv /\ BaseInv
  BY DEF IInv
<1>3. /\ p.place = place /\ p.type = type /\ p.value = Read(m, place, type)
      /\ p.reads = reads /\ p.writes = writes
  OBVIOUS
<1>. HIDE DEF p
<1>4. /\ Len(pend') = l + 1 /\ pend'[l + 1] = p
      /\ \A i \in 1..l : pend'[i] = pend[i] /\ i \in 1..Len(pend)
  <2>1. /\ Len(pend') = Len(pend) - n + 1 /\ pend'[Len(pend')] = p
        /\ \A i \in 1..(Len(pend) - n) : pend'[i] = pend[i] /\ i \in 1..Len(pend)
    BY <1>1, <1>2, YieldedPend
  <2>. QED  BY <2>1
<1>5. /\ Len(pend) \in Nat /\ l \in Nat /\ Len(mem) \in Nat /\ mem \in Seq({0, 1}) /\ junk \in {0, 1}
      /\ Locals \in Nat /\ Int64 \in Nat /\ Int64 <= Locals /\ Locals <= Len(mem)
  BY <1>2, SlotsAssumption, WidthTypes DEF TypeInv
<1>6. ASSUME NEW i \in 1..(l + 1) PROVE i \in 1..l \/ i = l + 1
  BY <1>5
<1>7. ASSUME NEW i \in 1..l
      PROVE  /\ OperandSlot(pend[i]) \subseteq (1..Len(mem)) \ R
             /\ pend[i].place \in Int /\ pend[i].type \in Nat
  <2>1. i \in 1..Len(pend)
    BY <1>4
  <2>2. pend[i] \in Operand /\ OperandSlot(pend[i]) \subseteq (Int64 + 1)..Len(mem)
    BY <1>2, <2>1, PlacedSlots
  <2>3. OperandSlot(pend[i]) \intersect R = {}
    BY DEF Avoids
  <2>4. pend[i].place \in Int /\ pend[i].type \in Nat
    BY <2>2, WidthTypes DEF Operand
  <2>. QED  BY <1>5, <2>2, <2>3, <2>4
<1>8. BaseInv'
  <2>1. ASSUME NEW k \in 1..Int64 PROVE m[k] = junk
    <3>1. k \notin R /\ k \in 1..Len(mem)
      BY <1>5 DEF Avoids
    <3>. QED  BY <1>2, <3>1 DEF BaseInv, Untouched
  <2>. QED  BY <1>1, <2>1 DEF BaseInv
<1>9. ValuesInv'
  <2>1. ASSUME NEW i \in 1..Len(pend') PROVE Read(m, pend'[i].place, pend'[i].type) = pend'[i].value
    <3>1. CASE i \in 1..l
      <4>1. Read(m, pend[i].place, pend[i].type) = Read(mem, pend[i].place, pend[i].type)
        <5>1. /\ SlotAt(pend[i].place, pend[i].type) \subseteq (1..Len(mem)) \ R
              /\ pend[i].place \in Int /\ pend[i].type \in Nat
          BY <1>7, <3>1 DEF OperandSlot
        <5>. QED  BY <1>5, <5>1, UntouchedRead
      <4>. QED  BY <1>2, <1>4, <3>1, <4>1 DEF ValuesInv
    <3>. QED  BY <1>3, <1>4, <1>6, <3>1
  <2>. QED  BY <1>1, <2>1, ReadPrimed DEF ValuesInv
<1>10. PlacesInv'
  <2>1. ASSUME NEW i \in 1..Len(pend')
        PROVE  InTemporary(pend'[i]) \/ InVariable(pend'[i]) \/ InElement(pend'[i])
    <3>1. CASE i \in 1..l
      BY <1>2, <1>4, <3>1 DEF PlacesInv
    <3>2. CASE i = l + 1
      <4>1. place \in Int /\ type \in Int
        <5>1. l + 1 \in 1..Len(pend') /\ pend' \in Seq(Operand)
          BY <1>4, <1>5 DEF TypeInv
        <5>2. p \in Operand
          BY <1>4, <5>1
        <5>. QED  BY <1>3, <5>2, WidthTypes DEF Operand
      <4>2. Len(mem) <= place - type => Locals <= place - type
        BY <1>5, <4>1
      <4>3. pend'[i] = p
        BY <1>4, <3>2
      <4>. QED  BY <1>3, <4>2, <4>3 DEF WellPlaced, InTemporary, InVariable, InElement
    <3>. QED  BY <1>4, <1>6, <3>1, <3>2
  <2>. QED  BY <2>1 DEF PlacesInv, InTemporary, InVariable, InElement
<1>11. ApartInv'
  <2>1. place \in Int /\ type \in Int
    <3>1. l + 1 \in 1..Len(pend') /\ pend' \in Seq(Operand)
      BY <1>4, <1>5 DEF TypeInv
    <3>2. p \in Operand
      BY <1>4, <3>1
    <3>. QED  BY <1>3, <3>2, WidthTypes DEF Operand
  <2>2. InTemporary(p) => Len(mem) <= place - type
    <3>1. \A x \in Variables : place = Place[x] => place <= Locals
      BY VariablePlaces
    <3>2. 0 \in Indices /\ place = ElementPlace(0, ElementType) => place <= Locals
      BY ElementPlaces
    <3>3. InTemporary(p) /\ type > 0 => place > Locals
      BY <1>3, <1>5, <2>1 DEF InTemporary
    <3>4. type > 0
      <4>1. l + 1 \in 1..Len(pend') /\ pend' \in Seq(Operand)
        BY <1>4, <1>5 DEF TypeInv
      <4>2. p \in Operand
        BY <1>4, <4>1
      <4>. QED  BY <1>3, <4>2, WidthTypes DEF Operand
    <3>. QED  BY <1>5, <2>1, <3>1, <3>2, <3>3, <3>4 DEF WellPlaced
  <2>3. ASSUME InTemporary(p), NEW i \in 1..l
        PROVE  OperandSlot(pend[i]) \intersect OperandSlot(p) = {}
    <3>1. \A k \in OperandSlot(p) : k > Len(mem)
      BY <1>3, <1>5, <2>1, <2>2, <2>3 DEF OperandSlot, SlotAt
    <3>2. \A k \in OperandSlot(pend[i]) : k <= Len(mem) /\ k \in Int
      BY <1>5, <1>7
    <3>. QED  BY <1>5, <3>1, <3>2
  <2>4. ASSUME NEW i \in 1..Len(pend'), NEW j \in 1..Len(pend'), i # j,
               InTemporary(pend'[i]), InTemporary(pend'[j])
        PROVE  OperandSlot(pend'[i]) \intersect OperandSlot(pend'[j]) = {}
    <3>1. CASE i \in 1..l /\ j \in 1..l
      BY <1>2, <1>4, <2>4, <3>1 DEF ApartInv
    <3>2. CASE i \in 1..l /\ j = l + 1
      BY <1>4, <2>3, <2>4, <3>2
    <3>3. CASE i = l + 1 /\ j \in 1..l
      BY <1>4, <2>3, <2>4, <3>3
    <3>. QED  BY <1>4, <1>6, <2>4, <3>1, <3>2, <3>3
  <2>. QED  BY <2>4 DEF ApartInv, InTemporary, OperandSlot
<1>12. IInv'
  BY <1>8, <1>9, <1>10, <1>11 DEF IInv
<1>13. Len(Vals) = Len(pend) /\ n <= Len(Vals)
  BY <1>5 DEF Vals
<1>14. Vals' = Append(SubSeq(Vals, 1, Len(Vals) - n), Read(m, place, type))
  <2>1. Vals' = [i \in 1..(l + 1) |-> pend'[i].value]
    BY <1>4 DEF Vals
  <2>2. SubSeq(Vals, 1, l) = [i \in 1..l |-> pend[i].value]
    BY <1>4, <1>5, <1>13 DEF Vals
  <2>. DEFINE v == Read(m, place, type)
              q == [i \in 1..l |-> pend[i].value]
  <2>3. Append(q, v) = [i \in 1..(l + 1) |-> IF i = l + 1 THEN v ELSE q[i]]
    BY <1>5
  <2>4. \A i \in 1..(l + 1) : pend'[i].value = IF i = l + 1 THEN v ELSE q[i]
    BY <1>3, <1>4, <1>5, <1>6
  <2>. HIDE DEF v, q
  <2>5. Vals' = Append(q, v)
    BY <2>1, <2>3, <2>4
  <2>. QED  BY <1>13, <2>2, <2>5 DEF v, q
<1>. QED  BY <1>1, <1>12, <1>13, <1>14

(* Evaluation has the definitions of Numbers, too.                            *)
LEMMA SameNumbers ==
  /\ C!Types = Types /\ C!Variables = Variables /\ C!Indices = Indices
  /\ C!Arithmetic = Arithmetic /\ C!Tests = Tests
  /\ \A x : C!TypeOf(x) = TypeOf(x)
  /\ \A b : C!Truth(b) = Truth(b)
  /\ \A v, w : C!Convert(v, w) = Convert(v, w)
  /\ \A op, a, b : C!Result(op, a, b) = Result(op, a, b)
  /\ \A op, a, b, w : C!Defined(op, a, b, w) = Defined(op, a, b, w)
<1>1. C!Pow2 = Pow2
  BY DEF C!Pow2, Pow2
<1>2. \A v, w : C!Convert(v, w) = Convert(v, w)
  BY <1>1 DEF C!Convert, Convert
<1>3. \A v, i : C!Bit(v, i) = Bit(v, i)
  BY <1>1 DEF C!Bit, Bit
<1>4. \A b, w : C!ValueOf(b, w) = ValueOf(b, w)
  BY <1>1 DEF C!ValueOf, ValueOf
<1>5. \A a, b : /\ C!And(a, b) = And(a, b) /\ C!Or(a, b) = Or(a, b) /\ C!Xor(a, b) = Xor(a, b)
  BY <1>2, <1>3, <1>4 DEF C!And, And, C!Or, Or, C!Xor, Xor, C!Bitwise, Bitwise
<1>6. \A a, b : C!Quotient(a, b) = Quotient(a, b)
  BY DEF C!Quotient, Quotient, C!Abs, Abs
<1>7. \A a, b : C!Remainder(a, b) = Remainder(a, b)
  BY <1>6 DEF C!Remainder, Remainder
<1>8. C!Tests = Tests /\ C!Divisions = Divisions /\ C!Shifts = Shifts
  BY DEF C!Tests, Tests, C!Divisions, Divisions, C!Shifts, Shifts
<1>9. \A b : C!Truth(b) = Truth(b)
  BY DEF C!Truth, Truth
<1>10. \A op, a, b : C!Holds(op, a, b) = Holds(op, a, b)
  BY DEF C!Holds, Holds
<1>11. \A op, a, b : C!Result(op, a, b) = Result(op, a, b)
  BY <1>1, <1>5, <1>6, <1>7, <1>8, <1>9, <1>10 DEF C!Result, Result
<1>12. \A op, a, b, w : C!Defined(op, a, b, w) = Defined(op, a, b, w)
  BY <1>2, <1>8, <1>11 DEF C!Defined, Defined, C!Fits, Fits
<1>13. /\ C!Types = Types /\ C!Variables = Variables /\ C!Indices = Indices
       /\ C!Arithmetic = Arithmetic /\ \A x : C!TypeOf(x) = TypeOf(x)
  BY <1>8 DEF C!Types, Types, C!Variables, Variables, C!Indices, Indices, C!Arithmetic, Arithmetic,
              C!TypeOf, TypeOf
<1>. QED  BY <1>2, <1>8, <1>9, <1>11, <1>12, <1>13

(* What variables and elements are worth after changes in R.                  *)
LEMMA LocalsKept ==
  ASSUME TypeInv, NEW m, NEW R, Untouched(mem, m, R), mem' = m, junk' = junk
  PROVE  /\ Variable(mem)' = [x \in Variables |-> Read(m, Place[x], TypeOf(x))]
         /\ Elements(mem)' =
              [i \in Indices |-> Read(m, ElementPlace(i, ElementType), ElementType)]
         /\ \A x \in Variables : Slot(x) \intersect R = {} =>
              Read(m, Place[x], TypeOf(x)) = Variable(mem)[x]
         /\ \A i \in Indices :
              SlotAt(ElementPlace(i, ElementType), ElementType) \intersect R = {} =>
                Read(m, ElementPlace(i, ElementType), ElementType) = Elements(mem)[i]
<1>1. Variable(mem)' = [x \in Variables |-> Read(m, Place[x], TypeOf(x))]
  BY ReadPrimed DEF Variable, Read, Unsigned, BitAt
<1>2. Elements(mem)' = [i \in Indices |-> Read(m, ElementPlace(i, ElementType), ElementType)]
  BY ReadPrimed DEF Elements, Read, Unsigned, BitAt
<1>3. /\ mem \in Seq({0, 1}) /\ junk \in {0, 1} /\ Len(mem) \in Nat /\ Locals \in Nat /\ Int64 \in Nat
      /\ Locals <= Len(mem)
  BY WidthTypes, SlotsAssumption DEF TypeInv
<1>4. (Int64 + 1)..Locals \subseteq 1..Len(mem)
  BY <1>3
<1>5. ASSUME NEW x \in Variables, Slot(x) \intersect R = {}
      PROVE  Read(m, Place[x], TypeOf(x)) = Variable(mem)[x]
  <2>1. SlotAt(Place[x], TypeOf(x)) \subseteq (1..Len(mem)) \ R
    BY <1>4, <1>5, VariablePlaces
  <2>2. Place[x] \in Int /\ TypeOf(x) \in Nat
    BY VariablePlaces, WidthTypes
  <2>3. Read(m, Place[x], TypeOf(x)) = Read(mem, Place[x], TypeOf(x))
    BY <1>3, <2>1, <2>2, UntouchedRead
  <2>. QED  BY <2>3 DEF Variable
<1>6. ASSUME NEW i \in Indices,
             SlotAt(ElementPlace(i, ElementType), ElementType) \intersect R = {}
      PROVE  Read(m, ElementPlace(i, ElementType), ElementType) = Elements(mem)[i]
  <2>1. SlotAt(ElementPlace(i, ElementType), ElementType) \subseteq (1..Len(mem)) \ R
    BY <1>4, <1>6, ElementPlaces
  <2>2. ElementPlace(i, ElementType) \in Int /\ ElementType \in Nat
    BY ElementPlaces, WidthTypes
  <2>3. Read(m, ElementPlace(i, ElementType), ElementType)
          = Read(mem, ElementPlace(i, ElementType), ElementType)
    BY <1>3, <2>1, <2>2, UntouchedRead
  <2>. QED  BY <2>3 DEF Elements
<1>. QED  BY <1>1, <1>2, <1>5, <1>6

LEMMA LocalBits ==
  /\ \A x \in Variables : \A k \in Slot(x) : k \in Int /\ ~(k > Locals)
  /\ \A i \in Indices : \A k \in SlotAt(ElementPlace(i, ElementType), ElementType) :
       k \in ArraySlot /\ k \in Int /\ ~(k > Locals)
<1>1. Locals \in Int /\ Int64 \in Int
  BY SlotsAssumption, WidthTypes
<1>2. \A k \in (Int64 + 1)..Locals : k \in Int /\ ~(k > Locals)
  BY <1>1
<1>3. \A x \in Variables : Slot(x) \subseteq (Int64 + 1)..Locals
  BY SlotsAssumption
<1>4. \A i \in Indices : SlotAt(ElementPlace(i, ElementType), ElementType) \subseteq ArraySlot
  BY ElementPlaces
<1>5. ArraySlot \subseteq (Int64 + 1)..Locals
  BY SlotsAssumption
<1>. QED  BY <1>2, <1>3, <1>4, <1>5

(* What a step does to the state of Evaluation.                               *)
Yields(s, n, v) == C!Yield(s, n, v)
Stores(s, x, v, n, r) == C!Store(s, x, v, n, r)
StoresAt(s, i, v, n, r) == C!StoreAt(s, i, v, n, r)

(* Changes of temporaries.                                                    *)
Outside(R) == \A k \in R : k > Locals

(* Steps without side effects, with one on a variable, with one on an element. *)
LEMMA PureStep ==
  ASSUME IInv, NEW s, NEW n \in 0..Len(pend), NEW m, NEW place, NEW type, NEW isName,
         NEW reads, NEW writes, NEW R, Untouched(mem, m, R), Avoids(R, n),
         Yield(s, m, n, place, type, isName, reads, writes), TypeInv',
         WellPlaced(place, type, reads, writes),
         Outside(R)
  PROVE  IInv' /\ Yields(s, n, Read(m, place, type))
<1>1. /\ IInv' /\ step' = s /\ mem' = m /\ junk' = junk /\ n <= Len(Vals) /\ TypeInv
      /\ Vals' = Append(SubSeq(Vals, 1, Len(Vals) - n), Read(m, place, type))
  <2>1. TypeInv
    BY DEF IInv
  <2>2. /\ IInv'
        /\ step' = s /\ mem' = m /\ junk' = junk /\ n <= Len(Vals)
        /\ Vals' = Append(SubSeq(Vals, 1, Len(Vals) - n), Read(m, place, type))
    BY YieldStep
  <2>. QED  BY <2>1, <2>2
<1>2. ASSUME NEW x \in Variables PROVE Slot(x) \intersect R = {}
  BY LocalBits DEF Outside
<1>3. ASSUME NEW i \in Indices
      PROVE  SlotAt(ElementPlace(i, ElementType), ElementType) \intersect R = {}
  BY LocalBits DEF Outside
<1>4. Variable(mem)' = Variable(mem)
  <2>1. \A x \in Variables : Read(m, Place[x], TypeOf(x)) = Variable(mem)[x]
    BY <1>1, <1>2, LocalsKept
  <2>2. Variable(mem)' = [x \in Variables |-> Variable(mem)[x]]
    BY <1>1, <2>1, LocalsKept
  <2>. QED  BY <2>2 DEF Variable
<1>5. Elements(mem)' = Elements(mem)
  <2>1. \A i \in Indices : Read(m, ElementPlace(i, ElementType), ElementType) = Elements(mem)[i]
    BY <1>1, <1>3, LocalsKept
  <2>2. Elements(mem)' = [i \in Indices |-> Elements(mem)[i]]
    BY <1>1, <2>1, LocalsKept
  <2>. QED  BY <2>2 DEF Elements
<1>. QED  BY <1>1, <1>4, <1>5 DEF Yields, C!Yield, C!Replaced, Vals

LEMMA VariableStep ==
  ASSUME IInv, NEW s, NEW n \in 0..Len(pend), NEW m, NEW place, NEW type, NEW isName,
         NEW reads, NEW writes, NEW R, Untouched(mem, m, R), Avoids(R, n),
         Yield(s, m, n, place, type, isName, reads, writes), TypeInv',
         WellPlaced(place, type, reads, writes),
         NEW x \in Variables, \A k \in R : k > Locals \/ k \in Slot(x)
  PROVE  IInv' /\ Stores(s, x, Read(m, Place[x], TypeOf(x)), n, Read(m, place, type))
<1>1. /\ IInv' /\ step' = s /\ mem' = m /\ junk' = junk /\ n <= Len(Vals) /\ TypeInv
      /\ Vals' = Append(SubSeq(Vals, 1, Len(Vals) - n), Read(m, place, type))
  <2>1. TypeInv
    BY DEF IInv
  <2>2. /\ IInv'
        /\ step' = s /\ mem' = m /\ junk' = junk /\ n <= Len(Vals)
        /\ Vals' = Append(SubSeq(Vals, 1, Len(Vals) - n), Read(m, place, type))
    BY YieldStep
  <2>. QED  BY <2>1, <2>2
<1>. DEFINE v == Read(m, Place[x], TypeOf(x))
<1>2. ASSUME NEW y \in Variables, y # x PROVE Slot(y) \intersect R = {}
  <2>1. Slot(y) \intersect Slot(x) = {}
    BY <1>2, VariablePlaces
  <2>. QED  BY <2>1, LocalBits
<1>3. ASSUME NEW i \in Indices
      PROVE  SlotAt(ElementPlace(i, ElementType), ElementType) \intersect R = {}
  <2>1. Slot(x) \intersect ArraySlot = {}
    BY VariablePlaces
  <2>. QED  BY <2>1, LocalBits
<1>4. Variable(mem)' = [Variable(mem) EXCEPT ![x] = v]
  <2>1. \A y \in Variables : Read(m, Place[y], TypeOf(y)) = IF y = x THEN v ELSE Variable(mem)[y]
    BY <1>1, <1>2, LocalsKept
  <2>2. Variable(mem)' = [y \in Variables |-> IF y = x THEN v ELSE Variable(mem)[y]]
    BY <1>1, <2>1, LocalsKept
  <2>. QED  BY <2>2 DEF Variable
<1>5. Elements(mem)' = Elements(mem)
  <2>1. \A i \in Indices : Read(m, ElementPlace(i, ElementType), ElementType) = Elements(mem)[i]
    BY <1>1, <1>3, LocalsKept
  <2>2. Elements(mem)' = [i \in Indices |-> Elements(mem)[i]]
    BY <1>1, <2>1, LocalsKept
  <2>. QED  BY <2>2 DEF Elements
<1>. QED  BY <1>1, <1>4, <1>5 DEF Stores, C!Store, C!Replaced, Vals

LEMMA ElementStep ==
  ASSUME IInv, NEW s, NEW n \in 0..Len(pend), NEW m, NEW place, NEW type, NEW isName,
         NEW reads, NEW writes, NEW R, Untouched(mem, m, R), Avoids(R, n),
         Yield(s, m, n, place, type, isName, reads, writes), TypeInv',
         WellPlaced(place, type, reads, writes), NEW i \in Indices,
         \A k \in R : k > Locals \/ k \in SlotAt(ElementPlace(i, ElementType), ElementType)
  PROVE  IInv' /\ StoresAt(s, i, Read(m, ElementPlace(i, ElementType), ElementType), n,
                           Read(m, place, type))
<1>1. /\ IInv' /\ step' = s /\ mem' = m /\ junk' = junk /\ n <= Len(Vals) /\ TypeInv
      /\ Vals' = Append(SubSeq(Vals, 1, Len(Vals) - n), Read(m, place, type))
  <2>1. TypeInv
    BY DEF IInv
  <2>2. /\ IInv'
        /\ step' = s /\ mem' = m /\ junk' = junk /\ n <= Len(Vals)
        /\ Vals' = Append(SubSeq(Vals, 1, Len(Vals) - n), Read(m, place, type))
    BY YieldStep
  <2>. QED  BY <2>1, <2>2
<1>. DEFINE slot(j) == SlotAt(ElementPlace(j, ElementType), ElementType)
            v == Read(m, ElementPlace(i, ElementType), ElementType)
<1>2. ASSUME NEW x \in Variables PROVE Slot(x) \intersect R = {}
  <2>1. Slot(x) \intersect ArraySlot = {}
    BY VariablePlaces
  <2>. QED  BY <2>1, LocalBits
<1>3. ASSUME NEW j \in Indices, j # i PROVE slot(j) \intersect R = {}
  <2>1. slot(j) \intersect slot(i) = {}
    BY <1>3, ElementPlaces
  <2>. QED  BY <2>1, LocalBits
<1>4. Variable(mem)' = Variable(mem)
  <2>1. \A x \in Variables : Read(m, Place[x], TypeOf(x)) = Variable(mem)[x]
    BY <1>1, <1>2, LocalsKept
  <2>2. Variable(mem)' = [x \in Variables |-> Variable(mem)[x]]
    BY <1>1, <2>1, LocalsKept
  <2>. QED  BY <2>2 DEF Variable
<1>5. Elements(mem)' = [Elements(mem) EXCEPT ![i] = v]
  <2>1. \A j \in Indices : Read(m, ElementPlace(j, ElementType), ElementType)
                             = IF j = i THEN v ELSE Elements(mem)[j]
    BY <1>1, <1>3, LocalsKept
  <2>2. Elements(mem)' = [j \in Indices |-> IF j = i THEN v ELSE Elements(mem)[j]]
    BY <1>1, <2>1, LocalsKept
  <2>. QED  BY <2>2 DEF Elements
<1>. QED  BY <1>1, <1>4, <1>5 DEF StoresAt, C!StoreAt, C!Replaced, Vals

-----------------------------------------------------------------------------
(* What instructions compute *)

(* A register that was loaded holds, in its low bits, what was read.          *)
LEMMA LoadedValue ==
  ASSUME junk \in {0, 1}, NEW m \in Seq({0, 1}), NEW d \in Int, NEW w \in Types,
         NEW u \in Nat \ {0}, u <= w
  PROVE  Convert(Loaded(m, d, w), u) = Read(m, d, u)
<1>. DEFINE k == Unsigned(m, d, w)
            x == k + (IF w < Int32 THEN junk * (Pow2[Int64] - Pow2[w]) ELSE 0)
<1>1. w \in Nat /\ w <= Int64 /\ Int64 \in Nat \ {0} /\ u <= Int64
  BY WidthTypes
<1>2. PICK a \in Nat, b \in Nat : Pow2[Int64] = Pow2[u] * a /\ Pow2[w] = Pow2[u] * b
  BY <1>1, PowerGrows
<1>3. Pow2[u] \in Nat /\ Pow2[u] >= 1
  BY PowerTypes
<1>4. k \in Int /\ Convert(k, u) = Read(m, d, u)
  BY <1>1, UnsignedType, NarrowRead
<1>5. PICK n \in Int : x = k + (Pow2[u] * n)
  <2>1. Pow2[u] * a \in Int /\ Pow2[u] * b \in Int /\ Pow2[u] * (a - b) = (Pow2[u] * a) - (Pow2[u] * b)
    <3>1. \A p \in Nat : p * a \in Int /\ p * b \in Int /\ p * (a - b) = (p * a) - (p * b)
      OBVIOUS
    <3>. QED  BY <1>3, <3>1
  <2>2. CASE w < Int32 /\ junk = 1
    <3>1. x = k + (Pow2[Int64] - Pow2[w])
      BY <1>2, <1>4, <2>1, <2>2
    <3>. QED  BY <1>2, <2>1, <3>1
  <2>3. CASE ~(w < Int32 /\ junk = 1)
    <3>1. x = k /\ Pow2[u] * 0 = 0
      BY <1>2, <1>3, <1>4, <2>1, <2>3
    <3>. QED  BY <1>4, <3>1
  <2>. QED  BY <2>2, <2>3
<1>6. Loaded(m, d, w) = Convert(x, Int64)
  BY DEF Loaded
<1>. HIDE DEF k, x
<1>7. x \in Int /\ x % Pow2[u] = k % Pow2[u]
  <2>1. (k + (Pow2[u] * n)) % Pow2[u] = k % Pow2[u]
    BY <1>3, <1>4, Multiple
  <2>2. \A p \in Nat : p * n \in Int
    OBVIOUS
  <2>3. Pow2[u] * n \in Int
    BY <1>3, <2>2
  <2>. QED  BY <1>4, <1>5, <2>1, <2>3
<1>8. Convert(Convert(x, Int64), u) = Convert(x, u)
  BY <1>1, <1>7, ConvertNarrower
<1>9. Convert(x, u) = Convert(k, u)
  BY <1>4, <1>7, ConvertSame
<1>. QED  BY <1>4, <1>6, <1>8, <1>9

(* A number that is not negative is read without its sign as well.            *)
LEMMA UnsignedValue ==
  ASSUME junk \in {0, 1}, NEW m \in Seq({0, 1}), NEW d \in Int, NEW w \in Nat \ {0},
         Read(m, d, w) >= 0
  PROVE  Unsigned(m, d, w) = Read(m, d, w)
<1>. DEFINE k == Unsigned(m, d, w)
            v == Read(m, d, w)
            K == Pow2[w]
<1>1. k \in 0..(K - 1) /\ k \in Int /\ v = Convert(k, w)
  BY UnsignedType DEF Read
<1>2. K \in Nat /\ K >= 1 /\ Pow2[w - 1] \in Nat /\ K = 2 * Pow2[w - 1]
  BY PowerTypes
<1>3. v \in Int /\ v < Pow2[w - 1] /\ v % K = k % K
  BY <1>1, ConvertFacts
<1>. HIDE DEF k, v, K
<1>4. v \in 0..(K - 1)
  BY <1>2, <1>3 DEF v
<1>5. \A p \in Nat : \A x \in 0..(p - 1) : x % p = x
  OBVIOUS
<1>6. k % K = k /\ v % K = v
  BY <1>1, <1>2, <1>4, <1>5
<1>. QED  BY <1>3, <1>6 DEF k, v

(* The low bits of a number are the number when it is small.                  *)
LEMMA NarrowValue ==
  ASSUME junk \in {0, 1}, NEW m \in Seq({0, 1}), NEW d \in Int, NEW w \in Nat,
         NEW u \in Nat \ {0}, u <= w, Read(m, d, w) \in 0..(Pow2[u] - 1)
  PROVE  Unsigned(m, d, u) = Read(m, d, w)
<1>1. Unsigned(m, d, w) = Read(m, d, w)
  <2>1. Read(m, d, w) >= 0 /\ w \in Nat \ {0}
    BY PowerTypes
  <2>. QED  BY <2>1, UnsignedValue
<1>2. Unsigned(m, d, u) = Unsigned(m, d, w) % Pow2[u]
  BY NarrowRead
<1>3. \A K \in Nat : \A x \in 0..(K - 1) : x % K = x
  OBVIOUS
<1>4. Pow2[u] \in Nat
  BY PowerTypes
<1>. QED  BY <1>1, <1>2, <1>3, <1>4

(* The count of a shift, in %cl, and the index of an access, in %rax.         *)
LEMMA CountValue ==
  ASSUME junk \in {0, 1}, NEW m \in Seq({0, 1}), NEW d \in Int, NEW w \in Types,
         Read(m, d, w) \in 0..(w - 1)
  PROVE  Unsigned(m, d, Char) = Read(m, d, w)
<1>1. w \in Nat \ {0} /\ w <= Int64 /\ Int64 \in Nat /\ Char \in Nat \ {0} /\ Char <= w
  BY WidthTypes, TypesAssumption DEF Types
<1>2. Int64 <= Pow2[Char] /\ Pow2[Char] \in Nat
  BY <1>1, TypesAssumption, PowerTypes
<1>3. Read(m, d, w) \in 0..(Pow2[Char] - 1)
  BY <1>1, <1>2
<1>. QED  BY <1>1, <1>3, NarrowValue

LEMMA IndexValue ==
  ASSUME junk \in {0, 1}, NEW m \in Seq({0, 1}), NEW p \in Operand, NEW w \in Types, w >= Int32,
         p.type # Char, Read(m, p.place, p.type) = p.value, p.value \in Indices
  PROVE  IndexOf(m, p, w) = p.value
<1>1. p.place \in Int /\ p.type \in Types
  BY DEF Operand
<1>2. Int32 \in Nat \ {0} /\ Int64 \in Nat \ {0} /\ Int32 < Int64 /\ w \in Nat \ {0} /\ w <= Int64
  BY WidthTypes, TypesAssumption
<1>. DEFINE d == p.place
            v == p.value
<1>3. CASE p.type = Int32
  <2>1. Convert(Loaded(m, d, w), Int32) = Read(m, d, Int32)
    BY <1>1, <1>2, LoadedValue
  <2>. QED  BY <1>3, <2>1 DEF IndexOf
<1>4. CASE p.type # Int32
  <2>1. p.type = Int64 /\ IndexOf(m, p, w) = Loaded(m, d, w) /\ Read(m, d, Int64) = v
    BY <1>1, <1>4 DEF Types, IndexOf
  <2>. HIDE DEF d, v
  <2>2. d \in Int /\ v \in Indices
    BY <1>1 DEF d, v
  <2>3. v \in Nat /\ v < Pow2[Int32] /\ Pow2[Int32] \in Nat /\ Pow2[w] \in Nat /\ Pow2[Int32] <= Pow2[w]
    <3>1. Pow2[Int32] \in Nat /\ Pow2[w] \in Nat /\ Pow2[Int32] <= Pow2[w]
      BY <1>2, PowerTypes, PowerGrows
    <3>. QED  BY <2>2, <3>1, TypesAssumption DEF Indices
  <2>4. Unsigned(m, d, w) = v
    <3>1. Read(m, d, Int64) \in 0..(Pow2[w] - 1)
      BY <2>1, <2>3
    <3>. QED  BY <1>2, <2>1, <2>2, <3>1, NarrowValue
  <2>5. Loaded(m, d, w) = Convert(v, Int64)
    <3>1. Loaded(m, d, w) = Convert(v + 0, Int64)
      BY <1>2, <2>4 DEF Loaded
    <3>. QED  BY <2>3, <3>1
  <2>6. Convert(v, Int64) = v
    BY <1>2, <2>1, <2>2, ReadType DEF Fits
  <2>. QED  BY <2>1, <2>5, <2>6 DEF v
<1>. QED  BY <1>3, <1>4

(* An instruction at a width of at least 32 bits computes what C means.       *)
LEMMA ComputedValue ==
  ASSUME junk \in {0, 1}, NEW m \in Seq({0, 1}), NEW l \in Nat, NEW r \in Nat, NEW w \in Types,
         w >= Int32, NEW op \in Arithmetic \union Tests, op \in Divisions \union Tests => w = Int32,
         Defined(op, Read(m, l, w), Read(m, r, w), w)
  PROVE  Convert(Computed(m, op, l, r, w), w) = Result(op, Read(m, l, w), Read(m, r, w))
<1>. DEFINE a == Read(m, l, w)
            b == Read(m, r, w)
<1>1. a \in Int /\ b \in Int /\ w \in Nat \ {0}
  BY WidthTypes, ReadType
<1>2. Convert(Result(op, a, b), w) = Result(op, a, b)
  BY DEF Defined, Fits
<1>3. CASE op \in {"+", "-", "*"}
  <2>1. Computed(m, op, l, r, w) = Result(op, a, b)
    BY <1>3 DEF Computed, Result, Addition, Subtraction, Multiplication, Tests
  <2>. QED  BY <1>2, <2>1
<1>4. CASE op \in Divisions
  <2>1. w = Int32 /\ b # 0
    BY <1>4 DEF Defined
  <2>2. Dividend(m, l, w) = a
    BY <1>1, <2>1, LoadedValue DEF Dividend
  <2>3. Divisor(m, r) = b
    BY <2>1 DEF Divisor
  <2>4. Quotient(a, b) \in Int /\ Remainder(a, b) \in Int
    BY <1>1, <2>1, QuotientType
  <2>5. \A v \in Int : Convert(v % Pow2[w], w) = Convert(v, w)
    BY <1>1, ConvertNarrower
  <2>6. CASE op = "/"
    <3>1. Computed(m, op, l, r, w) = Quotient(a, b) % Pow2[w]
      BY <2>1, <2>2, <2>3, <2>6 DEF Computed, Div, Tests
    <3>2. Result(op, a, b) = Quotient(a, b)
      BY <2>6 DEF Result, Tests
    <3>. QED  BY <1>2, <2>4, <2>5, <3>1, <3>2
  <2>7. CASE op = "%"
    <3>1. Computed(m, op, l, r, w) = Remainder(a, b) % Pow2[w]
      BY <2>1, <2>2, <2>3, <2>7 DEF Computed, Mod, Tests
    <3>2. Result(op, a, b) = Remainder(a, b)
      BY <2>7 DEF Result, Tests
    <3>. QED  BY <1>2, <2>4, <2>5, <3>1, <3>2
  <2>. QED  BY <1>4, <2>6, <2>7 DEF Divisions
<1>5. CASE op \in {"&", "|", "^"}
  <2>1. Computed(m, op, l, r, w) = Result(op, a, b)
    BY <1>5 DEF Computed, Result, BitwiseAnd, BitwiseOr, BitwiseXor, Tests
  <2>. QED  BY <1>2, <2>1
<1>6. CASE op \in Shifts
  <2>1. Unsigned(m, r, Char) = b
    BY <1>6, CountValue DEF Defined
  <2>2. Computed(m, op, l, r, w) = Result(op, a, b)
    BY <1>6, <2>1 DEF Computed, Result, LeftShift, RightShift, Shifts, Tests
  <2>. QED  BY <1>2, <2>2
<1>7. CASE op \in Tests
  <2>1. w = Int32
    BY <1>7
  <2>2. Computed(m, op, l, r, w) = Result(op, a, b)
    BY <1>7, <2>1 DEF Computed, Result, FlagToReg, Tests
  <2>. QED  BY <1>2, <2>2
<1>. QED  BY <1>3, <1>4, <1>5, <1>6, <1>7 DEF Arithmetic

(* The operation leaves it in a new temporary, and changes at most the place  *)
(* of the left operand, when it shifts.                                       *)
LEMMA OperationValue ==
  ASSUME junk \in {0, 1}, NEW m \in Seq({0, 1}), NEW l \in Nat, NEW r \in Nat, NEW w \in Types,
         w >= Int32, NEW op \in Arithmetic \union Tests, op \in Divisions \union Tests => w = Int32,
         Runs(m, op, l, r, w), Defined(op, Read(m, l, w), Read(m, r, w), w)
  PROVE  LET n == Operation(m, op, l, r, w)
         IN  /\ n \in Seq({0, 1}) /\ Len(n) = Len(m) + w
             /\ Untouched(m, n, IF op \in Shifts THEN SlotAt(l, w) ELSE {})
             /\ Read(n, Len(n), w) = Result(op, Read(m, l, w), Read(m, r, w))
<1>. DEFINE v == Computed(m, op, l, r, w)
            e == IF op \in Shifts THEN Write(m, l, w, v) ELSE m
            R == IF op \in Shifts THEN SlotAt(l, w) ELSE {}
            n == Operation(m, op, l, r, w)
<1>1. v \in Int /\ w \in Nat \ {0}
  BY ComputedType, WidthTypes
<1>2. Convert(v, w) = Result(op, Read(m, l, w), Read(m, r, w))
  BY ComputedValue
<1>3. n = Temporary(e, w, w, v)
  BY DEF Operation
<1>. HIDE DEF v, n
<1>4. e \in Seq({0, 1}) /\ Len(e) = Len(m) /\ Untouched(m, e, R)
  <2>1. CASE op \in Shifts
    BY <1>1, <2>1, WriteFacts
  <2>2. CASE op \notin Shifts
    BY <2>2 DEF Untouched
  <2>. QED  BY <2>1, <2>2
<1>. HIDE DEF e, R
<1>5. n \in Seq({0, 1}) /\ Len(n) = Len(e) + w /\ Untouched(e, n, {}) /\ Read(n, Len(n), w) = Convert(v, w)
  BY <1>1, <1>3, <1>4, TemporaryFacts
<1>6. Untouched(m, n, R \union {})
  BY <1>4, <1>5, UntouchedTwice
<1>7. R \union {} = R
  OBVIOUS
<1>. QED  BY <1>2, <1>4, <1>5, <1>6, <1>7 DEF n, R

(* What C defines at one width it defines at a greater one.                   *)
LEMMA DefinedWider ==
  ASSUME NEW op \in Arithmetic \union Tests, NEW a \in Int, NEW b \in Int, NEW w \in Types,
         Defined(op, a, b, w)
  PROVE  Defined(op, a, b, Int64)
<1>1. w \in Nat \ {0} /\ w <= Int64 /\ Int64 \in Nat
  BY WidthTypes
<1>2. Result(op, a, b) \in Int
  BY <1>1, ResultType DEF Defined
<1>3. Fits(Result(op, a, b), Int64)
  BY <1>1, <1>2, FitsWider DEF Defined
<1>. QED  BY <1>1, <1>3 DEF Defined

LEMMA TruthFits ==
  ASSUME NEW b \in BOOLEAN
  PROVE  Truth(b) \in Int /\ Fits(Truth(b), Int32)
<1>1. Int32 \in Nat \ {0} /\ 1 < Int32
  BY TypesAssumption
<1>2. Pow2[1] = 2
  <2>1. 0 + 1 = 1 /\ 0 \in Nat
    OBVIOUS
  <2>. QED  BY <2>1, Powers
<1>3. Truth(b) \in 0..(Pow2[1] - 1)
  BY <1>2 DEF Truth
<1>. QED  BY <1>1, <1>3, FitsNatural

-----------------------------------------------------------------------------
(* The operands and places of a step *)

LEMMA Facts ==
  ASSUME IInv
  PROVE  /\ mem \in Seq({0, 1}) /\ junk \in {0, 1} /\ Len(mem) \in Nat /\ Len(pend) \in Nat
         /\ Locals \in Nat /\ Int64 \in Nat /\ Locals <= Len(mem) /\ 0 \in 0..Len(pend)
         /\ TypeInv /\ PlacesInv /\ Untouched(mem, mem, {})
         /\ Len(Vals) = Len(pend)
<1>1. TypeInv /\ PlacesInv
  BY DEF IInv
<1>2. Len(pend) \in Nat
  BY <1>1, OperandTypes
<1>3. mem \in Seq({0, 1}) /\ junk \in {0, 1} /\ Len(mem) >= Locals /\ Len(mem) \in Nat
  BY <1>1 DEF TypeInv
<1>. QED  BY <1>1, <1>2, <1>3, WidthTypes, SlotsAssumption DEF Untouched, Vals

LEMMA OperandValues ==
  ASSUME IInv
  PROVE  /\ pend # <<>> =>
              /\ Top \in Operand /\ Top.place \in Nat /\ Top.type \in Types /\ Top.value \in Int
              /\ Read(mem, Top.place, Top.type) = Top.value /\ Fits(Top.value, Top.type)
              /\ SlotAt(Top.place, Top.type) \subseteq 1..Len(mem)
              /\ 1 \in 0..Len(pend) /\ C!FromEnd(0) = Top.value
         /\ Len(pend) > 1 =>
              /\ Under \in Operand /\ Under.place \in Nat /\ Under.type \in Types /\ Under.value \in Int
              /\ Read(mem, Under.place, Under.type) = Under.value
              /\ SlotAt(Under.place, Under.type) \subseteq 1..Len(mem)
              /\ 2 \in 0..Len(pend) /\ pend # <<>> /\ C!FromEnd(1) = Under.value
<1>1. TypeInv /\ PlacesInv /\ Len(pend) \in Nat /\ pend \in Seq(Operand) /\ Int64 \in Nat
  BY Facts DEF TypeInv
<1>2. \A p \in Operand : p.place \in Nat /\ p.type \in Types /\ p.value \in Int
  BY DEF Operand
<1>. HIDE DEF Operand
<1>3. ASSUME NEW i \in 1..Len(pend)
      PROVE  /\ pend[i] \in Operand /\ Read(mem, pend[i].place, pend[i].type) = pend[i].value
             /\ Fits(pend[i].value, pend[i].type)
             /\ SlotAt(pend[i].place, pend[i].type) \subseteq 1..Len(mem)
  <2>1. OperandSlot(pend[i]) \subseteq (Int64 + 1)..Len(mem) /\ pend[i] \in Operand
    BY <1>1, PlacedSlots
  <2>2. SlotAt(pend[i].place, pend[i].type) \subseteq 1..Len(mem)
    BY <1>1, <2>1 DEF OperandSlot
  <2>3. Read(mem, pend[i].place, pend[i].type) = pend[i].value
    BY DEF IInv, ValuesInv
  <2>4. Fits(pend[i].value, pend[i].type)
    BY <1>1 DEF TypeInv
  <2>. QED  BY <2>1, <2>2, <2>3, <2>4
<1>4. ASSUME pend # <<>>
      PROVE  /\ Len(pend) \in 1..Len(pend) /\ Top = pend[Len(pend)] /\ 1 \in 0..Len(pend)
             /\ C!FromEnd(0) = Top.value
  <2>1. Len(pend) \in 1..Len(pend)
    BY <1>1, <1>4
  <2>2. Vals[Len(Vals) - 0] = pend[Len(pend)].value
    BY <2>1, Facts DEF Vals
  <2>. QED  BY <2>1, <2>2 DEF Top, C!FromEnd, Vals
<1>5. ASSUME Len(pend) > 1
      PROVE  /\ Len(pend) - 1 \in 1..Len(pend) /\ Under = pend[Len(pend) - 1] /\ 2 \in 0..Len(pend)
             /\ pend # <<>> /\ C!FromEnd(1) = Under.value
  <2>1. Len(pend) - 1 \in 1..Len(pend) /\ 2 \in 0..Len(pend) /\ pend # <<>>
    BY <1>1, <1>5
  <2>2. Vals[Len(Vals) - 1] = pend[Len(pend) - 1].value
    BY <2>1, Facts DEF Vals
  <2>. QED  BY <2>1, <2>2 DEF Under, C!FromEnd, Vals
<1>. QED  BY <1>2, <1>3, <1>4, <1>5

(* Changes outside of a frame leave it untouched.                             *)
LEMMA UntouchedWithin ==
  ASSUME NEW m \in Seq({0, 1}), NEW n, NEW R, NEW S, Untouched(m, n, R),
         \A k \in 1..Len(m) : k \in R => k \in S
  PROVE  Untouched(m, n, S)
BY DEF Untouched

(* A temporary is apart from all that was there before.                       *)
LEMMA NewSlot ==
  ASSUME NEW m \in Seq({0, 1}), NEW n \in Seq({0, 1}), NEW w \in Nat, Len(m) + w <= Len(n)
  PROVE  /\ \A k \in SlotAt(Len(n), w) : k > Len(m) /\ k \in 1..Len(n)
         /\ Len(m) <= Len(n) - w
<1>1. Len(m) \in Nat /\ Len(n) \in Nat
  OBVIOUS
<1>. QED  BY <1>1 DEF SlotAt

LEMMA ComputeStep ==
  ASSUME IInv, TypeInv', NEW s, NEW n \in 0..Len(pend), NEW m, NEW type, NEW R,
         Untouched(mem, m, R), Avoids(R, n), Outside(R),
         Len(mem) <= Len(m) - type, Compute(s, m, n, type)
  PROVE  IInv' /\ Yields(s, n, Read(m, Len(m), type))
<1>. DEFINE u == Range(SubSeq(pend, Len(pend) - n + 1, Len(pend)))
            r == UNION {p.reads : p \in u}
            w == UNION {p.writes : p \in u}
<1>1. Yield(s, m, n, Len(m), type, FALSE, r, w)
  BY DEF Compute
<1>. HIDE DEF r, w
<1>2. WellPlaced(Len(m), type, r, w)
  BY DEF WellPlaced
<1>. DEFINE d == Len(m)
<1>3. Yield(s, m, n, d, type, FALSE, r, w) /\ WellPlaced(d, type, r, w)
  BY <1>1, <1>2
<1>. HIDE DEF d
<1>4. IInv' /\ Yields(s, n, Read(m, d, type))
  BY <1>3, PureStep
<1>. QED  BY <1>4 DEF d

LEMMA StoreStep ==
  ASSUME IInv, TypeInv', NEW s, NEW n \in 0..Len(pend), NEW m, NEW place, NEW type, NEW reads,
         NEW x \in Variables, Untouched(mem, m, Slot(x)), Store(s, m, n, place, type, x, reads),
         Len(mem) <= place - type \/ (place = Place[x] /\ type = TypeOf(x))
  PROVE  IInv' /\ Stores(s, x, Read(m, Place[x], TypeOf(x)), n, Read(m, place, type))
<1>. DEFINE u == Range(SubSeq(pend, Len(pend) - n + 1, Len(pend)))
            r == reads \union UNION {p.reads : p \in u}
            w == {x} \union UNION {p.writes : p \in u}
<1>1. Yield(s, m, n, place, type, FALSE, r, w) /\ MayWrite(x, n) /\ x \in w
  BY DEF Store
<1>. HIDE DEF r, w
<1>2. WellPlaced(place, type, r, w)
  BY <1>1 DEF WellPlaced
<1>3. Avoids(Slot(x), n)
  BY <1>1, Facts, AvoidsVariable
<1>4. \A k \in Slot(x) : k > Locals \/ k \in Slot(x)
  OBVIOUS
<1>. QED  BY <1>1, <1>2, <1>3, <1>4, VariableStep

LEMMA StoreElementStep ==
  ASSUME IInv, TypeInv', NEW s, NEW n \in 0..Len(pend), NEW m, NEW place, NEW type, NEW reads,
         NEW i \in Indices, Untouched(mem, m, SlotAt(ElementPlace(i, ElementType), ElementType)),
         Store(s, m, n, place, type, Array, reads),
         Len(mem) <= place - type
           \/ (place = ElementPlace(0, ElementType) /\ type = ElementType /\ 0 \in Indices)
  PROVE  IInv' /\ StoresAt(s, i, Read(m, ElementPlace(i, ElementType), ElementType), n,
                           Read(m, place, type))
<1>. DEFINE u == Range(SubSeq(pend, Len(pend) - n + 1, Len(pend)))
            r == reads \union UNION {p.reads : p \in u}
            w == {Array} \union UNION {p.writes : p \in u}
            R == SlotAt(ElementPlace(i, ElementType), ElementType)
<1>1. Yield(s, m, n, place, type, FALSE, r, w) /\ MayWrite(Array, n) /\ Array \in w
  BY DEF Store
<1>. HIDE DEF r, w
<1>2. WellPlaced(place, type, r, w)
  BY <1>1 DEF WellPlaced
<1>3. Avoids(R, n)
  <2>1. Avoids(ArraySlot, n)
    BY <1>1, Facts, AvoidsArray
  <2>2. R \subseteq ArraySlot
    BY ElementPlaces
  <2>. QED  BY <2>1, <2>2 DEF Avoids
<1>4. \A k \in R : k > Locals \/ k \in R
  OBVIOUS
<1>. QED  BY <1>1, <1>2, <1>3, <1>4, ElementStep

-----------------------------------------------------------------------------
(* What careful programs compile to *)

(* Reads of what was there before a temporary, and of the temporary.          *)
LEMMA TemporaryValue ==
  ASSUME junk \in {0, 1}, NEW m \in Seq({0, 1}), NEW w \in Types, NEW at \in Types, at <= w, NEW v \in Int
  PROVE  LET n == Temporary(m, w, at, v)
         IN  /\ n \in Seq({0, 1}) /\ Len(n) = Len(m) + w /\ Len(m) <= Len(n) - at /\ Len(n) \in Nat
             /\ Untouched(m, n, {}) /\ Read(n, Len(n), at) = Convert(v, at)
             /\ \A d \in Nat, t \in Types : SlotAt(d, t) \subseteq 1..Len(m) => Read(n, d, t) = Read(m, d, t)
<1>. DEFINE n == Temporary(m, w, at, v)
<1>1. w \in Nat \ {0} /\ at \in Nat \ {0} /\ Len(m) \in Nat /\ \A t \in Types : t \in Nat
  BY WidthTypes
<1>2. /\ n \in Seq({0, 1}) /\ Len(n) = Len(m) + w
      /\ Untouched(m, n, {}) /\ Read(n, Len(n), at) = Convert(v, at)
  BY <1>1, TemporaryFacts
<1>. HIDE DEF n
<1>3. ASSUME NEW d \in Nat, NEW t \in Types, SlotAt(d, t) \subseteq 1..Len(m)
      PROVE  Read(n, d, t) = Read(m, d, t)
  <2>1. SlotAt(d, t) \subseteq (1..Len(m)) \ {} /\ d \in Int
    BY <1>3
  <2>. QED  BY <1>1, <1>2, <2>1, UntouchedRead
<1>. QED  BY <1>1, <1>2, <1>3 DEF n

LEMMA ConstantStep ==
  ASSUME IInv, TypeInv', NEW c \in Literals, Constant(c)
  PROVE  IInv' /\ C!Literal(c)
<1>. DEFINE m == Temporary(mem, Int64, Int32, c)
<1>1. Fits(c, Int32) /\ Compute(<<"literal", c>>, m, 0, Int32)
  BY DEF Constant
<1>2. Int32 \in Types /\ Int64 \in Types /\ Int32 <= Int64 /\ c \in Int
  BY TypesAssumption DEF Types
<1>3. Untouched(mem, m, {}) /\ Len(mem) <= Len(m) - Int32 /\ Read(m, Len(m), Int32) = Convert(c, Int32)
  BY <1>2, Facts, TemporaryValue
<1>. HIDE DEF m
<1>4. 0 \in 0..Len(pend) /\ Avoids({}, 0) /\ Outside({})
  BY Facts, AvoidsNothing DEF Outside
<1>5. IInv' /\ Yields(<<"literal", c>>, 0, Read(m, Len(m), Int32))
  BY <1>1, <1>3, <1>4, ComputeStep
<1>6. Read(m, Len(m), Int32) = c
  BY <1>1, <1>3 DEF Fits
<1>7. Yields(<<"literal", c>>, 0, c)
  BY <1>5, <1>6
<1>. QED  BY <1>5, <1>7 DEF Yields, C!Literal

LEMMA IdentifierStep ==
  ASSUME IInv, TypeInv', NEW x \in Variables, Identifier(x)
  PROVE  IInv' /\ C!Use(x)
<1>1. Yield(<<"name", x>>, mem, 0, Place[x], TypeOf(x), TRUE, {x}, {})
  BY DEF Identifier
<1>2. 0 \in 0..Len(pend) /\ Avoids({}, 0) /\ Outside({}) /\ Untouched(mem, mem, {})
  BY Facts, AvoidsNothing DEF Outside
<1>3. WellPlaced(Place[x], TypeOf(x), {x}, {})
  BY DEF WellPlaced
<1>4. IInv' /\ Yields(<<"name", x>>, 0, Read(mem, Place[x], TypeOf(x)))
  <2>. DEFINE d == Place[x]
              t == TypeOf(x)
              s == <<"name", x>>
  <2>1. Yield(s, mem, 0, d, t, TRUE, {x}, {}) /\ WellPlaced(d, t, {x}, {})
    BY <1>1, <1>3
  <2>. HIDE DEF d, t, s
  <2>2. IInv' /\ Yields(s, 0, Read(mem, d, t))
    BY <1>2, <2>1, PureStep
  <2>. QED  BY <2>2 DEF d, t, s
<1>5. Variable(mem)[x] = Read(mem, Place[x], TypeOf(x))
  BY DEF Variable
<1>6. Yields(<<"name", x>>, 0, Variable(mem)[x])
  BY <1>4, <1>5
<1>. QED  BY <1>4, <1>6 DEF Yields, C!Use

LEMMA ArrayAccessStep ==
  ASSUME IInv, TypeInv', Careful, ArrayAccess
  PROVE  IInv' /\ C!Element
<1>. DEFINE t == ElementType
            i == Top.value
            v == Read(mem, ElementPlace(i, t), t)
            m == Temporary(mem, t, t, v)
            r == Top.reads \union {Array}
            w == Top.writes
<1>1. pend # <<>> /\ Top.type # Char /\ i \in Indices /\ t >= Int32
  BY DEF ArrayAccess
<1>2. /\ Top \in Operand /\ Top.place \in Nat /\ Top.type \in Types
      /\ Read(mem, Top.place, Top.type) = i
      /\ 1 \in 0..Len(pend) /\ C!FromEnd(0) = i
  BY <1>1, OperandValues
<1>3. t \in Types /\ IndexOf(mem, Top, t) = i
  BY <1>1, <1>2, Facts, WidthTypes, IndexValue
<1>4. Yield(<<"element">>, m, 1, Len(m), t, FALSE, r, w)
  BY <1>3 DEF ArrayAccess
<1>5. v \in Int /\ Fits(v, t)
  BY <1>1, <1>3, Facts, WidthTypes, ElementPlaces, ReadType
<1>6. Untouched(mem, m, {}) /\ Len(mem) <= Len(m) - t /\ Read(m, Len(m), t) = v
  <2>1. t <= t
    BY <1>3, WidthTypes
  <2>2. Untouched(mem, m, {}) /\ Len(mem) <= Len(m) - t /\ Read(m, Len(m), t) = Convert(v, t)
    BY <1>3, <1>5, <2>1, Facts, TemporaryValue
  <2>. QED  BY <1>5, <2>2 DEF Fits
<1>7. Avoids({}, 1) /\ Outside({}) /\ WellPlaced(Len(m), t, r, w)
  BY <1>2, <1>6, Facts, AvoidsNothing DEF Outside, WellPlaced
<1>8. IInv' /\ Yields(<<"element">>, 1, Read(m, Len(m), t))
  <2>. DEFINE d == Len(m)
              s == <<"element">>
  <2>1. Yield(s, m, 1, d, t, FALSE, r, w) /\ WellPlaced(d, t, r, w)
    BY <1>4, <1>7
  <2>. HIDE DEF d, s, m, r, w
  <2>2. IInv' /\ Yields(s, 1, Read(m, d, t))
    BY <1>2, <1>6, <1>7, <2>1, PureStep
  <2>. QED  BY <2>2 DEF d, s
<1>9. Elements(mem)[i] = v
  BY <1>1 DEF Elements
<1>10. Yields(<<"element">>, 1, Elements(mem)[i])
  BY <1>6, <1>8, <1>9
<1>11. Len(Vals) >= 1 /\ C!Indices = Indices
  BY <1>2, Facts, SameNumbers
<1>. HIDE DEF i
<1>. QED  BY <1>1, <1>2, <1>8, <1>10, <1>11 DEF Yields, C!Element, Vals

LEMMA BinaryStep ==
  ASSUME IInv, TypeInv', Careful, NEW op \in Arithmetic \union Tests, Binary(op)
  PROVE  IInv' /\ C!Binary(op)
<1>. DEFINE w == Under.type
            a == Under.value
            b == Top.value
            m == Operation(mem, op, Under.place, Top.place, w)
            R == IF op \in Shifts THEN SlotAt(Under.place, w) ELSE {}
<1>1. /\ Len(pend) > 1 /\ Under.type = Top.type /\ w >= Int32
      /\ op \in Divisions \union Tests => w = Int32
      /\ op \in Shifts => IsTemporary(Under.place)
  BY DEF Binary, Suits
<1>2. /\ Under.place \in Nat /\ Top.place \in Nat /\ w \in Types /\ a \in Int /\ b \in Int
      /\ Read(mem, Under.place, w) = a /\ Read(mem, Top.place, w) = b
      /\ 2 \in 0..Len(pend) /\ C!FromEnd(0) = b /\ C!FromEnd(1) = a
  BY <1>1, OperandValues
<1>3. w \in Nat \ {0} /\ Int32 \in Nat /\ Wider(Under.type, Top.type) = w /\ Wider(w, Int32) = w
  BY <1>1, <1>2, WidthTypes DEF Wider
<1>4. /\ Defined(op, a, b, w) /\ Runs(mem, op, Under.place, Top.place, w)
      /\ Compute(<<"binary", op>>, m, 2, w)
  BY <1>3 DEF Binary
<1>5. /\ m \in Seq({0, 1}) /\ Len(m) = Len(mem) + w /\ Untouched(mem, m, R)
      /\ Read(m, Len(m), w) = Result(op, a, b)
  BY <1>1, <1>2, <1>4, Facts, OperationValue
<1>6. Avoids(R, 2) /\ Outside(R)
  <2>1. CASE op \in Shifts
    <3>1. InTemporary(Under)
      <4>1. Len(pend) - 1 \in 1..Len(pend) /\ Under = pend[Len(pend) - 1]
        BY <1>1, Facts DEF Under
      <4>2. CASE InVariable(Under)
        <5>1. Under.place <= Locals
          BY <4>2, VariablePlaces DEF InVariable
        <5>. QED  BY <1>1, <1>2, <2>1, <5>1, Facts DEF IsTemporary
      <4>3. CASE InElement(Under)
        <5>1. Under.place <= Locals
          BY <4>3, ElementPlaces DEF InElement
        <5>. QED  BY <1>1, <1>2, <2>1, <5>1, Facts DEF IsTemporary
      <4>. QED  BY <4>1, <4>2, <4>3, Facts DEF PlacesInv
    <3>2. Avoids(OperandSlot(Under), 2) /\ \A k \in OperandSlot(Under) : k > Locals
      BY <1>1, <3>1, AvoidsUnder
    <3>. QED  BY <2>1, <3>2 DEF OperandSlot, Outside
  <2>2. CASE op \notin Shifts
    BY <1>2, <2>2, Facts, AvoidsNothing DEF Outside
  <2>. QED  BY <2>1, <2>2
<1>7. Len(mem) <= Len(m) - w
  BY <1>3, <1>5, Facts
<1>. HIDE DEF m, R
<1>8. IInv' /\ Yields(<<"binary", op>>, 2, Read(m, Len(m), w))
  BY <1>2, <1>4, <1>5, <1>6, <1>7, ComputeStep
<1>9. Yields(<<"binary", op>>, 2, Result(op, a, b))
  BY <1>5, <1>8
<1>10. step' = <<"binary", op>>
  BY <1>9 DEF Yields, C!Yield
<1>11. Yields(step', 2, C!Result(op, C!FromEnd(1), C!FromEnd(0)))
  <2>1. Yields(<<"binary", op>>, 2, C!Result(op, C!FromEnd(1), C!FromEnd(0)))
    BY <1>2, <1>9, SameNumbers
  <2>. DEFINE s == <<"binary", op>>
  <2>2. step' = s /\ Yields(s, 2, C!Result(op, C!FromEnd(1), C!FromEnd(0)))
    BY <1>10, <2>1
  <2>. HIDE DEF s
  <2>. QED  BY <2>2 DEF Yields, C!Yield
<1>12. C!Defined(op, C!FromEnd(1), C!FromEnd(0), Int64)
  <2>1. Defined(op, a, b, Int64)
    BY <1>2, <1>4, DefinedWider
  <2>. QED  BY <1>2, <2>1, SameNumbers
<1>13. Len(Vals) >= 2
  BY <1>2, Facts
<1>. QED  BY <1>8, <1>10, <1>11, <1>12, <1>13 DEF Yields, C!Binary, Vals

LEMMA PreNegStep ==
  ASSUME IInv, TypeInv', Careful, PreNegOperator
  PROVE  IInv' /\ C!Negate
<1>. DEFINE t == Top.type
            v == Top.value
            m == Temporary(mem, t, t, -Read(mem, Top.place, t))
<1>1. pend # <<>> /\ t >= Int32 /\ Fits(-v, Wider(t, Int32)) /\ Compute(<<"negate">>, m, 1, t)
  BY DEF PreNegOperator, Suits
<1>2. /\ t \in Types /\ v \in Int /\ Read(mem, Top.place, t) = v
      /\ 1 \in 0..Len(pend) /\ C!FromEnd(0) = v
  BY <1>1, OperandValues
<1>3. t \in Nat \ {0} /\ Wider(t, Int32) = t /\ t <= t /\ -v \in Int
  BY <1>1, <1>2, WidthTypes DEF Wider
<1>4. Untouched(mem, m, {}) /\ Len(mem) <= Len(m) - t /\ Read(m, Len(m), t) = Convert(-v, t)
  BY <1>2, <1>3, Facts, TemporaryValue
<1>5. Read(m, Len(m), t) = -v
  BY <1>1, <1>3, <1>4 DEF Fits
<1>6. Avoids({}, 1) /\ Outside({})
  BY <1>2, Facts, AvoidsNothing DEF Outside
<1>. HIDE DEF m
<1>7. IInv' /\ Yields(<<"negate">>, 1, Read(m, Len(m), t))
  BY <1>1, <1>2, <1>4, <1>6, ComputeStep
<1>8. Yields(<<"negate">>, 1, -C!FromEnd(0))
  BY <1>2, <1>5, <1>7
<1>9. Len(Vals) >= 1
  BY <1>2, Facts
<1>. QED  BY <1>7, <1>8, <1>9 DEF Yields, C!Negate, Vals

LEMMA LogicalNotStep ==
  ASSUME IInv, TypeInv', Careful, LogicalNotOperator
  PROVE  IInv' /\ C!Not
<1>. DEFINE v == Top.value
            zero == Temporary(mem, Int64, Int32, 0)
            m == Operation(zero, "==", Top.place, Len(zero), Int32)
<1>1. pend # <<>> /\ Top.type = Int32
  BY DEF LogicalNotOperator, Suits, Tests
<1>2. /\ Top.place \in Nat /\ v \in Int /\ Read(mem, Top.place, Int32) = v
      /\ SlotAt(Top.place, Int32) \subseteq 1..Len(mem)
      /\ 1 \in 0..Len(pend) /\ C!FromEnd(0) = v
  BY <1>1, OperandValues
<1>3. /\ Int32 \in Types /\ Int64 \in Types /\ Int32 <= Int64 /\ Int32 <= Int32 /\ 0 \in Int
      /\ Int32 \in Nat \ {0}
  BY TypesAssumption DEF Types
<1>4. Compute(<<"not">>, m, 1, Int32)
  <2>1. Wider(Int32, Int32) = Int32
    BY <1>3 DEF Wider
  <2>. QED  BY <1>1, <2>1 DEF LogicalNotOperator
<1>5. /\ zero \in Seq({0, 1}) /\ Len(zero) = Len(mem) + Int64 /\ Len(zero) \in Nat
      /\ Untouched(mem, zero, {}) /\ Read(zero, Len(zero), Int32) = Convert(0, Int32)
      /\ Read(zero, Top.place, Int32) = Read(mem, Top.place, Int32)
  BY <1>2, <1>3, Facts, TemporaryValue
<1>6. Read(zero, Len(zero), Int32) = 0
  <2>1. Truth(FALSE) = 0
    BY DEF Truth
  <2>2. Fits(Truth(FALSE), Int32)
    BY TruthFits
  <2>. QED  BY <1>5, <2>1, <2>2 DEF Fits
<1>. HIDE DEF zero
<1>7. Result("==", v, 0) = Truth(v = 0)
  BY DEF Result, Holds, Tests
<1>8. /\ "==" \in Arithmetic \union Tests /\ "==" \notin Shifts /\ "==" \notin Divisions
      /\ Runs(zero, "==", Top.place, Len(zero), Int32)
  BY DEF Tests, Shifts, Divisions, Runs
<1>9. Defined("==", v, 0, Int32)
  BY <1>7, <1>8, TruthFits DEF Defined
<1>10. /\ Len(m) = Len(zero) + Int32 /\ Read(m, Len(m), Int32) = Truth(v = 0)
       /\ m \in Seq({0, 1}) /\ Untouched(zero, m, {})
  <2>. DEFINE l == Top.place
              r == Len(zero)
              op == "=="
  <2>1. /\ l \in Nat /\ r \in Nat /\ Int32 >= Int32 /\ Read(zero, l, Int32) = v /\ Read(zero, r, Int32) = 0
    BY <1>2, <1>3, <1>5, <1>6
  <2>2. /\ op \in Arithmetic \union Tests /\ op \notin Shifts /\ op \notin Divisions
        /\ Runs(zero, op, l, r, Int32) /\ Defined(op, v, 0, Int32) /\ Result(op, v, 0) = Truth(v = 0)
    BY <1>7, <1>8, <1>9
  <2>3. m = Operation(zero, op, l, r, Int32)
    OBVIOUS
  <2>. HIDE DEF l, r, op, m
  <2>. QED  BY <1>3, <1>5, <2>1, <2>2, <2>3, Facts, OperationValue
<1>11. Untouched(mem, m, {}) /\ Len(mem) <= Len(m) - Int32
  <2>1. Untouched(mem, m, {} \union {})
    BY <1>5, <1>10, Facts, UntouchedTwice
  <2>2. {} \union {} = {}
    OBVIOUS
  <2>3. Len(mem) <= Len(m) - Int32
    BY <1>3, <1>5, <1>10, Facts, WidthTypes
  <2>. QED  BY <2>1, <2>2, <2>3
<1>. HIDE DEF m
<1>12. Avoids({}, 1) /\ Outside({})
  BY <1>2, Facts, AvoidsNothing DEF Outside
<1>13. IInv' /\ Yields(<<"not">>, 1, Read(m, Len(m), Int32))
  BY <1>2, <1>4, <1>11, <1>12, ComputeStep
<1>14. Yields(<<"not">>, 1, C!Truth(C!FromEnd(0) = 0))
  BY <1>2, <1>10, <1>13, SameNumbers
<1>15. Len(Vals) >= 1
  BY <1>2, Facts
<1>. QED  BY <1>13, <1>14, <1>15 DEF Yields, C!Not, Vals

LEMMA CallStep ==
  ASSUME IInv, TypeInv', Careful, NEW type \in Types, NEW low \in BOOLEAN, Call(type, low)
  PROVE  IInv' /\ C!Call(type)
<1>. DEFINE v == Top.value
            register == Loaded(mem, Top.place, type)
            m == Temporary(mem, type, type, register)
<1>1. pend # <<>> /\ Top.type = type /\ ~(low /\ type = Char)
  BY DEF Call
<1>2. Compute(<<"call", type>>, m, 1, type)
  BY <1>1 DEF Call
<1>3. /\ Top.place \in Nat /\ v \in Int /\ Read(mem, Top.place, type) = v /\ Fits(v, type)
      /\ 1 \in 0..Len(pend) /\ C!FromEnd(0) = v
  BY <1>1, OperandValues
<1>4. type \in Nat \ {0} /\ type <= type
  BY WidthTypes
<1>5. register \in Int /\ Convert(register, type) = v
  BY <1>3, <1>4, Facts, LoadedType, LoadedValue
<1>. HIDE DEF register
<1>6. Untouched(mem, m, {}) /\ Len(mem) <= Len(m) - type /\ Read(m, Len(m), type) = v
  BY <1>4, <1>5, Facts, TemporaryValue
<1>. HIDE DEF m
<1>7. Avoids({}, 1) /\ Outside({})
  BY <1>3, Facts, AvoidsNothing DEF Outside
<1>8. IInv' /\ Yields(<<"call", type>>, 1, Read(m, Len(m), type))
  BY <1>2, <1>3, <1>6, <1>7, ComputeStep
<1>9. C!Convert(v, type) = v
  BY <1>3, SameNumbers DEF Fits
<1>10. Yields(<<"call", type>>, 1, C!Convert(C!FromEnd(0), type))
  BY <1>3, <1>6, <1>8, <1>9
<1>11. Len(Vals) >= 1
  BY <1>3, Facts
<1>. QED  BY <1>8, <1>10, <1>11 DEF Yields, C!Call, Vals

(* A write to the slot of a variable, or of an element, after what left m.    *)
LEMMA VariableWritten ==
  ASSUME IInv, NEW m, NEW R, Untouched(mem, m, R), NEW x \in Variables, NEW v \in Int,
         \A k \in 1..Len(mem) : k \in R => k \in Slot(x)
  PROVE  LET n == Write(m, Place[x], TypeOf(x), v)
         IN  /\ n \in Seq({0, 1}) /\ Len(n) = Len(m) /\ Untouched(mem, n, Slot(x))
             /\ Read(n, Place[x], TypeOf(x)) = Convert(v, TypeOf(x))
             /\ Untouched(m, n, Slot(x))
<1>. DEFINE t == TypeOf(x)
            n == Write(m, Place[x], t, v)
<1>1. m \in Seq({0, 1}) /\ Len(mem) <= Len(m) /\ Len(m) \in Nat
  BY DEF Untouched
<1>2. t \in Nat \ {0} /\ Place[x] \in Nat /\ SlotAt(Place[x], t) = Slot(x) /\ Slot(x) \subseteq 1..Len(m)
  <2>1. Slot(x) \subseteq (Int64 + 1)..Locals
    BY VariablePlaces
  <2>2. (Int64 + 1)..Locals \subseteq 1..Len(m)
    BY <1>1, Facts
  <2>. QED  BY <2>1, <2>2, VariablePlaces, WidthTypes
<1>3. n \in Seq({0, 1}) /\ Len(n) = Len(m) /\ Untouched(m, n, Slot(x))
  BY <1>1, <1>2, WriteFacts
<1>4. Read(n, Place[x], t) = Convert(v, t)
  BY <1>1, <1>2, Facts, ReadWritten
<1>. HIDE DEF n
<1>5. Untouched(mem, n, R \union Slot(x))
  BY <1>3, Facts, UntouchedTwice
<1>6. Untouched(mem, n, Slot(x))
  BY <1>5, Facts, UntouchedWithin
<1>. QED  BY <1>3, <1>4, <1>6 DEF n

LEMMA ElementWritten ==
  ASSUME IInv, NEW m, NEW R, Untouched(mem, m, R), NEW i \in Indices, NEW v \in Int,
         \A k \in 1..Len(mem) : k \in R => k \in SlotAt(ElementPlace(i, ElementType), ElementType)
  PROVE  LET n == Write(m, ElementPlace(i, ElementType), ElementType, v)
             S == SlotAt(ElementPlace(i, ElementType), ElementType)
         IN  /\ n \in Seq({0, 1}) /\ Len(n) = Len(m) /\ Untouched(mem, n, S)
             /\ Read(n, ElementPlace(i, ElementType), ElementType) = Convert(v, ElementType)
             /\ Untouched(m, n, S)
<1>. DEFINE t == ElementType
            d == ElementPlace(i, t)
            n == Write(m, d, t, v)
            S == SlotAt(d, t)
<1>1. m \in Seq({0, 1}) /\ Len(mem) <= Len(m) /\ Len(m) \in Nat
  BY DEF Untouched
<1>2. t \in Nat \ {0} /\ d \in Nat /\ S \subseteq 1..Len(m)
  <2>1. S \subseteq ArraySlot /\ ArraySlot \subseteq (Int64 + 1)..Locals
    BY ElementPlaces
  <2>2. (Int64 + 1)..Locals \subseteq 1..Len(m)
    BY <1>1, Facts
  <2>. QED  BY <2>1, <2>2, ElementPlaces, WidthTypes
<1>. HIDE DEF d, t
<1>3. n \in Seq({0, 1}) /\ Len(n) = Len(m) /\ Untouched(m, n, S)
  BY <1>1, <1>2, WriteFacts
<1>4. Read(n, d, t) = Convert(v, t)
  BY <1>1, <1>2, Facts, ReadWritten
<1>5. \A k \in 1..Len(mem) : k \in R => k \in S
  BY DEF d, t
<1>. HIDE DEF n, S
<1>6. Untouched(mem, n, R \union S)
  BY <1>3, Facts, UntouchedTwice
<1>7. Untouched(mem, n, S)
  BY <1>5, <1>6, Facts, UntouchedWithin
<1>. QED  BY <1>3, <1>4, <1>7 DEF n, S, d, t

LEMMA AssignStep ==
  ASSUME IInv, TypeInv', Careful, NEW x \in Variables, Assign(x)
  PROVE  IInv' /\ C!Assign(x)
<1>. DEFINE t == TypeOf(x)
            v == Top.value
            m == IF Top.isName THEN Temporary(mem, t, t, v) ELSE mem
            n == Write(m, Place[x], t, v)
            s == <<"assign", x>>
<1>1. pend # <<>> /\ Top.type = t
  BY DEF Assign
<1>2. /\ v \in Int /\ Read(mem, Top.place, t) = v /\ Fits(v, t)
      /\ 1 \in 0..Len(pend) /\ C!FromEnd(0) = v
  BY <1>1, OperandValues
<1>3. t \in Types /\ t \in Nat \ {0} /\ t <= t
  BY WidthTypes
<1>4. Store(s, n, 1, Place[x], t, x, {})
  <2>1. Wider(t, t) = t
    BY <1>3 DEF Wider
  <2>. QED  BY <1>1, <1>2, <2>1 DEF Assign
<1>5. Untouched(mem, m, {})
  BY <1>2, <1>3, Facts, TemporaryValue
<1>. HIDE DEF m, s, v
<1>6. Untouched(mem, n, Slot(x)) /\ Read(n, Place[x], t) = Convert(v, t)
  BY <1>2, <1>5, VariableWritten
<1>. HIDE DEF n
<1>7. IInv' /\ Stores(s, x, Read(n, Place[x], t), 1, Read(n, Place[x], t))
  BY <1>2, <1>4, <1>6, StoreStep
<1>8. Read(n, Place[x], t) = C!Convert(C!FromEnd(0), C!TypeOf(x))
  BY <1>2, <1>6, SameNumbers
<1>9. Stores(s, x, C!Convert(C!FromEnd(0), C!TypeOf(x)), 1, C!Convert(C!FromEnd(0), C!TypeOf(x)))
  BY <1>7, <1>8
<1>10. Len(Vals) >= 1
  BY <1>2, Facts
<1>. QED  BY <1>7, <1>9, <1>10 DEF Stores, C!Assign, Vals, s

LEMMA CopyElementStep ==
  ASSUME IInv, TypeInv', Careful, NEW x \in Variables, NEW i \in Indices, CopyElement(x, i)
  PROVE  IInv' /\ C!CopyElement(x, i)
<1>. DEFINE t == TypeOf(x)
            v == Read(mem, ElementPlace(i, t), t)
            m == Temporary(mem, t, t, v)
            n == Write(m, Place[x], t, v)
            s == <<"copy", x, i>>
<1>1. i = 0 /\ ElementType = t
  BY DEF CopyElement
<1>2. t \in Types /\ t \in Nat \ {0} /\ t <= t
  BY WidthTypes
<1>3. Store(s, n, 0, Place[x], t, x, {Array})
  <2>1. Wider(t, t) = t
    BY <1>2 DEF Wider
  <2>. QED  BY <1>1, <2>1 DEF CopyElement
<1>4. v \in Int /\ Elements(mem)[i] = v
  <2>1. ElementPlace(i, t) \in Int
    BY <1>1, ElementPlaces
  <2>. QED  BY <1>1, <1>2, <2>1, Facts, ReadType DEF Elements
<1>. HIDE DEF v
<1>5. Untouched(mem, m, {})
  BY <1>2, <1>4, Facts, TemporaryValue
<1>. HIDE DEF m, s
<1>6. Untouched(mem, n, Slot(x)) /\ Read(n, Place[x], t) = Convert(v, t)
  BY <1>4, <1>5, VariableWritten
<1>. HIDE DEF n
<1>7. IInv' /\ Stores(s, x, Read(n, Place[x], t), 0, Read(n, Place[x], t))
  BY <1>3, <1>6, Facts, StoreStep
<1>8. Read(n, Place[x], t) = C!Convert(Elements(mem)[i], C!TypeOf(x))
  BY <1>4, <1>6, SameNumbers
<1>9. Stores(s, x, C!Convert(Elements(mem)[i], C!TypeOf(x)), 0, C!Convert(Elements(mem)[i], C!TypeOf(x)))
  BY <1>7, <1>8
<1>. QED  BY <1>7, <1>9 DEF Stores, C!CopyElement, s

LEMMA UpdateStep ==
  ASSUME IInv, TypeInv', Careful, NEW x \in Variables, NEW op \in Arithmetic, Update(x, op)
  PROVE  IInv' /\ C!Update(x, op)
<1>. DEFINE t == TypeOf(x)
            a == Variable(mem)[x]
            b == Top.value
            m == Operation(mem, op, Place[x], Top.place, t)
            v == Read(m, Len(m), t)
            n == Write(m, Place[x], t, v)
            R == IF op \in Shifts THEN SlotAt(Place[x], t) ELSE {}
            s == <<"update", op, x>>
<1>1. pend # <<>> /\ Top.type = t /\ t >= Int32 /\ (op \in Divisions \union Tests => t = Int32)
  BY DEF Update, Suits
<1>2. /\ Top.place \in Nat /\ b \in Int /\ Read(mem, Top.place, t) = b
      /\ 1 \in 0..Len(pend) /\ C!FromEnd(0) = b
  BY <1>1, OperandValues
<1>3. t \in Types /\ t \in Nat \ {0} /\ Int32 \in Nat /\ Place[x] \in Nat
  BY WidthTypes, VariablePlaces
<1>4. a = Read(mem, Place[x], t) /\ a \in Int
  BY <1>3, Facts, ReadType DEF Variable
<1>5. /\ Defined(op, a, b, t) /\ Runs(mem, op, Place[x], Top.place, t)
      /\ Store(s, n, 1, Place[x], t, x, {x})
  <2>1. Wider(t, t) = t /\ Wider(Int32, t) = t
    BY <1>1, <1>3 DEF Wider
  <2>. QED  BY <1>1, <1>4, <2>1 DEF Update
<1>6. op \in Arithmetic \union Tests
  OBVIOUS
<1>. HIDE DEF a, b
<1>7. /\ m \in Seq({0, 1}) /\ Len(m) = Len(mem) + t /\ Untouched(mem, m, R)
      /\ v = Result(op, a, b)
  BY <1>1, <1>2, <1>3, <1>4, <1>5, <1>6, Facts, OperationValue
<1>8. v \in Int /\ \A k \in 1..Len(mem) : k \in R => k \in Slot(x)
  <2>1. Result(op, a, b) \in Int
    BY <1>2, <1>4, <1>5, <1>6, ResultType DEF Defined
  <2>. QED  BY <1>7, <2>1, VariablePlaces
<1>. HIDE DEF m, v, R, s
<1>9. Untouched(mem, n, Slot(x)) /\ Read(n, Place[x], t) = Convert(v, t)
  BY <1>7, <1>8, VariableWritten
<1>. HIDE DEF n
<1>10. IInv' /\ Stores(s, x, Read(n, Place[x], t), 1, Read(n, Place[x], t))
  BY <1>2, <1>5, <1>9, StoreStep
<1>. DEFINE r == C!Convert(C!Result(op, a, C!FromEnd(0)), C!TypeOf(x))
<1>11. Read(n, Place[x], t) = r
  BY <1>2, <1>7, <1>9, SameNumbers
<1>. HIDE DEF r
<1>12. Stores(s, x, r, 1, r)
  BY <1>10, <1>11
<1>13. step' = s /\ Stores(step', x, r, 1, r)
  BY <1>12 DEF Stores, C!Store
<1>14. C!Defined(op, a, C!FromEnd(0), Int64)
  <2>1. Defined(op, a, b, Int64)
    BY <1>2, <1>3, <1>4, <1>5, <1>6, DefinedWider
  <2>. QED  BY <1>2, <2>1, SameNumbers
<1>15. Len(Vals) >= 1
  BY <1>2, Facts
<1>. QED  BY <1>10, <1>13, <1>14, <1>15 DEF Stores, C!Update, Vals, s, r, a

LEMMA StepStep ==
  ASSUME IInv, TypeInv', NEW x \in Variables, NEW d \in {-1, 1}, NEW post \in BOOLEAN, Step(x, d, post)
  PROVE  IInv' /\ C!Step(x, d, post)
<1>. DEFINE t == TypeOf(x)
            v == Variable(mem)[x]
            e == v + d
            m == IF post THEN Temporary(mem, t, t, v) ELSE mem
            l == Temporary(m, t, t, e)
            n == Write(l, Place[x], t, e)
            place == IF post THEN Len(m) ELSE Place[x]
            s == <<"step", d, post, x>>
<1>1. t \in Types /\ t \in Nat \ {0} /\ t <= t /\ Place[x] \in Nat
  BY WidthTypes, VariablePlaces
<1>2. v = Read(mem, Place[x], t)
  BY DEF Variable
<1>3. Store(s, n, 0, place, t, x, {x})
  BY <1>2 DEF Step
<1>4. v \in Int /\ e \in Int /\ Fits(v, t)
  BY <1>1, <1>2, Facts, ReadType
<1>. HIDE DEF v, e
<1>5. /\ m \in Seq({0, 1}) /\ Untouched(mem, m, {}) /\ Len(mem) <= Len(m) /\ Len(m) \in Nat
      /\ post => Len(m) = Len(mem) + t /\ Len(mem) <= Len(m) - t /\ Read(m, Len(m), t) = v
  BY <1>1, <1>4, Facts, TemporaryValue DEF Fits
<1>. HIDE DEF m
<1>6. /\ l \in Seq({0, 1}) /\ Untouched(m, l, {}) /\ Len(m) <= Len(l) - t /\ Len(l) \in Nat
  BY <1>1, <1>4, <1>5, Facts, TemporaryValue
<1>7. Untouched(mem, l, {})
  <2>1. Untouched(mem, l, {} \union {})
    BY <1>5, <1>6, Facts, UntouchedTwice
  <2>. QED  BY <2>1, Facts, UntouchedWithin
<1>. HIDE DEF l
<1>8. /\ Untouched(mem, n, Slot(x)) /\ Read(n, Place[x], t) = Convert(e, t)
      /\ Untouched(l, n, Slot(x))
  <2>1. \A k \in 1..Len(mem) : k \in {} => k \in Slot(x)
    OBVIOUS
  <2>2. e \in Int /\ Untouched(mem, l, {})
    BY <1>4, <1>7
  <2>3. /\ Untouched(mem, Write(l, Place[x], TypeOf(x), e), Slot(x))
        /\ Read(Write(l, Place[x], TypeOf(x), e), Place[x], TypeOf(x)) = Convert(e, TypeOf(x))
        /\ Untouched(l, Write(l, Place[x], TypeOf(x), e), Slot(x))
    BY <2>1, <2>2, VariableWritten
  <2>. QED  BY <2>3
<1>. HIDE DEF n
<1>9. post => Read(n, Len(m), t) = v
  <2>. SUFFICES ASSUME post PROVE Read(n, Len(m), t) = v
    OBVIOUS
  <2>1. Untouched(m, n, {} \union Slot(x))
    BY <1>5, <1>6, <1>8, UntouchedTwice
  <2>2. Untouched(m, n, Slot(x))
    BY <1>5, <2>1, UntouchedWithin
  <2>3. Len(mem) + t <= Len(m)
    BY <1>1, <1>5, Facts
  <2>4. \A k \in SlotAt(Len(m), t) : k > Len(mem) /\ k \in 1..Len(m)
    BY <1>1, <1>5, <2>3, Facts, NewSlot
  <2>5. SlotAt(Len(m), t) \subseteq (1..Len(m)) \ Slot(x)
    <3>. SUFFICES ASSUME NEW k \in SlotAt(Len(m), t), k \in Slot(x) PROVE FALSE
      BY <2>4
    <3>. QED  BY <2>4, Facts, LocalBits
  <2>6. Len(m) \in Int
    BY <1>5
  <2>. QED  BY <1>1, <1>5, <2>2, <2>5, <2>6, Facts, UntouchedRead
<1>10. Len(mem) <= place - t \/ (place = Place[x] /\ t = TypeOf(x))
  BY <1>5
<1>11. Read(n, place, t) = IF post THEN v ELSE Convert(e, t)
  BY <1>8, <1>9
<1>. HIDE DEF place, s
<1>12. IInv' /\ Stores(s, x, Read(n, Place[x], t), 0, Read(n, place, t))
  BY <1>3, <1>8, <1>10, Facts, StoreStep
<1>. DEFINE r == C!Convert(v + d, C!TypeOf(x))
<1>13. r = Convert(e, t)
  BY SameNumbers DEF e
<1>. HIDE DEF r
<1>14. Stores(s, x, r, 0, IF post THEN v ELSE r)
  BY <1>8, <1>11, <1>12, <1>13
<1>. QED  BY <1>12, <1>14 DEF Stores, C!Step, s, r, v

LEMMA AssignElementStep ==
  ASSUME IInv, TypeInv', Careful, AssignElement
  PROVE  IInv' /\ C!AssignElement
<1>. DEFINE t == ElementType
            i == Top.value
            v == Under.value
            d == ElementPlace(i, t)
            m == Write(mem, d, t, v)
            n == Temporary(m, t, t, Read(m, Under.place, t))
            s == <<"assignElement">>
<1>1. /\ Len(pend) > 1 /\ Top.type # Char /\ i \in Indices
      /\ Under.type = t /\ t >= Int32
  BY DEF AssignElement
<1>2. /\ Top \in Operand /\ Read(mem, Top.place, Top.type) = i /\ C!FromEnd(0) = i
      /\ Under \in Operand /\ Under.place \in Nat /\ v \in Int
      /\ Read(mem, Under.place, t) = v /\ Fits(v, t) /\ C!FromEnd(1) = v
      /\ SlotAt(Under.place, t) \subseteq 1..Len(mem) /\ 2 \in 0..Len(pend)
  <2>1. Fits(Under.value, Under.type)
    BY <1>1, Facts, OperandTypes
  <2>. QED  BY <1>1, <2>1, OperandValues
<1>3. t \in Types /\ t \in Nat \ {0} /\ t <= t /\ IndexOf(mem, Top, t) = i
  BY <1>1, <1>2, Facts, WidthTypes, IndexValue
<1>4. Store(s, n, 2, Len(n), t, Array, {})
  <2>1. Wider(t, t) = t
    BY <1>3 DEF Wider
  <2>. QED  BY <1>1, <1>2, <1>3, <2>1 DEF AssignElement
<1>. HIDE DEF i, v
<1>5. /\ m \in Seq({0, 1}) /\ Len(m) = Len(mem) /\ Untouched(mem, m, SlotAt(d, t))
      /\ Read(m, d, t) = Convert(v, t)
  <2>1. \A k \in 1..Len(mem) : k \in {} => k \in SlotAt(ElementPlace(i, ElementType), ElementType)
    OBVIOUS
  <2>. QED  BY <1>1, <1>2, <2>1, Facts, ElementWritten
<1>6. SlotAt(Under.place, t) \intersect ArraySlot = {}
  <2>1. Len(pend) - 1 \in 1..Len(pend) /\ Under = pend[Len(pend) - 1]
    BY <1>1, Facts DEF Under
  <2>2. Array \notin Under.writes
    <3>. DEFINE u == SubSeq(pend, Len(pend) - 2 + 1, Len(pend))
    <3>1. pend \in Seq(Operand) /\ Len(pend) \in Nat
      BY Facts DEF TypeInv
    <3>2. 1 \in 1..Len(u) /\ u[1] = Under
      BY <1>1, <2>1, <3>1
    <3>3. Under \in Range(u)
      <4>1. DOMAIN u = 1..Len(u)
        BY <1>1, <3>1
      <4>. HIDE DEF u
      <4>. QED  BY <3>2, <4>1 DEF Range
    <3>. QED  BY <1>4, <3>3 DEF Store
  <2>3. CASE InTemporary(Under)
    <3>1. \A k \in SlotAt(Under.place, t) : k > Locals
      BY <1>1, <2>1, <2>3, Facts, PlacedSlots DEF OperandSlot
    <3>2. \A k \in ArraySlot : k \in Int /\ ~(k > Locals)
      BY SlotsAssumption, WidthTypes
    <3>. QED  BY <3>1, <3>2
  <2>4. CASE InVariable(Under)
    <3>1. PICK x \in Variables : Under.place = Place[x] /\ t = TypeOf(x)
      BY <1>1, <2>4 DEF InVariable
    <3>. QED  BY <3>1, VariablePlaces
  <2>. QED  BY <2>1, <2>2, <2>3, <2>4, Facts DEF PlacesInv, InElement
<1>7. Read(m, Under.place, t) = v
  <2>1. SlotAt(d, t) \subseteq ArraySlot
    BY <1>1, ElementPlaces
  <2>2. SlotAt(Under.place, t) \subseteq (1..Len(mem)) \ SlotAt(d, t)
    BY <1>2, <1>6, <2>1
  <2>3. Read(m, Under.place, t) = Read(mem, Under.place, t)
    BY <1>2, <1>3, <1>5, <2>2, Facts, UntouchedRead
  <2>. QED  BY <1>2, <2>3
<1>8. SlotAt(d, t) \subseteq 1..Len(mem) /\ d \in Nat
  <2>1. SlotAt(d, t) \subseteq (Int64 + 1)..Locals /\ d \in Nat
    BY <1>1, ElementPlaces
  <2>2. (Int64 + 1)..Locals \subseteq 1..Len(mem)
    BY Facts
  <2>. QED  BY <2>1, <2>2
<1>. HIDE DEF m, d
<1>9. /\ n \in Seq({0, 1}) /\ Len(n) = Len(m) + t /\ Untouched(m, n, {}) /\ Len(m) <= Len(n) - t
      /\ Read(n, Len(n), t) = Convert(v, t) /\ Read(n, d, t) = Read(m, d, t)
  BY <1>2, <1>3, <1>5, <1>7, <1>8, Facts, TemporaryValue
<1>10. Untouched(mem, n, SlotAt(d, t)) /\ Len(mem) <= Len(n) - t
  <2>1. Untouched(mem, n, SlotAt(d, t) \union {})
    BY <1>5, <1>9, Facts, UntouchedTwice
  <2>. QED  BY <1>5, <1>9, <2>1
<1>. HIDE DEF n, s
<1>11. IInv' /\ StoresAt(s, i, Read(n, d, t), 2, Read(n, Len(n), t))
  <2>. DEFINE place == Len(n)
  <2>1. Store(s, n, 2, place, t, Array, {}) /\ Len(mem) <= place - t
    BY <1>4, <1>10
  <2>2. Untouched(mem, n, SlotAt(ElementPlace(i, ElementType), ElementType))
    BY <1>10 DEF d
  <2>. HIDE DEF place
  <2>3. IInv' /\ StoresAt(s, i, Read(n, ElementPlace(i, ElementType), ElementType), 2, Read(n, place, t))
    BY <1>1, <1>2, <2>1, <2>2, StoreElementStep
  <2>. QED  BY <2>3 DEF place, d
<1>. DEFINE r == C!Convert(C!FromEnd(1), ElementType)
<1>12. Read(n, d, t) = r /\ Read(n, Len(n), t) = r
  BY <1>2, <1>5, <1>9, SameNumbers
<1>. HIDE DEF r
<1>13. StoresAt(s, C!FromEnd(0), r, 2, r)
  BY <1>2, <1>11, <1>12
<1>14. Len(Vals) >= 2 /\ C!FromEnd(0) \in C!Indices
  BY <1>1, <1>2, Facts, SameNumbers
<1>. QED  BY <1>11, <1>13, <1>14 DEF StoresAt, C!AssignElement, Vals, s, r

LEMMA UpdateElementStep ==
  ASSUME IInv, TypeInv', Careful, NEW op \in Arithmetic, UpdateElement(op)
  PROVE  IInv' /\ C!UpdateElement(op)
<1>. DEFINE t == ElementType
            d == ElementPlace(0, t)
            a == Elements(mem)[0]
            b == Under.value
            l == Temporary(mem, t, t, a)
            m == Operation(l, op, Len(l), Under.place, t)
            v == Read(m, Len(m), t)
            n == Write(m, d, t, v)
            R == IF op \in Shifts THEN SlotAt(Len(l), t) ELSE {}
            s == <<"updateElement", op>>
<1>1. /\ Len(pend) > 1 /\ Top.type # Char /\ Top.value = 0 /\ 0 \in Indices
      /\ Under.type = t /\ t >= Int32 /\ (op \in Divisions \union Tests => t = Int32)
  BY DEF UpdateElement, Suits
<1>2. /\ Top \in Operand /\ Read(mem, Top.place, Top.type) = 0 /\ C!FromEnd(0) = 0
      /\ Under.place \in Nat /\ b \in Int /\ Read(mem, Under.place, t) = b /\ C!FromEnd(1) = b
      /\ SlotAt(Under.place, t) \subseteq 1..Len(mem) /\ 2 \in 0..Len(pend)
  BY <1>1, OperandValues
<1>3. t \in Types /\ t \in Nat \ {0} /\ t <= t /\ Int32 \in Nat /\ IndexOf(mem, Top, t) = 0
  BY <1>1, <1>2, Facts, WidthTypes, IndexValue
<1>4. d \in Nat /\ a = Read(mem, d, t) /\ a \in Int /\ Fits(a, t)
  <2>1. d \in Nat
    BY <1>1, ElementPlaces
  <2>2. a = Read(mem, d, t)
    BY <1>1 DEF Elements
  <2>. QED  BY <1>3, <2>1, <2>2, Facts, ReadType
<1>5. /\ Defined(op, a, b, t) /\ Runs(l, op, Len(l), Under.place, t)
      /\ Store(s, n, 2, d, t, Array, {Array})
  <2>1. Wider(t, t) = t /\ Wider(Int32, t) = t
    BY <1>1, <1>3 DEF Wider
  <2>. QED  BY <1>1, <1>3, <1>4, <2>1 DEF UpdateElement
<1>6. op \in Arithmetic \union Tests
  OBVIOUS
<1>. HIDE DEF a, b
<1>7. /\ l \in Seq({0, 1}) /\ Len(l) = Len(mem) + t /\ Untouched(mem, l, {}) /\ Len(l) \in Nat
      /\ Read(l, Len(l), t) = a /\ Read(l, Under.place, t) = b
  BY <1>2, <1>3, <1>4, Facts, TemporaryValue DEF Fits
<1>. HIDE DEF l
<1>8. /\ m \in Seq({0, 1}) /\ Untouched(l, m, R) /\ v = Result(op, a, b)
  <2>. DEFINE place == Len(l)
  <2>1. place \in Nat /\ Read(l, place, t) = a /\ Runs(l, op, place, Under.place, t)
    BY <1>5, <1>7
  <2>. HIDE DEF place
  <2>2. LET o == Operation(l, op, place, Under.place, t)
        IN  /\ o \in Seq({0, 1}) /\ Untouched(l, o, IF op \in Shifts THEN SlotAt(place, t) ELSE {})
            /\ Read(o, Len(o), t) = Result(op, a, b)
    BY <1>1, <1>2, <1>3, <1>5, <1>6, <1>7, <2>1, Facts, OperationValue
  <2>. QED  BY <2>2 DEF place
<1>9. v \in Int /\ Untouched(mem, m, {} \union R)
  <2>1. Result(op, a, b) \in Int
    BY <1>2, <1>4, <1>5, <1>6, ResultType DEF Defined
  <2>2. Untouched(mem, m, {} \union R)
    BY <1>7, <1>8, Facts, UntouchedTwice
  <2>. QED  BY <1>8, <2>1, <2>2
<1>10. Untouched(mem, m, {})
  <2>1. \A k \in SlotAt(Len(l), t) : k > Len(mem)
    <3>1. Len(mem) + t <= Len(l) /\ t \in Nat
      BY <1>3, <1>7
    <3>. QED  BY <1>7, <3>1, Facts, NewSlot
  <2>2. \A k \in 1..Len(mem) : k \in {} \union R => k \in {}
    BY <2>1, Facts
  <2>. HIDE DEF m, R
  <2>. QED  BY <1>9, <2>2, Facts, UntouchedWithin
<1>. HIDE DEF m, v, R, s, d
<1>11. /\ Untouched(mem, n, SlotAt(ElementPlace(0, ElementType), ElementType))
       /\ Read(n, d, t) = Convert(v, t)
  <2>1. ASSUME NEW i \in Indices
        PROVE  LET o == Write(m, ElementPlace(i, ElementType), ElementType, v)
               IN  /\ Untouched(mem, o, SlotAt(ElementPlace(i, ElementType), ElementType))
                   /\ Read(o, ElementPlace(i, ElementType), ElementType) = Convert(v, ElementType)
    <3>1. \A k \in 1..Len(mem) : k \in {} => k \in SlotAt(ElementPlace(i, ElementType), ElementType)
      OBVIOUS
    <3>2. v \in Int /\ Untouched(mem, m, {})
      BY <1>9, <1>10
    <3>. QED  BY <3>1, <3>2, ElementWritten
  <2>. QED  BY <1>1, <2>1 DEF d
<1>. HIDE DEF n
<1>12. IInv' /\ StoresAt(s, 0, Read(n, d, t), 2, Read(n, d, t))
  <2>1. IInv' /\ StoresAt(s, 0, Read(n, ElementPlace(0, ElementType), ElementType), 2, Read(n, d, t))
    BY <1>1, <1>2, <1>5, <1>11, StoreElementStep DEF d
  <2>. QED  BY <2>1 DEF d
<1>. DEFINE r == C!Convert(C!Result(op, Elements(mem)[C!FromEnd(0)], C!FromEnd(1)), ElementType)
<1>13. Elements(mem)[C!FromEnd(0)] = a
  BY <1>2 DEF a
<1>14. Read(n, d, t) = r
  BY <1>2, <1>8, <1>11, <1>13, SameNumbers
<1>. HIDE DEF r
<1>15. StoresAt(s, C!FromEnd(0), r, 2, r)
  BY <1>2, <1>12, <1>14
<1>16. step' = s /\ StoresAt(step', C!FromEnd(0), r, 2, r)
  BY <1>15 DEF StoresAt, C!StoreAt
<1>17. C!Defined(op, Elements(mem)[C!FromEnd(0)], C!FromEnd(1), Int64)
  <2>1. Defined(op, a, b, Int64)
    BY <1>2, <1>3, <1>4, <1>5, <1>6, DefinedWider
  <2>. QED  BY <1>2, <1>13, <2>1, SameNumbers
<1>18. Len(Vals) >= 2 /\ C!FromEnd(0) \in C!Indices
  BY <1>1, <1>2, Facts, SameNumbers
<1>. QED  BY <1>12, <1>16, <1>17, <1>18 DEF StoresAt, C!UpdateElement, Vals, s, r

LEMMA StepElementStep ==
  ASSUME IInv, TypeInv', Careful, NEW d \in {-1, 1}, NEW post \in BOOLEAN, StepElement(d, post)
  PROVE  IInv' /\ C!StepElement(d, post)
<1>. DEFINE t == ElementType
            first == ElementPlace(0, t)
            a == Elements(mem)[0]
            e == a + d
            l == Temporary(mem, t, t, a)
            m == Temporary(l, t, t, e)
            n == Write(m, first, t, e)
            s == <<"stepElement", d, post>>
<1>1. /\ pend # <<>> /\ Top.type # Char /\ Top.value = 0 /\ 0 \in Indices /\ t >= Int32 /\ ~post
  BY DEF StepElement
<1>2. /\ Top \in Operand /\ Read(mem, Top.place, Top.type) = 0 /\ C!FromEnd(0) = 0
      /\ 1 \in 0..Len(pend)
  BY <1>1, OperandValues
<1>3. t \in Types /\ t \in Nat \ {0} /\ t <= t /\ IndexOf(mem, Top, t) = 0
  BY <1>1, <1>2, Facts, WidthTypes, IndexValue
<1>4. first \in Nat /\ a = Read(mem, first, t) /\ a \in Int /\ e \in Int
  <2>1. first \in Nat
    BY <1>1, ElementPlaces
  <2>2. a = Read(mem, first, t)
    BY <1>1 DEF Elements
  <2>. QED  BY <1>3, <2>1, <2>2, Facts, ReadType
<1>5. Store(s, n, 1, first, t, Array, {Array})
  BY <1>1, <1>3, <1>4 DEF StepElement
<1>. HIDE DEF a, e, first, s
<1>6. l \in Seq({0, 1}) /\ Untouched(mem, l, {})
  BY <1>3, <1>4, Facts, TemporaryValue
<1>. HIDE DEF l
<1>7. m \in Seq({0, 1}) /\ Untouched(l, m, {})
  BY <1>3, <1>4, <1>6, Facts, TemporaryValue
<1>. HIDE DEF m
<1>8. Untouched(mem, m, {})
  <2>1. Untouched(mem, m, {} \union {})
    BY <1>6, <1>7, Facts, UntouchedTwice
  <2>. QED  BY <2>1, Facts, UntouchedWithin
<1>9. /\ Untouched(mem, n, SlotAt(ElementPlace(0, ElementType), ElementType))
      /\ Read(n, first, t) = Convert(e, t)
  <2>1. ASSUME NEW i \in Indices
        PROVE  LET o == Write(m, ElementPlace(i, ElementType), ElementType, e)
               IN  /\ Untouched(mem, o, SlotAt(ElementPlace(i, ElementType), ElementType))
                   /\ Read(o, ElementPlace(i, ElementType), ElementType) = Convert(e, ElementType)
    <3>1. \A k \in 1..Len(mem) : k \in {} => k \in SlotAt(ElementPlace(i, ElementType), ElementType)
      OBVIOUS
    <3>2. e \in Int /\ Untouched(mem, m, {})
      BY <1>4, <1>8
    <3>. QED  BY <3>1, <3>2, ElementWritten
  <2>. QED  BY <1>1, <2>1 DEF first
<1>. HIDE DEF n
<1>10. IInv' /\ StoresAt(s, 0, Read(n, first, t), 1, Read(n, first, t))
  <2>1. IInv' /\ StoresAt(s, 0, Read(n, ElementPlace(0, ElementType), ElementType), 1, Read(n, first, t))
    BY <1>1, <1>2, <1>5, <1>9, StoreElementStep DEF first
  <2>. QED  BY <2>1 DEF first
<1>. DEFINE old == Elements(mem)[C!FromEnd(0)]
            r == C!Convert(old + d, ElementType)
<1>11. old + d = e
  BY <1>2 DEF a, e
<1>12. Read(n, first, t) = r
  BY <1>9, <1>11, SameNumbers
<1>. HIDE DEF r, old
<1>13. StoresAt(s, C!FromEnd(0), r, 1, IF post THEN old ELSE r)
  BY <1>1, <1>2, <1>10, <1>12
<1>14. step' = s /\ StoresAt(step', C!FromEnd(0), r, 1, IF post THEN old ELSE r)
  BY <1>13 DEF StoresAt, C!StoreAt
<1>15. Len(Vals) >= 1 /\ C!FromEnd(0) \in C!Indices
  BY <1>1, <1>2, Facts, SameNumbers
<1>. QED  BY <1>10, <1>14, <1>15 DEF StoresAt, C!StepElement, Vals, s, r, old

(* The end of a statement leaves no operands, and the saved %rbp.             *)
LEMMA NoneWaitsStep ==
  ASSUME IInv, TypeInv', NEW R, Untouched(mem, mem', R), \A k \in 1..Int64 : k \notin R,
         pend' = <<>>, junk' = junk
  PROVE  IInv' /\ Vals' = <<>>
<1>1. PlacesInv' /\ ApartInv' /\ ValuesInv' /\ Vals' = <<>>
  BY DEF PlacesInv, ApartInv, ValuesInv, Vals
<1>2. BaseInv'
  <2>1. ASSUME NEW k \in 1..Int64 PROVE mem'[k] = junk
    <3>1. k \in 1..Len(mem) /\ k \notin R
      BY Facts, SlotsAssumption
    <3>2. mem[k] = junk
      BY DEF IInv, BaseInv
    <3>. QED  BY <3>1, <3>2 DEF Untouched
  <2>. QED  BY <2>1 DEF BaseInv
<1>. QED  BY <1>1, <1>2 DEF IInv

LEMMA VariableDefinitionStep ==
  ASSUME IInv, TypeInv', Careful, NEW x \in Variables, VariableDefinition(x)
  PROVE  IInv' /\ C!Define(x)
<1>. DEFINE t == TypeOf(x)
            v == Read(mem, Top.place, t)
            n == Write(mem, Place[x], t, v)
<1>1. /\ Len(pend) = 1 /\ t <= Top.type /\ mem' = n /\ pend' = <<>> /\ junk' = junk
      /\ step' = <<"define", x>>
  BY DEF VariableDefinition
<1>2. /\ pend # <<>> /\ Top.place \in Nat /\ Top.type \in Types
      /\ Read(mem, Top.place, Top.type) = Top.value /\ C!FromEnd(0) = Top.value
  <2>1. pend # <<>>
    BY <1>1
  <2>. QED  BY <2>1, OperandValues
<1>3. t \in Nat \ {0} /\ Top.type \in Nat
  BY <1>2, WidthTypes
<1>4. v \in Int /\ Fits(v, t) /\ Convert(Top.value, t) = v
  BY <1>1, <1>2, <1>3, Facts, ReadType, NarrowRead
<1>. HIDE DEF v
<1>5. Untouched(mem, n, Slot(x)) /\ Read(n, Place[x], t) = v
  <2>1. \A k \in 1..Len(mem) : k \in {} => k \in Slot(x)
    OBVIOUS
  <2>2. v \in Int /\ Untouched(mem, mem, {})
    BY <1>4, Facts
  <2>3. LET o == Write(mem, Place[x], TypeOf(x), v)
        IN  Untouched(mem, o, Slot(x)) /\ Read(o, Place[x], TypeOf(x)) = Convert(v, TypeOf(x))
    BY <2>1, <2>2, VariableWritten
  <2>. QED  BY <1>4, <2>3 DEF Fits
<1>. HIDE DEF n
<1>6. IInv' /\ Vals' = <<>>
  <2>1. Slot(x) \subseteq (Int64 + 1)..Locals
    BY VariablePlaces
  <2>2. \A k \in 1..Int64 : k \notin Slot(x)
    BY <2>1, Facts
  <2>. QED  BY <1>1, <1>5, <2>2, NoneWaitsStep
<1>7. Variable(mem)' = [Variable(mem) EXCEPT ![x] = v]
  <2>1. ASSUME NEW y \in Variables
        PROVE  Read(n, Place[y], TypeOf(y)) = IF y = x THEN v ELSE Variable(mem)[y]
    <3>1. y # x => Slot(y) \intersect Slot(x) = {}
      BY VariablePlaces
    <3>. QED  BY <1>1, <1>5, <3>1, Facts, LocalsKept
  <2>2. Variable(mem)' = [y \in Variables |-> Read(n, Place[y], TypeOf(y))]
    BY <1>1, <1>5, Facts, LocalsKept
  <2>3. Variable(mem)' = [y \in Variables |-> IF y = x THEN v ELSE Variable(mem)[y]]
    BY <2>1, <2>2
  <2>. QED  BY <2>3 DEF Variable
<1>8. Elements(mem)' = Elements(mem)
  <2>1. ASSUME NEW i \in Indices
        PROVE  Read(n, ElementPlace(i, ElementType), ElementType) = Elements(mem)[i]
    <3>1. SlotAt(ElementPlace(i, ElementType), ElementType) \subseteq ArraySlot
      BY ElementPlaces
    <3>2. Slot(x) \intersect ArraySlot = {}
      BY VariablePlaces
    <3>3. SlotAt(ElementPlace(i, ElementType), ElementType) \intersect Slot(x) = {}
      BY <3>1, <3>2
    <3>. QED  BY <1>1, <1>5, <3>3, Facts, LocalsKept
  <2>2. Elements(mem)' = [i \in Indices |-> Read(n, ElementPlace(i, ElementType), ElementType)]
    BY <1>1, <1>5, Facts, LocalsKept
  <2>3. Elements(mem)' = [i \in Indices |-> Elements(mem)[i]]
    BY <2>1, <2>2
  <2>. QED  BY <2>3 DEF Elements
<1>9. C!Convert(C!FromEnd(0), C!TypeOf(x)) = v
  BY <1>2, <1>4, SameNumbers
<1>10. Variable(mem)' = [Variable(mem) EXCEPT ![x] = C!Convert(C!FromEnd(0), C!TypeOf(x))]
  BY <1>7, <1>9
<1>11. Len(Vals) = 1
  BY <1>1, Facts
<1>. QED  BY <1>1, <1>6, <1>8, <1>10, <1>11 DEF C!Define, Vals

LEMMA EndStatementStep ==
  ASSUME IInv, TypeInv', EndStatement
  PROVE  IInv' /\ C!Discard
<1>1. Len(pend) = 1 /\ pend' = <<>> /\ step' = <<>> /\ mem' = mem /\ junk' = junk
  BY DEF EndStatement
<1>2. Untouched(mem, mem', {}) /\ \A k \in 1..Int64 : k \notin {}
  BY <1>1, Facts
<1>3. IInv' /\ Vals' = <<>>
  BY <1>1, <1>2, NoneWaitsStep
<1>4. Variable(mem)' = Variable(mem) /\ Elements(mem)' = Elements(mem)
  BY <1>1 DEF Variable, Elements, Read, Unsigned, BitAt
<1>5. Len(Vals) = 1
  BY <1>1, Facts
<1>. QED  BY <1>1, <1>3, <1>4, <1>5 DEF C!Discard, Vals

LEMMA CarefulStep ==
  ASSUME IInv, Careful, Next
  PROVE  IInv' /\ C!Next
<1>1. TypeInv'
  BY TypeStep DEF IInv
<1>. DEFINE G == IInv' /\ C!Next
<1>2. ASSUME NEW c \in Literals, Constant(c) PROVE G
  BY <1>1, <1>2, ConstantStep DEF C!Next
<1>3. ASSUME NEW x \in Variables, Identifier(x) PROVE G
  BY <1>1, <1>3, IdentifierStep, SameNumbers DEF C!Next
<1>4. ASSUME NEW x \in Variables, VariableDefinition(x) PROVE G
  BY <1>1, <1>4, VariableDefinitionStep, SameNumbers DEF C!Next
<1>5. ASSUME NEW x \in Variables, Assign(x) PROVE G
  BY <1>1, <1>5, AssignStep, SameNumbers DEF C!Next
<1>6. ASSUME NEW x \in Variables, NEW i \in Indices, CopyElement(x, i) PROVE G
  BY <1>1, <1>6, CopyElementStep, SameNumbers DEF C!Next
<1>7. ASSUME ArrayAccess PROVE G
  BY <1>1, <1>7, ArrayAccessStep DEF C!Next
<1>8. ASSUME EndStatement PROVE G
  BY <1>1, <1>8, EndStatementStep DEF C!Next
<1>9. ASSUME PreNegOperator PROVE G
  BY <1>1, <1>9, PreNegStep DEF C!Next
<1>10. ASSUME LogicalNotOperator PROVE G
  BY <1>1, <1>10, LogicalNotStep DEF C!Next
<1>11. ASSUME AssignElement PROVE G
  BY <1>1, <1>11, AssignElementStep DEF C!Next
<1>12. ASSUME NEW type \in Types, NEW low \in BOOLEAN, Call(type, low) PROVE G
  BY <1>1, <1>12, CallStep, SameNumbers DEF C!Next
<1>13. ASSUME NEW op \in Arithmetic \union Tests, Binary(op) PROVE G
  BY <1>1, <1>13, BinaryStep, SameNumbers DEF C!Next
<1>14. ASSUME NEW x \in Variables, NEW op \in Arithmetic, Update(x, op) PROVE G
  BY <1>1, <1>14, UpdateStep, SameNumbers DEF C!Next
<1>15. ASSUME NEW op \in Arithmetic, UpdateElement(op) PROVE G
  BY <1>1, <1>15, UpdateElementStep, SameNumbers DEF C!Next
<1>16. ASSUME NEW x \in Variables, NEW d \in {-1, 1}, NEW post \in BOOLEAN, Step(x, d, post) PROVE G
  BY <1>1, <1>16, StepStep, SameNumbers DEF C!Next
<1>17. ASSUME NEW d \in {-1, 1}, NEW post \in BOOLEAN, StepElement(d, post) PROVE G
  BY <1>1, <1>17, StepElementStep DEF C!Next
<1>. HIDE DEF G
<1>18. G
  BY <1>2, <1>3, <1>4, <1>5, <1>6, <1>7, <1>8, <1>9, <1>10, <1>11, <1>12, <1>13, <1>14, <1>15,
     <1>16, <1>17, NextCases
<1>. QED  BY <1>18 DEF G

LEMMA CarefulInvariant ==
  ASSUME Careful
  PROVE  Spec => []IInv
<1>1. Init => IInv
  BY InitInv
<1>2. IInv /\ [Next]_vars => IInv'
  <2>1. IInv /\ UNCHANGED vars => IInv'
    BY DEF IInv, TypeInv, PlacesInv, ApartInv, ValuesInv, BaseInv, InTemporary, InVariable, InElement,
           OperandSlot, Read, Unsigned, BitAt, vars
  <2>. QED  BY <2>1, CarefulStep
<1>. QED  BY <1>1, <1>2, PTL DEF Spec

(* In a program that avoids what the code gets wrong, an operand keeps the    *)
(* value that its expression had until its operator takes it: no temporary is *)
(* shared, and no write, at whatever width, reaches a slot that is waited for. *)
THEOREM OperandsAlwaysKeepValues ==
  ASSUME Careful
  PROVE  Spec => []OperandsKeepValues
BY CarefulInvariant, InvImplies, PTL

(* Nor does one reach the %rbp that the prolog of the function pushed and     *)
(* that its epilog pops.                                                      *)
THEOREM SavedBaseAlwaysKept ==
  ASSUME Careful
  PROVE  Spec => []SavedBaseKept
BY CarefulInvariant, InvImplies, PTL

(* The instructions that the operators add do what C means: every one of them *)
(* leaves the value of its expression, assigns to the one variable or element *)
(* that it names, and changes no other.                                       *)
THEOREM Implementation ==
  ASSUME Careful
  PROVE  Spec => ImplementsEvaluation
<1>1. Init => C!Init
  <2>. SUFFICES ASSUME Init PROVE C!Init
    OBVIOUS
  <2>1. IInv /\ pend = <<>> /\ step = <<>>
    BY InitInv DEF Init
  <2>2. Vals = <<>>
    BY <2>1 DEF Vals
  <2>3. Variable(mem) \in [Variables -> Int]
    BY <2>1, Facts, VariablePlaces, WidthTypes, ReadType DEF Variable
  <2>4. Elements(mem) \in [Indices -> Int]
    BY <2>1, Facts, ElementPlaces, WidthTypes, ReadType DEF Elements
  <2>. QED  BY <2>1, <2>2, <2>3, <2>4, SameNumbers DEF C!Init, Vals
<1>2. IInv /\ [Next]_vars => [C!Next]_<<Vals, Variable(mem), Elements(mem), step>>
  <2>1. UNCHANGED vars => UNCHANGED <<Vals, Variable(mem), Elements(mem), step>>
    BY DEF vars, Vals, Variable, Elements, Read, Unsigned, BitAt
  <2>. QED  BY <2>1, CarefulStep
<1>3. Spec => []IInv
  BY CarefulInvariant
<1>. QED  BY <1>1, <1>2, <1>3, PTL DEF Spec, ImplementsEvaluation, C!Spec, Vals
=============================================================================

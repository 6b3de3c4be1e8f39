------------------------- MODULE FrameLayoutProofs -------------------------
(***************************************************************************)
(* Proofs about FrameLayout, for any names, types, numbers of parameters   *)
(* and blocks.  The safety of the frames needs two things of the program   *)
(* being compiled: that the parameters of a function have different names, *)
(* and that array parameters have elements of at least four bytes.         *)
(***************************************************************************)
EXTENDS FrameLayout, TLAPS

(* Array parameters are wide enough for the w + 4 bytes that                 *)
(* addParamArraySymbol sets aside to hold a pointer.                         *)
WideArrayParams == \A w \in ArrayParamWidths : w >= 4

(* Scaling: consecutive multiples of a width are at least that width apart.  *)
LEMMA Multiples ==
  ASSUME NEW w \in Nat, NEW a \in Int, NEW b \in Int, a < b
  PROVE  w * a + w <= w * b
<1>1. PICK d \in Nat : b = a + 1 + d
  <2>1. b - a - 1 \in Nat /\ b = a + 1 + (b - a - 1)
    OBVIOUS
  <2>. QED  BY <2>1
<1>2. w * b = w * a + w + w * d
  BY <1>1
<1>3. w * d >= 0
  OBVIOUS
<1>4. w * a \in Int /\ w * b \in Int /\ w * d \in Int
  OBVIOUS
<1>. QED  BY <1>2, <1>3, <1>4

(* The elements of a local array have slots of the right type.               *)
LEMMA ArraySlotsType ==
  ASSUME TypeOK, NEW c \in Ids, NEW n \in Names, NEW w \in Nat, NEW len \in Nat
  PROVE  ArraySlots(c, n, w, len) \subseteq
           [ctx : Ids, name : SlotNames, index : Int, width : Nat]
<1>. SUFFICES ASSUME NEW i \in 0..(len - 1)
              PROVE  Slot(c, <<n, i>>, stackSize[c] - w * (len - i), w)
                       \in [ctx : Ids, name : SlotNames, index : Int, width : Nat]
  BY DEF ArraySlots
<1>1. len - i \in Int /\ stackSize[c] \in Int /\ i \in Nat
  BY DEF TypeOK
<1>2. w * (len - i) \in Int
  BY <1>1
<1>3. stackSize[c] - w * (len - i) \in Int
  BY <1>1, <1>2
<1>4. <<n, i>> \in SlotNames
  BY <1>1 DEF SlotNames
<1>. QED  BY <1>3, <1>4 DEF Slot

-----------------------------------------------------------------------------
(* Types *)

(* Adding a symbol keeps the layout well typed, whichever way it is added.   *)
LEMMA AddSymbolType ==
  ASSUME TypeOK, NEW c \in Ids, NEW name \in SlotNames, NEW w \in Nat,
         AddSymbol(c, name, w)
  PROVE  /\ slots' \subseteq [ctx : Ids, name : SlotNames, index : Int, width : Nat]
         /\ stackSize' \in [Ids -> Int]
         /\ sized' \subseteq Ids
         /\ topMember' \in [Ids -> Nat]
         /\ paramArrays' = paramArrays
<1>1. stackSize[c] - w \in Int
  BY DEF TypeOK
<1>. QED  BY <1>1 DEF AddSymbol, TypeOK, Slot, layout

LEMMA AddSymbolAtType ==
  ASSUME TypeOK, NEW c \in Ids, NEW name \in SlotNames, NEW w \in Nat, NEW index \in Int,
         AddSymbolAt(c, name, w, index)
  PROVE  /\ slots' \subseteq [ctx : Ids, name : SlotNames, index : Int, width : Nat]
         /\ stackSize' \in [Ids -> Int]
         /\ sized' \subseteq Ids
         /\ topMember' \in [Ids -> Nat]
  BY DEF AddSymbolAt, TypeOK, Slot

(* The numbering of blocks and contexts stays in bounds, and types hold.     *)
LEMMA TypeStep ==
  ASSUME TypeOK, Numbering, [Next]_vars
  PROVE  TypeOK' /\ Numbering'
<1>. USE BoundsAssumption, WidthsAssumption, NamesAssumption
<1>0. nextContext \in Ids /\ nextContext \in Nat /\ nextBlock \in Nat /\ nextBlock <= MaxBlock
  BY DEF TypeOK, Ids
<1>1. CASE EnterFunction
  <2>1. nextBlock + 1 \in Ids /\ nextContext + 1 \in Ids
    BY <1>0, <1>1 DEF EnterFunction, Numbering, Ids
  <2>. QED  BY <1>0, <1>1, <2>1 DEF EnterFunction, TypeOK, Numbering, Phases, InFunction
<1>2. ASSUME NEW n \in Names, NEW w \in ArrayParamWidths, AddArrayParameter(n, w)
      PROVE  TypeOK' /\ Numbering'
  <2>1. stackSize[nextContext] - w - 4 \in Int
    BY <1>0 DEF TypeOK
  <2>2. Symbol(n) \in SlotNames
    BY DEF Symbol, SlotNames
  <2>3. AddSymbolAt(nextContext, Symbol(n), w, stackSize[nextContext] - w - 4)
    BY <1>2 DEF AddArrayParameter, AddParamArraySymbol
  <2>4. /\ slots' \subseteq [ctx : Ids, name : SlotNames, index : Int, width : Nat]
        /\ stackSize' \in [Ids -> Int] /\ sized' \subseteq Ids /\ topMember' \in [Ids -> Nat]
    BY <1>0, <2>1, <2>2, <2>3, AddSymbolAtType
  <2>5. paramArrays' \subseteq Ids \X SlotNames
    BY <1>0, <1>2, <2>2 DEF AddArrayParameter, AddParamArraySymbol, TypeOK
  <2>6. phase' \in Phases /\ phase' \in {"parameters", "break"} /\ phase = "parameters"
    BY <1>2 DEF AddArrayParameter, ParameterName, TypeOK, Phases
  <2>. QED  BY <1>0, <1>2, <2>4, <2>5, <2>6
            DEF AddArrayParameter, CountParameter, ParameterName, TypeOK, Numbering, InFunction
<1>3. ASSUME NEW n \in Names, NEW w \in Widths, AddScalarParameter(n, w)
      PROVE  TypeOK' /\ Numbering'
  <2>1. Symbol(n) \in SlotNames
    BY DEF Symbol, SlotNames
  <2>2. 16 + arity * 8 \in Int
    BY DEF TypeOK
  <2>3. /\ slots' \subseteq [ctx : Ids, name : SlotNames, index : Int, width : Nat]
        /\ stackSize' \in [Ids -> Int] /\ sized' \subseteq Ids /\ topMember' \in [Ids -> Nat]
        /\ paramArrays' = paramArrays
    <3>1. CASE arity >= ArgRegisters
      BY <1>0, <1>3, <2>1, <2>2, <3>1, AddSymbolAtType DEF AddScalarParameter
    <3>2. CASE ~ (arity >= ArgRegisters) /\ w > 0
      BY <1>0, <1>3, <2>1, <3>2, AddSymbolType DEF AddScalarParameter
    <3>3. CASE ~ (arity >= ArgRegisters) /\ ~ (w > 0)
      BY <1>3, <3>3 DEF AddScalarParameter, layout, TypeOK
    <3>. QED  BY <3>1, <3>2, <3>3
  <2>. QED  BY <1>0, <1>3, <2>3
            DEF AddScalarParameter, CountParameter, ParameterName, TypeOK, Numbering, InFunction
<1>4. ASSUME NEW n \in Names, AddUnnamedParameter(n)
      PROVE  TypeOK' /\ Numbering'
  BY <1>0, <1>4 DEF AddUnnamedParameter, CountParameter, ParameterName, layout, TypeOK,
                   Numbering, Phases, InFunction
<1>5. CASE BeginBody
  BY <1>0, <1>5 DEF BeginBody, layout, TypeOK, Numbering, Ids, Phases, InFunction
<1>6. CASE GenerateBasicBlock
  BY <1>0, <1>6 DEF GenerateBasicBlock, layout, TypeOK, Numbering, Ids, InFunction
<1>7. ASSUME NEW n \in Names \ Unnamed, NEW w \in Widths, AddInstruction(n, w)
      PROVE  TypeOK' /\ Numbering'
  <2>1. Symbol(n) \in SlotNames
    BY DEF Symbol, SlotNames
  <2>2. CASE w > 0
    BY <1>0, <1>7, <2>1, <2>2, AddSymbolType DEF AddInstruction, TypeOK, Numbering, InFunction
  <2>3. CASE ~ (w > 0)
    BY <1>0, <1>7, <2>3 DEF AddInstruction, layout, TypeOK, Numbering, InFunction
  <2>. QED  BY <2>2, <2>3
<1>8. ASSUME NEW n \in Names \ Unnamed, NEW w \in Widths, NEW len \in 0..MaxLength,
             DefineArray(n, w, len)
      PROVE  TypeOK' /\ Numbering'
  <2>1. CASE len = 0 \/ w = 0
    BY <1>0, <1>8, <2>1 DEF DefineArray, layout, TypeOK, Numbering, Phases, InFunction
  <2>2. CASE ~ (len = 0 \/ w = 0)
    <3>1. ArraySlots(nextContext, n, w, len) \subseteq
            [ctx : Ids, name : SlotNames, index : Int, width : Nat]
      BY <1>0, ArraySlotsType
    <3>2. w * len \in Int /\ stackSize[nextContext] \in Int
      BY <1>0 DEF TypeOK
    <3>3. stackSize' \in [Ids -> Int]
      BY <1>0, <1>8, <2>2, <3>2 DEF DefineArray, AddArraySymbol, TypeOK
    <3>. QED  BY <1>0, <1>8, <2>2, <3>1, <3>3
              DEF DefineArray, AddArraySymbol, TypeOK, Numbering, InFunction
  <2>. QED  BY <2>1, <2>2
<1>9. CASE LeaveFunction
  BY <1>0, <1>9 DEF LeaveFunction, layout, TypeOK, Numbering, Phases, InFunction
<1>10. CASE EmitPrologs
  BY <1>0, <1>10 DEF EmitPrologs, layout, TypeOK, Numbering, Phases, InFunction
<1>11. CASE UNCHANGED vars
  BY <1>11 DEF vars, layout, TypeOK, Numbering, InFunction
<1>. QED  BY <1>1, <1>2, <1>3, <1>4, <1>5, <1>6, <1>7, <1>8, <1>9, <1>10, <1>11 DEF Next

LEMMA InitType == Init => TypeOK /\ Numbering
  BY BoundsAssumption DEF Init, TypeOK, Numbering, Ids, Phases, InFunction

(* Block numbers, contexts, offsets and sizes stay in the domains of the     *)
(* CFG's maps, for every program (CFG.cpp:93-192).                           *)
THEOREM TypeCorrect == Spec => []TypeOK
<1>1. TypeOK /\ Numbering /\ [Next]_vars => TypeOK' /\ Numbering'
  BY TypeStep
<1>. QED  BY <1>1, InitType, PTL DEF Spec

-----------------------------------------------------------------------------
(* Growth *)

(* One step never drops a symbol nor shrinks the frame of a function.        *)
LEMMA GrowthStep ==
  ASSUME TypeOK, Numbering, [Next]_vars
  PROVE  /\ slots \subseteq slots'
         /\ \A c \in 1..nextContext : stackSize'[c] <= stackSize[c]
<1>. DEFINE G == /\ slots \subseteq slots'
                 /\ \A c \in 1..nextContext : stackSize'[c] <= stackSize[c]
<1>. USE BoundsAssumption, WidthsAssumption
<1>0. /\ nextContext \in Ids /\ nextContext \in Nat /\ nextBlock \in Nat
      /\ \A c \in 1..nextContext : c \in Ids /\ stackSize[c] \in Int
      /\ stackSize \in [Ids -> Int] /\ arity \in Nat
  BY DEF TypeOK, Ids
<1>1. CASE EnterFunction
  BY <1>0, <1>1 DEF EnterFunction, Numbering
<1>2. ASSUME NEW n \in Names, NEW w \in ArrayParamWidths, AddArrayParameter(n, w)
      PROVE  G
  BY <1>0, <1>2 DEF AddArrayParameter, AddParamArraySymbol, AddSymbolAt
<1>3. ASSUME NEW n \in Names, NEW w \in Widths, AddScalarParameter(n, w)
      PROVE  G
  BY <1>0, <1>3 DEF AddScalarParameter, AddSymbolAt, AddSymbol, layout
<1>4. ASSUME NEW n \in Names, NEW w \in Widths, AddInstruction(n, w)
      PROVE  G
  BY <1>0, <1>4 DEF AddInstruction, AddSymbol, layout
<1>5. ASSUME NEW n \in Names, NEW w \in Widths, NEW len \in 0..MaxLength,
             DefineArray(n, w, len)
      PROVE  G
  <2>1. w * len \in Nat
    OBVIOUS
  <2>. QED  BY <1>0, <1>5, <2>1 DEF DefineArray, AddArraySymbol, layout
<1>6. ASSUME UNCHANGED layout
      PROVE  G
  BY <1>0, <1>6 DEF layout
<1>. QED  BY <1>1, <1>2, <1>3, <1>4, <1>5, <1>6
          DEF Next, AddUnnamedParameter, BeginBody, GenerateBasicBlock, LeaveFunction,
              EmitPrologs, vars

(* Whatever the program, lowering the rest of it never moves or drops a      *)
(* symbol of a function laid out before, nor gives back bytes of its frame,  *)
(* although enterFunction resets an entry keyed by a block number            *)
(* (CFG.cpp:177-192).                                                        *)
THEOREM LayoutOnlyGrows == Spec => LayoutGrows
<1>1. TypeOK /\ Numbering /\ [Next]_vars => TypeOK' /\ Numbering'
  BY TypeStep
<1>2. TypeOK /\ Numbering /\ [Next]_vars =>
        [ /\ slots \subseteq slots'
          /\ \A c \in 1..nextContext : stackSize'[c] <= stackSize[c] ]_vars
  BY GrowthStep
<1>. QED  BY <1>1, <1>2, InitType, PTL DEF Spec, LayoutGrows

-----------------------------------------------------------------------------
(* Arrays *)

(* An element of an array has a slot only together with element 0, the one   *)
(* the guards against registering a name twice look for.                     *)
FirstElements ==
  \A s \in slots : \E t \in slots : t.ctx = s.ctx /\ t.name = Symbol(s.name[1])

Arrays == FirstElements /\ ArraysContiguous

(* A single symbol of a new name makes an array of one element.              *)
LEMMA ArraysAfterSymbol ==
  ASSUME TypeOK, Arrays, NEW c \in Ids, NEW n \in Names, NEW w \in Nat, NEW index \in Int,
         ~ HasSymbol(c, Symbol(n)),
         slots' = slots \union {Slot(c, Symbol(n), index, w)}
  PROVE  Arrays'
<1>. DEFINE new == Slot(c, Symbol(n), index, w)
<1>1. new.ctx = c /\ new.name = Symbol(n) /\ new.name[1] = n /\ new.name[2] = 0
      /\ new.index = index /\ new.width = w
  BY DEF Slot, Symbol
<1>2. FirstElements'
  BY <1>1 DEF Arrays, FirstElements
<1>3. ASSUME NEW s \in slots, s.ctx = c PROVE s.name[1] # n
  BY <1>3 DEF Arrays, FirstElements, HasSymbol
<1>4. ASSUME NEW s \in slots', NEW t \in slots',
             s.ctx = t.ctx, s.name[1] = t.name[1], s.name[2] = 0
      PROVE  t.index = s.index + t.name[2] * s.width
  <2>1. CASE s \in slots /\ t \in slots
    BY <1>4, <2>1 DEF Arrays, ArraysContiguous
  <2>2. CASE s = new /\ t = new
    BY <1>1, <2>2
  <2>3. CASE (s = new /\ t \in slots) \/ (s \in slots /\ t = new)
    BY <1>1, <1>3, <1>4, <2>3
  <2>. HIDE DEF new
  <2>4. slots' = slots \union {new}
    BY DEF new
  <2>. QED  BY <2>1, <2>2, <2>3, <2>4
<1>. QED  BY <1>2, <1>4 DEF Arrays, ArraysContiguous

(* The elements of a local array of a new name follow each other.            *)
LEMMA ArraysAfterArray ==
  ASSUME TypeOK, Arrays, NEW c \in Ids, NEW n \in Names, NEW w \in Nat, NEW len \in Nat,
         len > 0,
         ~ HasSymbol(c, Symbol(n)),
         slots' = slots \union ArraySlots(c, n, w, len)
  PROVE  Arrays'
<1>. DEFINE New == ArraySlots(c, n, w, len)
            first == Slot(c, <<n, 0>>, stackSize[c] - w * (len - 0), w)
<1>0. stackSize[c] \in Int
  BY DEF TypeOK
<1>1. ASSUME NEW s \in New
      PROVE  /\ s.ctx = c /\ s.name[1] = n /\ s.width = w /\ s.name[2] \in 0..(len - 1)
             /\ s.index = stackSize[c] - w * (len - s.name[2])
  BY DEF ArraySlots, Slot
<1>2. first \in New /\ first.ctx = c /\ first.name = Symbol(n)
  BY DEF ArraySlots, Slot, Symbol
<1>3. ASSUME NEW s \in slots, s.ctx = c PROVE s.name[1] # n
  BY <1>3 DEF Arrays, FirstElements, HasSymbol
<1>4. FirstElements'
  BY <1>1, <1>2 DEF Arrays, FirstElements
<1>5. ASSUME NEW s \in slots', NEW t \in slots',
             s.ctx = t.ctx, s.name[1] = t.name[1], s.name[2] = 0
      PROVE  t.index = s.index + t.name[2] * s.width
  <2>1. CASE s \in slots /\ t \in slots
    BY <1>5, <2>1 DEF Arrays, ArraysContiguous
  <2>2. CASE s \in New /\ t \in New
    <3>1. PICK i \in 0..(len - 1) : i = t.name[2]
      BY <1>1, <2>2
    <3>2. s.index = stackSize[c] - w * len /\ t.index = stackSize[c] - w * (len - i)
      BY <1>1, <1>5, <2>2, <3>1
    <3>3. w * (len - i) = w * len - i * w /\ w * len \in Int /\ i * w \in Int
      OBVIOUS
    <3>4. s.width = w
      BY <1>1, <2>2
    <3>. QED  BY <1>0, <3>1, <3>2, <3>3, <3>4
  <2>3. CASE (s \in New /\ t \in slots) \/ (s \in slots /\ t \in New)
    BY <1>1, <1>3, <1>5, <2>3
  <2>. QED  BY <2>1, <2>2, <2>3
<1>. QED  BY <1>4, <1>5 DEF Arrays, ArraysContiguous

LEMMA ArraysStep ==
  ASSUME TypeOK, Arrays, [Next]_vars
  PROVE  Arrays'
<1>. USE BoundsAssumption, WidthsAssumption
<1>0. nextContext \in Ids /\ stackSize[nextContext] \in Int /\ arity \in Nat
  BY DEF TypeOK
<1>1. ASSUME NEW n \in Names, NEW w \in ArrayParamWidths, AddArrayParameter(n, w)
      PROVE  Arrays'
  <2>1. CASE HasSymbol(nextContext, Symbol(n))
    BY <1>1, <2>1 DEF AddArrayParameter, AddParamArraySymbol, AddSymbolAt, Arrays,
                      FirstElements, ArraysContiguous
  <2>2. CASE ~ HasSymbol(nextContext, Symbol(n))
    <3>1. stackSize[nextContext] - w - 4 \in Int
      BY <1>0
    <3>. QED  BY <1>0, <1>1, <2>2, <3>1, ArraysAfterSymbol
              DEF AddArrayParameter, AddParamArraySymbol, AddSymbolAt
  <2>. QED  BY <2>1, <2>2
<1>2. ASSUME NEW n \in Names, NEW w \in Widths, AddScalarParameter(n, w)
      PROVE  Arrays'
  <2>1. CASE slots' = slots
    BY <2>1 DEF Arrays, FirstElements, ArraysContiguous
  <2>2. CASE slots' # slots /\ arity >= ArgRegisters
    BY <1>0, <1>2, <2>2, ArraysAfterSymbol DEF AddScalarParameter, AddSymbolAt
  <2>3. CASE slots' # slots /\ ~ (arity >= ArgRegisters)
    <3>1. stackSize[nextContext] - w \in Int
      BY <1>0
    <3>. QED  BY <1>0, <1>2, <2>3, <3>1, ArraysAfterSymbol
              DEF AddScalarParameter, AddSymbol, layout
  <2>. QED  BY <2>1, <2>2, <2>3
<1>3. ASSUME NEW n \in Names, NEW w \in Widths, AddInstruction(n, w)
      PROVE  Arrays'
  <2>1. CASE slots' = slots
    BY <2>1 DEF Arrays, FirstElements, ArraysContiguous
  <2>2. CASE slots' # slots
    <3>1. stackSize[nextContext] - w \in Int
      BY <1>0
    <3>. QED  BY <1>0, <1>3, <2>2, <3>1, ArraysAfterSymbol
              DEF AddInstruction, AddSymbol, layout
  <2>. QED  BY <2>1, <2>2
<1>4. ASSUME NEW n \in Names, NEW w \in Widths, NEW len \in 0..MaxLength,
             DefineArray(n, w, len)
      PROVE  Arrays'
  <2>1. CASE slots' = slots
    BY <2>1 DEF Arrays, FirstElements, ArraysContiguous
  <2>2. CASE slots' # slots
    <3>1. ~ HasSymbol(nextContext, Symbol(n))
      BY <1>4 DEF DefineArray, Symbol
    <3>2. slots' = slots \union ArraySlots(nextContext, n, w, len) /\ len > 0
      BY <1>4, <2>2 DEF DefineArray, AddArraySymbol, layout
    <3>. QED  BY <1>0, <3>1, <3>2, ArraysAfterArray
  <2>. QED  BY <2>1, <2>2
<1>5. ASSUME slots' = slots
      PROVE  Arrays'
  BY <1>5 DEF Arrays, FirstElements, ArraysContiguous
<1>. QED  BY <1>1, <1>2, <1>3, <1>4, <1>5
          DEF Next, EnterFunction, AddUnnamedParameter, BeginBody, GenerateBasicBlock,
              LeaveFunction, EmitPrologs, vars, layout

(* In every frame of every program, the elements of a local array follow     *)
(* each other upwards from element 0, as the scaled address that             *)
(* visitArrayAccess computes needs (CFG.cpp:99-114).                         *)
THEOREM ArraysAreContiguous == Spec => []ArraysContiguous
<1>1. Init => Arrays
  BY DEF Init, Arrays, FirstElements, ArraysContiguous
<1>2. (TypeOK /\ Numbering) /\ Arrays /\ [Next]_vars => (TypeOK /\ Numbering)' /\ Arrays'
  BY TypeStep, ArraysStep
<1>3. Arrays => ArraysContiguous
  BY DEF Arrays
<1>. QED  BY <1>1, <1>2, <1>3, InitType, PTL DEF Spec

-----------------------------------------------------------------------------
(* Frames *)

(* What the program has to be for its frames to be safe.                     *)
Wellformed == WideArrayParams /\ ~ DuplicateParameters

Safe == FramesFromZero /\ SlotsInFrame /\ SlotsDisjoint

(* Slots put below all those of a function, without overlap among            *)
(* themselves, keep the frame safe when they end where the frame now ends.   *)
LEMMA PlaceBelow ==
  ASSUME TypeOK, TypeOK', Safe,
         NEW c \in 1..nextContext, nextContext' = nextContext,
         NEW New, slots' = slots \union New,
         \A s \in slots : AccessWidth(s)' = AccessWidth(s),
         stackSize'[c] <= stackSize[c],
         \A d \in Ids : d # c => stackSize'[d] = stackSize[d],
         \A s \in New : /\ s.ctx = c
                        /\ s.index >= stackSize'[c]
                        /\ s.index + AccessWidth(s)' <= stackSize[c],
         \A s, t \in New : s # t => Disjoint(s, t)'
  PROVE  Safe'
<1>0. /\ c \in Ids /\ stackSize[c] \in Int /\ stackSize'[c] \in Int /\ stackSize[c] <= 0
      /\ nextContext \in Nat
  <2>1. c \in Ids /\ nextContext \in Nat
    BY BoundsAssumption DEF TypeOK, Ids
  <2>. QED  BY <2>1 DEF TypeOK, Safe, FramesFromZero
<1>1. ASSUME NEW s \in slots' PROVE s.ctx \in Ids /\ s.index \in Int /\ s.width \in Nat
                                    /\ AccessWidth(s)' \in Nat
  BY <1>1 DEF TypeOK, AccessWidth, PointerWidth
<1>2. FramesFromZero'
  <2>. SUFFICES ASSUME NEW d \in Ids
                PROVE  stackSize'[d] <= 0 /\ (d > nextContext => stackSize'[d] = 0)
    BY DEF FramesFromZero
  <2>1. stackSize[d] <= 0 /\ (d > nextContext => stackSize[d] = 0)
    BY DEF Safe, FramesFromZero
  <2>2. CASE d = c
    BY <1>0, <2>2
  <2>3. CASE d # c
    BY <2>1, <2>3
  <2>. QED  BY <2>2, <2>3
<1>3. ASSUME NEW s \in slots'
      PROVE  /\ s.ctx \in 1..nextContext
             /\ s.index >= stackSize'[s.ctx]
             /\ s.index + AccessWidth(s)' <= 0 \/ s.index >= 16
  <2>1. CASE s \in New
    BY <1>0, <1>1, <2>1
  <2>2. CASE s \in slots
    <3>1. /\ s.ctx \in 1..nextContext
          /\ s.index >= stackSize[s.ctx]
          /\ s.index + AccessWidth(s) <= 0 \/ s.index >= 16
      BY <2>2 DEF Safe, SlotsInFrame
    <3>2. stackSize'[s.ctx] <= stackSize[s.ctx] /\ stackSize'[s.ctx] \in Int
          /\ stackSize[s.ctx] \in Int
      BY <1>1, <2>2 DEF TypeOK
    <3>. QED  BY <1>1, <2>2, <3>1, <3>2
  <2>. QED  BY <2>1, <2>2
<1>4. SlotsInFrame'
  BY <1>3 DEF SlotsInFrame
<1>5. ASSUME NEW s \in slots, NEW t \in New, s.ctx = t.ctx
      PROVE  t.index + AccessWidth(t)' <= s.index
  <2>1. s.index >= stackSize[c] /\ s.index \in Int
    BY <1>1, <1>5 DEF Safe, SlotsInFrame
  <2>2. t.index \in Int /\ AccessWidth(t)' \in Nat /\ t.index + AccessWidth(t)' <= stackSize[c]
    BY <1>1
  <2>. QED  BY <1>0, <2>1, <2>2
<1>6. SlotsDisjoint'
  <2>. SUFFICES ASSUME NEW s \in slots', NEW t \in slots', s.ctx = t.ctx, s # t
                PROVE  Disjoint(s, t)'
    BY DEF SlotsDisjoint
  <2>1. CASE s \in slots /\ t \in slots
    BY <2>1 DEF Safe, SlotsDisjoint, Disjoint
  <2>2. CASE s \in New /\ t \in New
    BY <2>2
  <2>3. CASE s \in slots /\ t \in New
    BY <1>5, <2>3 DEF Disjoint
  <2>4. CASE s \in New /\ t \in slots
    BY <1>5, <2>4 DEF Disjoint
  <2>. QED  BY <2>1, <2>2, <2>3, <2>4
<1>. QED  BY <1>2, <1>4, <1>6 DEF Safe

(* addSymbol of any name keeps a frame safe.                                 *)
LEMMA AddSymbolSafe ==
  ASSUME TypeOK, TypeOK', Safe, ParamArraysHaveSlots,
         NEW c \in 1..nextContext, nextContext' = nextContext,
         NEW name \in SlotNames, NEW w \in Nat,
         AddSymbol(c, name, w)
  PROVE  /\ Safe'
         /\ ParamArraysHaveSlots'
         /\ \A s \in slots' : /\ AccessWidth(s)' = AccessWidth(s)
                              /\ s \notin slots => /\ s.ctx = c /\ s.name = name
                                                   /\ s.index + AccessWidth(s)' <= 0
<1>1. CASE HasSymbol(c, name)
  BY <1>1 DEF AddSymbol, layout, Safe, FramesFromZero, SlotsInFrame, SlotsDisjoint, Disjoint,
              ParamArraysHaveSlots, AccessWidth, IsParamArray
<1>2. CASE ~ HasSymbol(c, name)
  <2>. PICK new : new = Slot(c, name, stackSize[c] - w, w)
    OBVIOUS
  <2>0. c \in Ids /\ stackSize[c] \in Int /\ stackSize[c] <= 0
    <3>1. c \in Ids
      BY BoundsAssumption DEF TypeOK, Ids
    <3>. QED  BY <3>1 DEF TypeOK, Safe, FramesFromZero
  <2>1. /\ slots' = slots \union {new}
        /\ stackSize' = [stackSize EXCEPT ![c] = @ - w]
        /\ paramArrays' = paramArrays
    BY <1>2 DEF AddSymbol
  <2>2. new.ctx = c /\ new.name = name /\ new.index = stackSize[c] - w /\ new.width = w
    BY DEF Slot
  <2>3. <<c, name>> \notin paramArrays
    BY <1>2 DEF ParamArraysHaveSlots, HasSymbol
  <2>4. AccessWidth(new)' = w
    BY <2>1, <2>2, <2>3 DEF AccessWidth, IsParamArray
  <2>5. \A s \in slots' : AccessWidth(s)' = AccessWidth(s)
    BY <2>1 DEF AccessWidth, IsParamArray
  <2>6. stackSize'[c] = stackSize[c] - w /\ \A d \in Ids : d # c => stackSize'[d] = stackSize[d]
    BY <2>0, <2>1 DEF TypeOK
  <2>7. Safe'
    <3>1. PICK New : New = {new}
      OBVIOUS
    <3>2. slots' = slots \union New /\ stackSize'[c] <= stackSize[c]
      BY <2>0, <2>1, <2>6, <3>1
    <3>3. \A s \in New : /\ s.ctx = c
                         /\ s.index >= stackSize'[c]
                         /\ s.index + AccessWidth(s)' <= stackSize[c]
      BY <2>0, <2>2, <2>4, <2>6, <3>1
    <3>4. \A s, t \in New : s # t => Disjoint(s, t)'
      BY <3>1
    <3>5. \A s \in slots : AccessWidth(s)' = AccessWidth(s)
      BY <2>1, <2>5
    <3>. QED  BY <2>6, <3>2, <3>3, <3>4, <3>5, PlaceBelow
  <2>8. ParamArraysHaveSlots'
    BY <2>1 DEF ParamArraysHaveSlots
  <2>. QED  BY <2>0, <2>1, <2>2, <2>4, <2>5, <2>7, <2>8
<1>. QED  BY <1>1, <1>2

(* The slot of an array parameter, w + 4 bytes down, holds a pointer.        *)
LEMMA AddParamArraySafe ==
  ASSUME TypeOK, TypeOK', Safe, ParamArraysHaveSlots,
         NEW c \in 1..nextContext, nextContext' = nextContext,
         NEW name \in SlotNames, NEW w \in Nat, w >= 4,
         ~ HasSymbol(c, name),
         AddParamArraySymbol(c, name, w)
  PROVE  /\ Safe'
         /\ ParamArraysHaveSlots'
         /\ \A s \in slots : AccessWidth(s)' = AccessWidth(s)
         /\ \A s \in slots' : s \notin slots => /\ s.ctx = c /\ s.name = name
                                                /\ s.index + AccessWidth(s)' <= 0
<1>0. c \in Ids /\ stackSize[c] \in Int /\ stackSize[c] <= 0
  <2>1. c \in Ids
    BY BoundsAssumption DEF TypeOK, Ids
  <2>. QED  BY <2>1 DEF TypeOK, Safe, FramesFromZero
<1>. PICK new : new = Slot(c, name, stackSize[c] - w - 4, w)
  OBVIOUS
<1>. PICK New : New = {new}
  OBVIOUS
<1>1. /\ slots' = slots \union New
      /\ stackSize' = [stackSize EXCEPT ![c] = stackSize[c] - w - 4]
      /\ paramArrays' = paramArrays \union {<<c, name>>}
  BY <1>0 DEF AddParamArraySymbol, AddSymbolAt
<1>2. new.ctx = c /\ new.name = name /\ new.index = stackSize[c] - w - 4
  BY DEF Slot
<1>3. AccessWidth(new)' = 8
  BY <1>1, <1>2 DEF AccessWidth, IsParamArray, PointerWidth
<1>4. \A s \in slots : AccessWidth(s)' = AccessWidth(s)
  <2>. SUFFICES ASSUME NEW s \in slots
                PROVE  IsParamArray(s)' <=> IsParamArray(s)
    BY DEF AccessWidth
  <2>1. <<s.ctx, s.name>> # <<c, name>>
    BY DEF HasSymbol
  <2>. QED  BY <1>1, <2>1 DEF IsParamArray
<1>5. /\ stackSize'[c] = stackSize[c] - w - 4
      /\ \A d \in Ids : d # c => stackSize'[d] = stackSize[d]
  BY <1>0, <1>1 DEF TypeOK
<1>6. \A s \in New : /\ s.ctx = c
                     /\ s.index >= stackSize'[c]
                     /\ s.index + AccessWidth(s)' <= stackSize[c]
  BY <1>0, <1>2, <1>3, <1>5
<1>7. \A s, t \in New : s # t => Disjoint(s, t)'
  OBVIOUS
<1>8. Safe'
  <2>1. stackSize'[c] <= stackSize[c]
    BY <1>0, <1>5
  <2>. QED  BY <1>1, <1>4, <1>5, <1>6, <1>7, <2>1, PlaceBelow
<1>9. ParamArraysHaveSlots'
  BY <1>1, <1>2 DEF ParamArraysHaveSlots
<1>10. \A s \in slots' : s \notin slots => s = new
  BY <1>1
<1>. QED  BY <1>0, <1>2, <1>3, <1>4, <1>8, <1>9, <1>10

(* A local array lies below everything else, its elements apart.             *)
LEMMA AddArraySafe ==
  ASSUME TypeOK, TypeOK', Safe, ParamArraysHaveSlots,
         NEW c \in 1..nextContext, nextContext' = nextContext,
         NEW n \in Names, NEW w \in Nat, NEW len \in Nat,
         \A i \in 0..(len - 1) : ~ HasSymbol(c, <<n, i>>),
         AddArraySymbol(c, n, w, len)
  PROVE  Safe' /\ ParamArraysHaveSlots'
<1>0. c \in Ids /\ stackSize[c] \in Int /\ stackSize[c] <= 0
  <2>1. c \in Ids
    BY BoundsAssumption DEF TypeOK, Ids
  <2>. QED  BY <2>1 DEF TypeOK, Safe, FramesFromZero
<1>. PICK New : New = ArraySlots(c, n, w, len)
  OBVIOUS
<1>1. /\ slots' = slots \union New
      /\ stackSize' = [stackSize EXCEPT ![c] = @ - w * len]
      /\ paramArrays' = paramArrays
  BY DEF AddArraySymbol
<1>2. \A s \in New :
        \E i \in 0..(len - 1) : /\ s.ctx = c /\ s.name = <<n, i>> /\ s.width = w
                                /\ s.index = stackSize[c] - w * (len - i)
  BY DEF ArraySlots, Slot
<1>3. \A s \in New : AccessWidth(s)' = w
  BY <1>1, <1>2 DEF AccessWidth, IsParamArray, ParamArraysHaveSlots, HasSymbol
<1>4. \A s \in slots : AccessWidth(s)' = AccessWidth(s)
  BY <1>1 DEF AccessWidth, IsParamArray
<1>5. /\ stackSize'[c] = stackSize[c] - w * len
      /\ \A d \in Ids : d # c => stackSize'[d] = stackSize[d]
  BY <1>0, <1>1 DEF TypeOK
<1>6. w * len \in Nat
  OBVIOUS
<1>7. ASSUME NEW s \in New
      PROVE  /\ s.ctx = c
             /\ s.index >= stackSize'[c]
             /\ s.index + AccessWidth(s)' <= stackSize[c]
  <2>1. PICK i \in 0..(len - 1) : s.ctx = c /\ s.index = stackSize[c] - w * (len - i)
    BY <1>2
  <2>2. w * (len - i) = w * len - w * i /\ w * i \in Nat /\ w * (len - i) \in Int
    OBVIOUS
  <2>3. w * 0 + w <= w * (len - i)
    BY Multiples
  <2>. QED  BY <1>0, <1>3, <1>5, <1>6, <2>1, <2>2, <2>3
<1>8. ASSUME NEW s \in New, NEW t \in New, s # t
      PROVE  Disjoint(s, t)'
  <2>1. PICK i \in 0..(len - 1) : s = Slot(c, <<n, i>>, stackSize[c] - w * (len - i), w)
    BY DEF ArraySlots
  <2>2. PICK j \in 0..(len - 1) : t = Slot(c, <<n, j>>, stackSize[c] - w * (len - j), w)
    BY DEF ArraySlots
  <2>3. i # j
    BY <1>8, <2>1, <2>2
  <2>4. /\ s.index = stackSize[c] - w * (len - i)
        /\ t.index = stackSize[c] - w * (len - j)
    BY <2>1, <2>2 DEF Slot
  <2>5. w * (len - i) \in Int /\ w * (len - j) \in Int
    OBVIOUS
  <2>6. CASE i < j
    <3>1. w * (len - j) + w <= w * (len - i)
      BY <2>6, Multiples
    <3>2. s.index + AccessWidth(s)' <= t.index
      BY <1>0, <1>3, <2>4, <2>5, <3>1
    <3>. QED  BY <3>2 DEF Disjoint
  <2>7. CASE j < i
    <3>1. w * (len - i) + w <= w * (len - j)
      BY <2>7, Multiples
    <3>2. t.index + AccessWidth(t)' <= s.index
      BY <1>0, <1>3, <2>4, <2>5, <3>1
    <3>. QED  BY <3>2 DEF Disjoint
  <2>. QED  BY <2>3, <2>6, <2>7
<1>9. Safe'
  <2>1. stackSize'[c] <= stackSize[c]
    BY <1>0, <1>5, <1>6
  <2>. QED  BY <1>1, <1>4, <1>5, <1>7, <1>8, <2>1, PlaceBelow
<1>10. ParamArraysHaveSlots'
  BY <1>1 DEF ParamArraysHaveSlots
<1>. QED  BY <1>9, <1>10

(* A parameter of the caller's area starts where the ones before it end.     *)
LEMMA AddStackParameterSafe ==
  ASSUME TypeOK, TypeOK', Safe, ParamArraysHaveSlots, ParameterSlots,
         phase = "parameters", nextContext \in 1..nextContext, nextContext' = nextContext,
         NEW name \in SlotNames,
         AddSymbolAt(nextContext, name, 8, 16 + arity * 8), UNCHANGED paramArrays
  PROVE  /\ Safe'
         /\ ParamArraysHaveSlots'
         /\ \A s \in slots' : /\ AccessWidth(s)' = AccessWidth(s)
                              /\ s \notin slots =>
                                   /\ s.ctx = nextContext /\ s.name = name
                                   /\ s.index + AccessWidth(s)' <= 16 + arity * 8 + 8
<1>. USE DEF PointerWidth
<1>1. CASE HasSymbol(nextContext, name)
  BY <1>1 DEF AddSymbolAt, Safe, FramesFromZero, SlotsInFrame, SlotsDisjoint, Disjoint,
              ParamArraysHaveSlots, AccessWidth, IsParamArray
<1>2. CASE ~ HasSymbol(nextContext, name)
  <2>. PICK new : new = Slot(nextContext, name, 16 + arity * 8, 8)
    OBVIOUS
  <2>0. arity \in Nat /\ nextContext \in Ids /\ nextContext \in Nat
        /\ stackSize[nextContext] \in Int /\ stackSize[nextContext] <= 0
    BY BoundsAssumption DEF TypeOK, Ids, Safe, FramesFromZero
  <2>1. slots' = slots \union {new} /\ paramArrays' = paramArrays /\ stackSize' = stackSize
    BY <1>2, <2>0 DEF AddSymbolAt
  <2>2. /\ new.ctx = nextContext /\ new.name = name
        /\ new.index = 16 + arity * 8 /\ new.width = 8
    BY DEF Slot
  <2>3. AccessWidth(new)' = 8
    BY <2>1, <2>2 DEF AccessWidth, IsParamArray
  <2>4. \A s \in slots' : AccessWidth(s)' = AccessWidth(s)
    BY <2>1 DEF AccessWidth, IsParamArray
  <2>5. ASSUME NEW s \in slots, s.ctx = nextContext
        PROVE  s.index + AccessWidth(s)' <= new.index
    BY <2>2, <2>4, <2>1, <2>5 DEF ParameterSlots
  <2>6. FramesFromZero'
    BY <2>1 DEF Safe, FramesFromZero
  <2>7. SlotsInFrame'
    <3>. SUFFICES ASSUME NEW s \in slots'
                  PROVE  /\ s.ctx \in 1..nextContext
                         /\ s.index >= stackSize[s.ctx]
                         /\ s.index + AccessWidth(s)' <= 0 \/ s.index >= 16
      BY <2>1 DEF SlotsInFrame
    <3>1. CASE s = new
      BY <2>0, <2>2, <3>1
    <3>2. CASE s \in slots
      BY <2>1, <2>4, <3>2 DEF Safe, SlotsInFrame
    <3>. QED  BY <2>1, <3>1, <3>2
  <2>8. SlotsDisjoint'
    <3>. SUFFICES ASSUME NEW s \in slots', NEW t \in slots', s.ctx = t.ctx, s # t
                  PROVE  Disjoint(s, t)'
      BY DEF SlotsDisjoint
    <3>1. CASE s \in slots /\ t \in slots
      BY <2>1, <2>4, <3>1 DEF Safe, SlotsDisjoint, Disjoint
    <3>2. CASE s \in slots /\ t = new
      BY <2>2, <2>5, <3>2 DEF Disjoint
    <3>3. CASE s = new /\ t \in slots
      BY <2>2, <2>5, <3>3 DEF Disjoint
    <3>. QED  BY <2>1, <3>1, <3>2, <3>3
  <2>9. ParamArraysHaveSlots'
    BY <2>1 DEF ParamArraysHaveSlots
  <2>10. new.index + AccessWidth(new)' <= 16 + arity * 8 + 8
    BY <2>0, <2>2, <2>3
  <2>11. \A s \in slots' : s \notin slots => s = new
    BY <2>1
  <2>. QED  BY <2>2, <2>4, <2>6, <2>7, <2>8, <2>9, <2>10, <2>11 DEF Safe
<1>. QED  BY <1>1, <1>2

(* What is known of the slots of the parameters lowered so far survives the  *)
(* lowering of one more.                                                     *)
LEMMA ParameterSlotsStep ==
  ASSUME TypeOK, TypeOK', ParameterSlots, NEW n \in Names, phase = "parameters",
         nextContext' = nextContext,
         parameters' = parameters \union {n}, arity' = arity + 1,
         slots \subseteq slots',
         \A s \in slots : AccessWidth(s)' = AccessWidth(s),
         \A s \in slots' : s \notin slots =>
           s.ctx = nextContext /\ s.name = Symbol(n)
             /\ s.index + AccessWidth(s)' <= 16 + arity * 8 + 8
  PROVE  ParameterSlots'
<1>. SUFFICES ASSUME NEW s \in slots', s.ctx = nextContext
              PROVE  /\ \E m \in parameters' : s.name = Symbol(m)
                     /\ s.index + AccessWidth(s)' <= 16 + (arity + 1) * 8
  BY DEF ParameterSlots, Symbol
<1>0. arity \in Nat /\ s.index \in Int /\ AccessWidth(s)' \in Nat
  BY DEF TypeOK, AccessWidth, PointerWidth
<1>1. CASE s \in slots
  BY <1>0, <1>1 DEF ParameterSlots
<1>2. CASE s \notin slots
  BY <1>0, <1>2
<1>. QED  BY <1>1, <1>2

FrameInv == Safe /\ ParameterSlots /\ ParamArraysHaveSlots

LEMMA FrameStep ==
  ASSUME Wellformed, TypeOK, TypeOK', Numbering, FrameInv, [Next]_vars
  PROVE  FrameInv'
<1>. USE BoundsAssumption, WidthsAssumption
<1>0. /\ nextContext \in Ids /\ nextContext \in Nat /\ nextBlock \in Nat /\ arity \in Nat
      /\ TypeOK /\ Safe /\ ParameterSlots /\ ParamArraysHaveSlots
  <2>1. nextContext \in Ids /\ nextContext \in Nat /\ nextBlock \in Nat /\ arity \in Nat
    BY DEF TypeOK, Ids
  <2>. QED  BY <2>1 DEF FrameInv
<1>1. CASE EnterFunction
  <2>1. FramesFromZero'
    BY <1>0, <1>1 DEF EnterFunction, Safe, FramesFromZero, TypeOK, Numbering
  <2>2. \A s \in slots : AccessWidth(s)' = AccessWidth(s)
    BY <1>1 DEF EnterFunction, AccessWidth, IsParamArray
  <2>3. ASSUME NEW s \in slots
        PROVE  /\ s.ctx \in 1..nextContext /\ s.ctx \in Ids
               /\ stackSize'[s.ctx] = stackSize[s.ctx]
    BY <1>0, <1>1 DEF EnterFunction, Safe, SlotsInFrame, TypeOK, Numbering
  <2>4. SlotsInFrame'
    BY <1>0, <1>1, <2>2, <2>3 DEF EnterFunction, Safe, SlotsInFrame
  <2>5. SlotsDisjoint'
    BY <1>0, <1>1, <2>2 DEF EnterFunction, Safe, SlotsDisjoint, Disjoint
  <2>6. ParameterSlots'
    BY <1>0, <1>1, <2>3 DEF EnterFunction, ParameterSlots
  <2>7. ParamArraysHaveSlots'
    BY <1>0, <1>1 DEF EnterFunction, ParamArraysHaveSlots
  <2>. QED  BY <2>1, <2>4, <2>5, <2>6, <2>7 DEF FrameInv, Safe
<1>2. ASSUME NEW n \in Names, NEW w \in ArrayParamWidths, AddArrayParameter(n, w)
      PROVE  FrameInv'
  <2>1. /\ phase = "parameters" /\ n \notin parameters /\ w \in Nat /\ w >= 4
        /\ nextContext' = nextContext /\ nextContext \in 1..nextContext
        /\ parameters' = parameters \union {n} /\ arity' = arity + 1
        /\ AddParamArraySymbol(nextContext, Symbol(n), w)
    BY <1>0, <1>2 DEF Wellformed, WideArrayParams, AddArrayParameter, ParameterName,
                      CountParameter, Numbering, InFunction
  <2>2. Symbol(n) \in SlotNames
    BY DEF Symbol, SlotNames
  <2>3. ~ HasSymbol(nextContext, Symbol(n))
    BY <1>0, <2>1 DEF HasSymbol, ParameterSlots, Symbol, Safe, SlotsInFrame
  <2>4. /\ Safe' /\ ParamArraysHaveSlots'
        /\ \A s \in slots : AccessWidth(s)' = AccessWidth(s)
        /\ \A s \in slots' : s \notin slots =>
             /\ s.ctx = nextContext /\ s.name = Symbol(n)
             /\ s.index + AccessWidth(s)' <= 0
    BY <1>0, <2>1, <2>2, <2>3, AddParamArraySafe
  <2>5. \A s \in slots' : s.index \in Int /\ AccessWidth(s)' \in Nat
    BY DEF TypeOK, AccessWidth, PointerWidth
  <2>6. slots \subseteq slots'
    BY <2>1 DEF AddParamArraySymbol, AddSymbolAt
  <2>7. ParameterSlots'
    BY <1>0, <2>1, <2>4, <2>5, <2>6, ParameterSlotsStep
  <2>. QED  BY <2>4, <2>7 DEF FrameInv
<1>3. ASSUME NEW n \in Names, NEW w \in Widths, AddScalarParameter(n, w)
      PROVE  FrameInv'
  <2>1. /\ phase = "parameters" /\ w \in Nat
        /\ nextContext' = nextContext /\ nextContext \in 1..nextContext
        /\ parameters' = parameters \union {n} /\ arity' = arity + 1
    BY <1>0, <1>3 DEF AddScalarParameter, ParameterName, CountParameter, Numbering, InFunction
  <2>2. Symbol(n) \in SlotNames
    BY DEF Symbol, SlotNames
  <2>3. \A s \in slots' : s.index \in Int /\ AccessWidth(s)' \in Nat
    BY DEF TypeOK, AccessWidth, PointerWidth
  <2>4. CASE arity >= ArgRegisters
    <3>1. AddSymbolAt(nextContext, Symbol(n), 8, 16 + arity * 8) /\ UNCHANGED paramArrays
      BY <1>3, <2>4 DEF AddScalarParameter
    <3>2. slots \subseteq slots'
      BY <3>1 DEF AddSymbolAt
    <3>3. /\ Safe' /\ ParamArraysHaveSlots'
          /\ \A s \in slots' : /\ AccessWidth(s)' = AccessWidth(s)
                               /\ s \notin slots =>
                                    /\ s.ctx = nextContext /\ s.name = Symbol(n)
                                    /\ s.index + AccessWidth(s)' <= 16 + arity * 8 + 8
      BY <1>0, <2>1, <2>2, <3>1, AddStackParameterSafe
    <3>4. ParameterSlots'
      BY <1>0, <2>1, <3>2, <3>3, ParameterSlotsStep
    <3>. QED  BY <3>3, <3>4 DEF FrameInv
  <2>5. CASE ~ (arity >= ArgRegisters) /\ w > 0
    <3>1. AddSymbol(nextContext, Symbol(n), w)
      BY <1>3, <2>5 DEF AddScalarParameter
    <3>2. slots \subseteq slots'
      BY <3>1 DEF AddSymbol, layout
    <3>3. /\ Safe' /\ ParamArraysHaveSlots'
          /\ \A s \in slots' : /\ AccessWidth(s)' = AccessWidth(s)
                               /\ s \notin slots =>
                                    /\ s.ctx = nextContext /\ s.name = Symbol(n)
                                    /\ s.index + AccessWidth(s)' <= 0
      BY <1>0, <2>1, <2>2, <3>1, AddSymbolSafe
    <3>4. \A s \in slots' : s \notin slots => s.index + AccessWidth(s)' <= 16 + arity * 8 + 8
      BY <1>0, <2>3, <3>3
    <3>5. ParameterSlots'
      BY <1>0, <2>1, <3>2, <3>3, <3>4, ParameterSlotsStep
    <3>. QED  BY <3>3, <3>5 DEF FrameInv
  <2>6. CASE ~ (arity >= ArgRegisters) /\ ~ (w > 0)
    <3>1. UNCHANGED layout
      BY <1>3, <2>6 DEF AddScalarParameter
    <3>2. Safe' /\ ParamArraysHaveSlots' /\ \A s \in slots : AccessWidth(s)' = AccessWidth(s)
      BY <1>0, <2>1, <3>1 DEF layout, Safe, FramesFromZero, SlotsInFrame, SlotsDisjoint,
                              Disjoint, ParamArraysHaveSlots, AccessWidth, IsParamArray
    <3>3. slots' = slots
      BY <3>1 DEF layout
    <3>4. ParameterSlots'
      BY <1>0, <2>1, <3>2, <3>3, ParameterSlotsStep
    <3>. QED  BY <3>2, <3>4 DEF FrameInv
  <2>. QED  BY <2>4, <2>5, <2>6
<1>4. ASSUME NEW n \in Names, AddUnnamedParameter(n)
      PROVE  FrameInv'
  BY <1>0, <1>4 DEF AddUnnamedParameter, CountParameter, layout, FrameInv, Safe, FramesFromZero,
                    SlotsInFrame, SlotsDisjoint, Disjoint, ParamArraysHaveSlots, ParameterSlots,
                    AccessWidth, IsParamArray
<1>5. ASSUME UNCHANGED layout, nextContext' = nextContext, phase' # "parameters"
      PROVE  FrameInv'
  BY <1>0, <1>5 DEF layout, FrameInv, Safe, FramesFromZero, SlotsInFrame, SlotsDisjoint,
                    Disjoint, ParamArraysHaveSlots, ParameterSlots, AccessWidth, IsParamArray
<1>6. ASSUME NEW n \in Names, NEW w \in Widths, AddInstruction(n, w)
      PROVE  FrameInv'
  <2>1. /\ nextContext' = nextContext /\ nextContext \in 1..nextContext /\ w \in Nat
        /\ phase' = "body"
    BY <1>0, <1>6 DEF AddInstruction, Numbering, InFunction
  <2>2. Symbol(n) \in SlotNames
    BY DEF Symbol, SlotNames
  <2>3. CASE w > 0
    <3>1. AddSymbol(nextContext, Symbol(n), w)
      BY <1>6, <2>3 DEF AddInstruction
    <3>2. Safe' /\ ParamArraysHaveSlots'
      BY <1>0, <2>1, <2>2, <3>1, AddSymbolSafe
    <3>. QED  BY <2>1, <3>2 DEF FrameInv, ParameterSlots
  <2>4. CASE ~ (w > 0)
    BY <1>5, <1>6, <2>1, <2>4 DEF AddInstruction
  <2>. QED  BY <2>3, <2>4
<1>7. ASSUME NEW n \in Names, NEW w \in Widths, NEW len \in 0..MaxLength,
             DefineArray(n, w, len)
      PROVE  FrameInv'
  <2>1. /\ nextContext' = nextContext /\ nextContext \in 1..nextContext /\ w \in Nat
        /\ phase' # "parameters" /\ len \in Nat
    BY <1>0, <1>7 DEF DefineArray, Numbering, InFunction
  <2>2. CASE len = 0 \/ w = 0
    BY <1>5, <1>7, <2>1, <2>2 DEF DefineArray
  <2>3. CASE ~ (len = 0 \/ w = 0)
    <3>1. AddArraySymbol(nextContext, n, w, len)
      BY <1>7, <2>3 DEF DefineArray
    <3>2. \A i \in 0..(len - 1) : ~ HasSymbol(nextContext, <<n, i>>)
      BY <1>7 DEF DefineArray
    <3>3. Safe' /\ ParamArraysHaveSlots'
      BY <1>0, <2>1, <3>1, <3>2, AddArraySafe
    <3>. QED  BY <2>1, <3>3 DEF FrameInv, ParameterSlots
  <2>. QED  BY <2>2, <2>3
<1>8. CASE UNCHANGED vars
  BY <1>0, <1>8 DEF vars, layout, FrameInv, Safe, FramesFromZero, SlotsInFrame, SlotsDisjoint,
                    Disjoint, ParamArraysHaveSlots, ParameterSlots, AccessWidth, IsParamArray
<1>. QED  BY <1>1, <1>2, <1>3, <1>4, <1>5, <1>6, <1>7, <1>8
          DEF Next, BeginBody, GenerateBasicBlock, LeaveFunction, EmitPrologs

-----------------------------------------------------------------------------
(* Theorems about the frames of well-formed programs *)

(* The inductive invariant of a well-formed program.                         *)
LEMMA Invariance ==
  ASSUME Wellformed
  PROVE  Spec => []IInv
<1>1. Init => TypeOK /\ Numbering /\ FrameInv
  <2>1. Init => FrameInv
    BY DEF Init, FrameInv, Safe, FramesFromZero, SlotsInFrame, SlotsDisjoint, ParameterSlots,
           ParamArraysHaveSlots
  <2>. QED  BY <2>1, InitType
<1>2. (TypeOK /\ Numbering /\ FrameInv) /\ [Next]_vars
        => (TypeOK /\ Numbering /\ FrameInv)'
  BY TypeStep, FrameStep
<1>3. TypeOK /\ Numbering /\ FrameInv => IInv
  BY DEF FrameInv, Safe, IInv
<1>. QED  BY <1>1, <1>2, <1>3, PTL DEF Spec

(* In a program whose parameters have different names and whose array        *)
(* parameters have elements of at least four bytes, no two symbols of a      *)
(* function share a byte (CFG.cpp:93-165).                                   *)
THEOREM SymbolsAreApart ==
  ASSUME Wellformed
  PROVE  Spec => []SlotsDisjoint
<1>1. IInv => SlotsDisjoint
  BY DEF IInv
<1>. QED  BY <1>1, Invariance, PTL

(* In such a program the prolog of a function reserves every byte its local  *)
(* symbols are read and written through (CFG.cpp:235-244).                   *)
THEOREM PrologsCoverFrames ==
  ASSUME Wellformed
  PROVE  Spec => []FrameCoversSlots
<1>1. IInv => FrameCoversSlots
  <2>. SUFFICES ASSUME IInv, NEW s \in slots
                PROVE  \/ s.index >= - FrameSize(s.ctx) /\ s.index + AccessWidth(s) <= 0
                       \/ s.index >= 16
    BY DEF FrameCoversSlots
  <2>1. s.ctx \in Ids /\ s.index \in Int
    BY DEF IInv, TypeOK
  <2>2. stackSize[s.ctx] \in Int /\ topMember[s.ctx] \in Nat
    BY <2>1 DEF IInv, TypeOK
  <2>3. /\ s.index >= stackSize[s.ctx]
        /\ s.index + AccessWidth(s) <= 0 \/ s.index >= 16
    BY DEF IInv, SlotsInFrame
  <2>. QED  BY <2>1, <2>2, <2>3 DEF FrameSize
<1>. QED  BY <1>1, Invariance, PTL
=============================================================================

---------------------------- MODULE FrameLayout ----------------------------
(***************************************************************************)
(* The stack frames that the control-flow graph (src/ir/CFG.cpp) lays out  *)
(* while the functions of a program are lowered.                           *)
(*                                                                         *)
(* A CFG numbers its basic blocks (mNextBasicBlockNumber) and, separately, *)
(* its functions (mNextFunctionContext), and keeps per function context a  *)
(* map from symbols to their types, their offsets from %rbp and whether    *)
(* they hold the address of an array parameter.  Slots are only ever       *)
(* added: by the parameters of the function being entered, by the first    *)
(* instruction that returns a name, and by local array definitions.        *)
(*                                                                         *)
(* A type is abstracted to its width in bytes (getMemoryLength() / 8), so  *)
(* void is 0 and int64_t is 8.                                             *)
(***************************************************************************)
EXTENDS Integers

CONSTANTS
  Names,               \* identifiers of the source and temporaries
  Unnamed,             \* the names generated for parameters that have none
  Widths,              \* widths in bytes of the types the program uses
  ArrayParamWidths,    \* element widths of its array parameters
  ArgRegisters,        \* parameters passed in registers
  MaxParameters,       \* bound: parameters of a function
  MaxLength,           \* bound: elements of a local array
  MaxBlock,            \* bound: basic blocks of the CFG
  DuplicateParameters  \* whether two parameters may have one name

PointerWidth == 8

ASSUME WidthsAssumption == Widths \subseteq Nat /\ ArrayParamWidths \subseteq Nat
ASSUME BoundsAssumption ==
  ArgRegisters \in Nat /\ MaxParameters \in Nat /\ MaxLength \in Nat /\ MaxBlock \in Nat
ASSUME NamesAssumption == Unnamed \subseteq Names
ASSUME DuplicatesAssumption == DuplicateParameters \in BOOLEAN

VARIABLES
  nextBlock,    \* mNextBasicBlockNumber
  nextContext,  \* mNextFunctionContext
  slots,        \* mSymbols and mSymbolIndex: a record per registered symbol
  paramArrays,  \* the true entries of mSymbolIsParamArray
  stackSize,    \* mStackSize, as operator[] reads it (0 where there is no entry)
  sized,        \* the keys mStackSize has an entry for
  topMember,    \* mTopStackMemberSize, in bytes
  parameters,   \* names of the parameters lowered so far in the current function
  arity,        \* how many they are: the index of the next one
  phase         \* where the lowering is

layout == <<slots, paramArrays, stackSize, sized, topMember>>
vars == <<nextBlock, nextContext, layout, parameters, arity, phase>>

Ids == 0..MaxBlock
Phases == {"global", "parameters", "break", "body", "emitted", "exit", "terminate"}

\* Element 0 of an array carries the array's own name; so does a scalar.
SlotNames == Names \X Nat
Symbol(n) == <<n, 0>>

-----------------------------------------------------------------------------
(* Queries *)

HasSymbol(c, name) == \E s \in slots : s.ctx \in {c, 0} /\ s.name = name

IsParamArray(s) == <<s.ctx, s.name>> \in paramArrays

(* The bytes of a slot in use.  A slot is used at the width of the type it   *)
(* was laid out for, but visitCopy, visitCopyAddr and visitArrayAccess move  *)
(* 64 bits to and from the slot of a parameter array.  (Which instructions   *)
(* write at another width than their operand has is up to the operators.)    *)
AccessWidth(s) == IF IsParamArray(s) THEN PointerWidth ELSE s.width

(* A faulty variant with the sign of mStackSize lost.                        *)
FrameSizeUnsigned(c) == topMember[c] + stackSize[c]

(* getStackSize: what the prolog subtracts from %rsp.                        *)
FrameSize(c) == topMember[c] - stackSize[c]

-----------------------------------------------------------------------------
(* Operations of the CFG on the layout of context c *)

Slot(c, name, index, w) == [ctx |-> c, name |-> name, index |-> index, width |-> w]

(* A faulty variant that forgets to move the bottom of the stack.            *)
AddSymbolKeepingSize(c, name, w) ==
  IF HasSymbol(c, name)
  THEN UNCHANGED layout
  ELSE /\ slots' = slots \union {Slot(c, name, stackSize[c] - w, w)}
       /\ sized' = sized \union {c}
       /\ topMember' = [topMember EXCEPT ![c] = w]
       /\ UNCHANGED <<paramArrays, stackSize>>

(* addSymbol(context, name, type): the next w bytes down the stack.          *)
AddSymbol(c, name, w) ==
  IF HasSymbol(c, name)
  THEN UNCHANGED layout
  ELSE /\ slots' = slots \union {Slot(c, name, stackSize[c] - w, w)}
       /\ stackSize' = [stackSize EXCEPT ![c] = @ - w]
       /\ sized' = sized \union {c}
       /\ topMember' = [topMember EXCEPT ![c] = w]
       /\ UNCHANGED paramArrays

(* A faulty variant that mixes up the last two arguments.                    *)
AddSymbolAtSwapped(c, name, w, index) ==
  IF HasSymbol(c, name)
  THEN UNCHANGED <<slots, stackSize, sized, topMember>>
  ELSE /\ slots' = slots \union {Slot(c, name, index, w)}
       /\ topMember' = [topMember EXCEPT ![c] = index]
       /\ IF index < 0
          THEN /\ stackSize' = [stackSize EXCEPT ![c] = index]
               /\ sized' = sized \union {c}
          ELSE UNCHANGED <<stackSize, sized>>

(* addSymbol(context, name, type, index): at a given offset, which becomes   *)
(* the bottom of the stack when it is negative.                              *)
AddSymbolAt(c, name, w, index) ==
  IF HasSymbol(c, name)
  THEN UNCHANGED <<slots, stackSize, sized, topMember>>
  ELSE /\ slots' = slots \union {Slot(c, name, index, w)}
       /\ topMember' = [topMember EXCEPT ![c] = w]
       /\ IF index < 0
          THEN /\ stackSize' = [stackSize EXCEPT ![c] = index]
               /\ sized' = sized \union {c}
          ELSE UNCHANGED <<stackSize, sized>>

(* addParamArraySymbol: the address of an array parameter of w-byte          *)
(* elements is put w + 4 bytes down.                                         *)
AddParamArraySymbol(c, name, w) ==
  /\ paramArrays' = paramArrays \union {<<c, name>>}
  /\ AddSymbolAt(c, name, w, stackSize[c] - w - 4)

(* A faulty variant that registers element 0 first.                          *)
ArraySlotsUpward(c, n, w, len) ==
  {Slot(c, <<n, i>>, stackSize[c] - w * (i + 1), w) : i \in 0..(len - 1)}

(* addArraySymbol: the elements from the last one down to element 0.         *)
ArraySlots(c, n, w, len) ==
  {Slot(c, <<n, i>>, stackSize[c] - w * (len - i), w) : i \in 0..(len - 1)}

AddArraySymbol(c, n, w, len) ==
  /\ slots' = slots \union ArraySlots(c, n, w, len)
  /\ stackSize' = [stackSize EXCEPT ![c] = @ - w * len]
  /\ sized' = sized \union {c}
  /\ topMember' = [topMember EXCEPT ![c] = w]
  /\ UNCHANGED paramArrays

-----------------------------------------------------------------------------
(* Lowering a function definition: FunctionDefinition::getBasicBlock *)

Init ==
  /\ nextBlock = 0 /\ nextContext = 0
  /\ slots = {} /\ paramArrays = {}
  /\ stackSize = [c \in Ids |-> 0]
  /\ sized = {}
  /\ topMember = [c \in Ids |-> 0]
  /\ parameters = {} /\ arity = 0
  /\ phase = "global"

(* A faulty variant that resets before it numbers the context, so that the   *)
(* reset falls on the function laid out before.                              *)
EnterFunctionResetFirst ==
  /\ phase = "global"
  /\ nextBlock + 3 <= MaxBlock
  /\ nextBlock' = nextBlock + 1
  /\ nextContext' = nextContext + 1
  /\ stackSize' = [stackSize EXCEPT ![nextContext] = 0]
  /\ sized' = sized \union {nextContext}
  /\ parameters' = {} /\ arity' = 0
  /\ phase' = "parameters"
  /\ UNCHANGED <<slots, paramArrays, topMember>>

(* generateFunctionBlock numbers a block and a context; enterFunction then   *)
(* resets mStackSize at the number of the BLOCK ("FIXME: This won't work for *)
(* nested BB"), not of the context.                                          *)
EnterFunction ==
  /\ phase = "global"
  /\ nextBlock + 3 <= MaxBlock
  /\ nextBlock' = nextBlock + 1
  /\ nextContext' = nextContext + 1
  /\ stackSize' = [stackSize EXCEPT ![nextBlock + 1] = 0]
  /\ sized' = sized \union {nextBlock + 1}
  /\ parameters' = {} /\ arity' = 0
  /\ phase' = "parameters"
  /\ UNCHANGED <<slots, paramArrays, topMember>>

(* Which names the front end lets the next parameter have.                   *)
ParameterName(n) ==
  /\ phase = "parameters" /\ arity < MaxParameters
  /\ n \notin parameters \/ DuplicateParameters

CountParameter(n) ==
  /\ parameters' = parameters \union {n}
  /\ arity' = arity + 1
  /\ UNCHANGED <<nextBlock, nextContext>>

(* An array parameter: its slot is laid out, and the copy from its register  *)
(* or the slot above the frame then finds the name registered.  Without a    *)
(* name it ends the loop ("Unnamed arguments" break), after its slot.        *)
AddArrayParameter(n, w) ==
  /\ ParameterName(n)
  /\ AddParamArraySymbol(nextContext, Symbol(n), w)
  /\ CountParameter(n)
  /\ IF n \in Unnamed
     THEN phase' = "break"
     ELSE UNCHANGED phase

(* A named scalar parameter: the copy from its register registers its name   *)
(* (addInstruction, not for a void one), or it has a slot of the caller's.   *)
AddScalarParameter(n, w) ==
  /\ ParameterName(n)
  /\ n \notin Unnamed
  /\ CountParameter(n)
  /\ IF arity >= ArgRegisters
     THEN AddSymbolAt(nextContext, Symbol(n), 8, 16 + arity * 8) /\ UNCHANGED paramArrays
     ELSE IF w > 0
     THEN AddSymbol(nextContext, Symbol(n), w)
     ELSE UNCHANGED layout
  /\ UNCHANGED phase

(* A scalar parameter without a name has no slot and ends the loop.          *)
AddUnnamedParameter(n) ==
  /\ ParameterName(n)
  /\ n \in Unnamed
  /\ CountParameter(n)
  /\ phase' = "break"
  /\ UNCHANGED layout

(* The end block and the inner begin block are made; the statements follow.  *)
BeginBody ==
  /\ phase \in {"parameters", "break"}
  /\ nextBlock' = nextBlock + 2
  /\ phase' = "body"
  /\ UNCHANGED <<nextContext, layout, parameters, arity>>

-----------------------------------------------------------------------------
(* The statements of the function *)

(* A control block makes another basic block of the same function.           *)
GenerateBasicBlock ==
  /\ phase = "body"
  /\ nextBlock < MaxBlock
  /\ nextBlock' = nextBlock + 1
  /\ UNCHANGED <<nextContext, layout, parameters, arity, phase>>

(* BasicBlock::addInstruction of an instruction that returns n with a type   *)
(* of w bytes.                                                               *)
AddInstruction(n, w) ==
  /\ phase = "body"
  /\ IF w > 0 THEN AddSymbol(nextContext, Symbol(n), w) ELSE UNCHANGED layout
  /\ UNCHANGED <<nextBlock, nextContext, parameters, arity, phase>>

(* ArrayDefinition::getIR.  A local array is defined once and its name is no *)
(* other symbol's: the front end rejects the program otherwise.              *)
DefineArray(n, w, len) ==
  /\ phase = "body"
  /\ ~ \E i \in 0..MaxLength : HasSymbol(nextContext, <<n, i>>)
  /\ IF len = 0 \/ w = 0
     THEN phase' = "exit" /\ UNCHANGED layout
     ELSE AddArraySymbol(nextContext, n, w, len) /\ UNCHANGED phase
  /\ UNCHANGED <<nextBlock, nextContext, parameters, arity>>

LeaveFunction ==
  /\ phase = "body"
  /\ phase' = "global"
  /\ UNCHANGED <<nextBlock, nextContext, layout, parameters, arity>>

(* visitProlog reads the frame size of every function with                   *)
(* mStackSize.at(), which throws for a context without an entry; nothing     *)
(* catches it.                                                               *)
EmitPrologs ==
  /\ phase = "global"
  /\ phase' = IF 1..nextContext \subseteq sized THEN "emitted" ELSE "terminate"
  /\ UNCHANGED <<nextBlock, nextContext, layout, parameters, arity>>

Next ==
  \/ EnterFunction
  \/ \E n \in Names, w \in ArrayParamWidths : AddArrayParameter(n, w)
  \/ \E n \in Names, w \in Widths : AddScalarParameter(n, w)
  \/ \E n \in Names : AddUnnamedParameter(n)
  \/ BeginBody
  \/ GenerateBasicBlock
  \/ \E n \in Names \ Unnamed, w \in Widths : AddInstruction(n, w)
  \/ \E n \in Names \ Unnamed, w \in Widths, len \in 0..MaxLength :
       DefineArray(n, w, len)
  \/ LeaveFunction
  \/ EmitPrologs

Spec == Init /\ [][Next]_vars

-----------------------------------------------------------------------------
(* Properties *)

(* The variables hold what the maps and counters of the CFG can hold.        *)
TypeOK ==
  /\ nextBlock \in Ids /\ nextContext \in Ids
  /\ slots \subseteq [ctx : Ids, name : SlotNames, index : Int, width : Nat]
  /\ paramArrays \subseteq Ids \X SlotNames
  /\ stackSize \in [Ids -> Int]
  /\ sized \subseteq Ids
  /\ topMember \in [Ids -> Nat]
  /\ parameters \subseteq Names /\ arity \in Nat
  /\ phase \in Phases

Disjoint(s, t) ==
  s.index + AccessWidth(s) <= t.index \/ t.index + AccessWidth(t) <= s.index

(* Two symbols of a function never share a byte: a variable, a temporary, an *)
(* array element or a parameter written at its own width leaves the others   *)
(* alone (CFG::addSymbol and its variants, over a whole function).           *)
SlotsDisjoint ==
  \A s, t \in slots : s.ctx = t.ctx /\ s # t => Disjoint(s, t)

(* Every symbol of a function lies in the frame its prolog reserves, or in   *)
(* the argument area the caller pushed, above the saved %rbp and the return  *)
(* address (getStackSize against the offsets handed out by addSymbol).       *)
FrameCoversSlots ==
  \A s \in slots :
    \/ s.index >= - FrameSize(s.ctx) /\ s.index + AccessWidth(s) <= 0
    \/ s.index >= 16

(* The elements of a local array are contiguous and ascending from element   *)
(* 0, which is what the scaled address of visitArrayAccess relies on.        *)
ArraysContiguous ==
  \A s, t \in slots :
    (s.ctx = t.ctx /\ s.name[1] = t.name[1] /\ s.name[2] = 0)
      => t.index = s.index + t.name[2] * s.width

(* No step moves or drops a symbol, or gives back bytes of the frame of a    *)
(* function: in particular entering a function, whose reset is keyed by a    *)
(* block number, never hits a function already laid out.                     *)
LayoutGrows ==
  [][ /\ slots \subseteq slots'
      /\ \A c \in 1..nextContext : stackSize'[c] <= stackSize[c] ]_vars

(* "Array as argument == pointer" (X86_64IRVisitor.cpp:260): the slot of an   *)
(* array parameter has the bytes of a pointer to itself, below the saved     *)
(* %rbp and apart from every other symbol of the function.                   *)
ArrayArgumentsArePointers ==
  \A s \in slots : IsParamArray(s) =>
    /\ s.index + PointerWidth <= 0
    /\ \A t \in slots : t.ctx = s.ctx /\ t # s => Disjoint(s, t)

-----------------------------------------------------------------------------
(* The inductive strengthening of the safety properties *)

InFunction == phase \in {"parameters", "break", "body"}

(* Contexts are numbered no faster than blocks, so the number of a function's *)
(* first block is above every context in use.                                 *)
Numbering ==
  /\ nextContext <= nextBlock
  /\ InFunction => nextContext >= 1
  /\ phase \in {"parameters", "break"} => nextBlock + 2 <= MaxBlock

(* Frames grow downwards from 0 and start empty, stale entries under block    *)
(* numbers included.                                                          *)
FramesFromZero ==
  \A c \in Ids : stackSize[c] <= 0 /\ (c > nextContext => stackSize[c] = 0)

(* Slots are in use by the functions entered so far, above the bottom of the  *)
(* frame, and either below the saved %rbp or in the caller's argument area.   *)
SlotsInFrame ==
  \A s \in slots :
    /\ s.ctx \in 1..nextContext
    /\ s.index >= stackSize[s.ctx]
    /\ s.index + AccessWidth(s) <= 0 \/ s.index >= 16

(* While parameters are lowered, the slots of the function are parameters     *)
(* lowered before, and those of the caller's area end below the next one.     *)
ParameterSlots ==
  phase = "parameters" =>
    \A s \in slots : s.ctx = nextContext =>
      /\ \E n \in parameters : s.name = Symbol(n)
      /\ s.index + AccessWidth(s) <= 16 + arity * 8

(* An array parameter has a slot as soon as it is known to be one.            *)
ParamArraysHaveSlots ==
  \A p \in paramArrays : \E s \in slots : s.ctx = p[1] /\ s.name = p[2]

(* What every step preserves when parameters have distinct names and array    *)
(* parameters have elements of at least four bytes.                           *)
IInv ==
  /\ TypeOK
  /\ Numbering
  /\ FramesFromZero
  /\ SlotsInFrame
  /\ SlotsDisjoint
  /\ ParameterSlots
  /\ ParamArraysHaveSlots
=============================================================================

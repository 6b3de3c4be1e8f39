---------------------------- MODULE CallSequence ----------------------------
(***************************************************************************)
(* The run of a compiled program, seen from its calls: the registers that  *)
(* arguments are passed in, the stack, and the instructions that the x86   *)
(* visitor emits for a call and for the operators that use the same        *)
(* registers (src/ir/x86_64/X86_64IRVisitor.cpp).                          *)
(*                                                                         *)
(* FunctionCall::getIR evaluates the arguments from the last one to the    *)
(* first and passes each as soon as it is known, so that the arguments     *)
(* passed so far wait in registers while the others are evaluated, which   *)
(* may take other calls, and functions that make others.  A parameter is   *)
(* passed by pushing the register it goes to and overwriting it; a call    *)
(* pops the registers again.  Words are integers, and the stack is the     *)
(* sequence of the words pushed, so that a height is an address.           *)
(***************************************************************************)
EXTENDS Integers, Sequences

CONSTANTS
  ArgRegisters,     \* registers for arguments: NB_FUNCTION_CALL_REGISTERS
  DataRegister,     \* the index among them of %rdx
  CounterRegister,  \* the index among them of %rcx
  Values,           \* values an argument can have
  Junk,             \* values a computation can leave behind in a register
  MaxArity,         \* bound: arguments of a call
  MaxCalls,         \* bound: calls pending or active at the same time
  MaxStack,         \* bound: words on the stack when a call is begun
  Careful           \* whether programs avoid what the code does not protect

Registers == 0..(ArgRegisters - 1)

ASSUME RegistersAssumption ==
  ArgRegisters \in Nat /\ DataRegister \in Registers /\ CounterRegister \in Registers
ASSUME WordsAssumption == Values \subseteq Int /\ Junk \subseteq Int
ASSUME BoundsAssumption == MaxArity \in Nat /\ MaxCalls \in Nat /\ MaxStack \in Nat
ASSUME CarefulAssumption == Careful \in BOOLEAN

VARIABLES
  regs,   \* the words in the argument registers
  stack,  \* the words pushed; its length is %rsp
  rbp,    \* %rbp: the height of the saved base of the function that runs
  saved,  \* whether an instruction has pushed %rdx and not popped it yet
  calls   \* the calls begun and not over, the outermost first

vars == <<regs, stack, rbp, saved, calls>>

Smaller(m, n) == IF m < n THEN m ELSE n

(* A call: how many arguments it has and has left to pass; whether the        *)
(* function is a library's.  The values passed, the height of the stack when  *)
(* it began and %rbp in its function (0 before it is entered) are recorded    *)
(* for the properties only.                                                   *)
Begun(n, library, height) ==
  [arity |-> n, left |-> n, library |-> library,
   values |-> [i \in 1..n |-> 0], floor |-> height, base |-> 0]

Depth == Len(calls)
Inner == calls[Depth]
Active(j) == calls[j].base > 0

(* Argument i, counted from 0 like the registers; values is a sequence.       *)
Value(j, i) == calls[j].values[i + 1]

(* Code is evaluated: of the function that runs, or of the next argument.     *)
Evaluating == ~saved /\ (Active(Depth) \/ Inner.left > 0)

(* The words pushed for call j, argument i being the (arity - i)-th.          *)
Passed(j, i) == calls[j].left <= i /\ i < calls[j].arity
Cell(j, i) == calls[j].floor + calls[j].arity - i
Saves(j) == Smaller(ArgRegisters, calls[j].arity)

(* The height that call j has brought the stack to.                           *)
Height(j) == IF Active(j) THEN calls[j].base + Saves(j)
                          ELSE calls[j].floor + calls[j].arity - calls[j].left

(* Register r holds an argument of a call that is not made yet: the last call *)
(* that r was passed for.                                                     *)
Live(r) ==
  \E j \in 1..Depth :
    /\ Passed(j, r) /\ ~Active(j)
    /\ \A k \in (j + 1)..Depth : ~Passed(k, r)

MayClobber(r) == Careful => ~Live(r)

(* The calls that the function that runs has begun.                           *)
Pending == {j \in 1..Depth : \A k \in j..Depth : ~Active(k)}

-----------------------------------------------------------------------------
(* Calls *)

(* main is a call too: made by the C library, whose return address is -1 and  *)
(* whose %rbp is 0 here.                                                      *)
Init ==
  /\ regs = [r \in Registers |-> 0]
  /\ stack = <<-1, 0>>
  /\ rbp = 2
  /\ saved = FALSE
  /\ calls = <<[Begun(0, FALSE, 0) EXCEPT !.base = 2]>>

(* FunctionCall::getIR: a call of n arguments.  A library function is called  *)
(* like the others, which is only right when its arguments are in registers   *)
(* and no other register holds the argument of a call under way.              *)
BeginCall(n, library) ==
  /\ Evaluating
  /\ Depth < MaxCalls /\ Len(stack) + n <= MaxStack
  /\ library => /\ Careful => n <= ArgRegisters
                /\ \A r \in Registers : r >= n => MayClobber(r)
  /\ calls' = Append(calls, Begun(n, library, Len(stack)))
  /\ UNCHANGED <<regs, stack, rbp, saved>>

(* visitCallParameter, for the next argument, whose value is v: a register is *)
(* saved and takes the value, or the value itself is pushed.                  *)
CallParameter(v) ==
  LET i == Inner.left - 1
      done == [Inner EXCEPT !.left = i, !.values = [@ EXCEPT ![i + 1] = v]]
  IN  /\ ~saved /\ ~Active(Depth) /\ Inner.left > 0
      /\ calls' = [calls EXCEPT ![Depth] = done]
      /\ IF i < ArgRegisters
         THEN /\ stack' = Append(stack, regs[i])
              /\ regs' = [regs EXCEPT ![i] = v]
         ELSE /\ stack' = Append(stack, v)
              /\ UNCHANGED regs
      /\ UNCHANGED <<rbp, saved>>

(* The return address of a call begun at depth d.                             *)
Site(d) == -d

(* As a bug: the registers are copied in the order of the stack.              *)
SlotsReversed(n) ==
  [i \in 1..Smaller(ArgRegisters, n) |-> regs[Smaller(ArgRegisters, n) - i]]

(* The slots of the parameters that come in registers, at the top of the      *)
(* frame: their offsets are FrameLayout's, which keeps them apart.            *)
Slots(n) == [i \in 1..Smaller(ArgRegisters, n) |-> regs[i - 1]]

(* As a bug: the prolog moves %rsp to %rbp before it pushes %rbp.             *)
FunctionCallLate ==
  LET entered == [Inner EXCEPT !.base = Len(stack) + 2]
  IN  /\ ~saved /\ ~Active(Depth) /\ Inner.left = 0 /\ ~Inner.library
      /\ stack' = stack \o <<Site(Depth), Len(stack) + 1>> \o Slots(Inner.arity)
      /\ rbp' = Len(stack) + 2
      /\ calls' = [calls EXCEPT ![Depth] = entered]
      /\ UNCHANGED <<regs, saved>>

(* visitFunctionCall of a function of the program, up to its body: the call,  *)
(* the prolog (%rbp is pushed, the frame reserved) and the copies of the      *)
(* parameters from registers; the others stay where they were pushed.         *)
FunctionCall ==
  LET entered == [Inner EXCEPT !.base = Len(stack) + 2]
  IN  /\ ~saved /\ ~Active(Depth) /\ Inner.left = 0 /\ ~Inner.library
      /\ stack' = stack \o <<Site(Depth), rbp>> \o Slots(Inner.arity)
      /\ rbp' = Len(stack) + 2
      /\ calls' = [calls EXCEPT ![Depth] = entered]
      /\ UNCHANGED <<regs, saved>>

(* The registers popped after a call of n arguments whose words end at height *)
(* h: the first one is on top.                                                *)
Popped(n, h) ==
  [r \in Registers |-> IF r < Smaller(ArgRegisters, n) THEN stack[h - r] ELSE regs[r]]

(* As a bug: main is left like a function it has called.                      *)
ReturnFromMain ==
  /\ ~saved /\ Active(Depth)
  /\ rbp' = stack[rbp]
  /\ regs' = Popped(Inner.arity, rbp - 2)
  /\ stack' = SubSeq(stack, 1, rbp - 2 - Inner.arity)
  /\ calls' = SubSeq(calls, 1, Depth - 1)
  /\ UNCHANGED saved

(* visitReturn, the epilog (leave; ret) and the end of visitFunctionCall,     *)
(* which pops the registers and drops the other arguments.                    *)
Return ==
  /\ ~saved /\ Active(Depth) /\ Depth > 1
  /\ rbp' = stack[rbp]
  /\ regs' = Popped(Inner.arity, rbp - 2)
  /\ stack' = SubSeq(stack, 1, rbp - 2 - Inner.arity)
  /\ calls' = SubSeq(calls, 1, Depth - 1)
  /\ UNCHANGED saved

(* As a bug: the registers of the call are dropped from the stack, not popped. *)
LibraryCallDropping(left) ==
  /\ ~saved /\ ~Active(Depth) /\ Inner.left = 0 /\ Inner.library
  /\ regs' = left
  /\ stack' = SubSeq(stack, 1, Len(stack) - Inner.arity)
  /\ calls' = SubSeq(calls, 1, Depth - 1)
  /\ UNCHANGED <<rbp, saved>>

(* visitFunctionCall of a function of a library, which may leave anything in  *)
(* the argument registers; those of the call are popped afterwards.           *)
LibraryCall(left) ==
  /\ ~saved /\ ~Active(Depth) /\ Inner.left = 0 /\ Inner.library
  /\ regs' = [r \in Registers |->
                IF r < Smaller(ArgRegisters, Inner.arity)
                THEN stack[Len(stack) - r] ELSE left[r]]
  /\ stack' = SubSeq(stack, 1, Len(stack) - Inner.arity)
  /\ calls' = SubSeq(calls, 1, Depth - 1)
  /\ UNCHANGED <<rbp, saved>>

-----------------------------------------------------------------------------
(* Operators that use the argument registers *)

(* visitDivision: cltd and idivl overwrite %rdx, which is not saved.          *)
Division(w) ==
  /\ Evaluating
  /\ MayClobber(DataRegister)
  /\ regs' = [regs EXCEPT ![DataRegister] = w]
  /\ UNCHANGED <<stack, rbp, saved, calls>>

(* visitFlagToReg, visitLeftShift and visitRightShift use %cl, unsaved.       *)
ShiftOrCompare(w) ==
  /\ Evaluating
  /\ MayClobber(CounterRegister)
  /\ regs' = [regs EXCEPT ![CounterRegister] = w]
  /\ UNCHANGED <<stack, rbp, saved, calls>>

(* visitMod and visitArrayAccess of an array parameter: %rdx is pushed, used  *)
(* and, at the end of the instruction, popped.                                *)
SaveData(w) ==
  /\ Evaluating
  /\ stack' = Append(stack, regs[DataRegister])
  /\ regs' = [regs EXCEPT ![DataRegister] = w]
  /\ saved' = TRUE
  /\ UNCHANGED <<rbp, calls>>

(* As a bug: the word is dropped, not popped into %rdx.                       *)
RestoreDataDropping ==
  /\ saved
  /\ stack' = SubSeq(stack, 1, Len(stack) - 1)
  /\ saved' = FALSE
  /\ UNCHANGED <<regs, rbp, calls>>

RestoreData ==
  /\ saved
  /\ regs' = [regs EXCEPT ![DataRegister] = stack[Len(stack)]]
  /\ stack' = SubSeq(stack, 1, Len(stack) - 1)
  /\ saved' = FALSE
  /\ UNCHANGED <<rbp, calls>>

(* visitArrayAccess of a local array pushes %rdx and does not pop it: the     *)
(* stack stays one word higher until the function returns.                    *)
LocalArrayAccess ==
  /\ Evaluating
  /\ Len(stack) < MaxStack
  /\ Careful => \A j \in Pending : calls[j].left = calls[j].arity
  /\ stack' = Append(stack, regs[DataRegister])
  /\ calls' = [j \in 1..Depth |->
                 IF j \in Pending THEN [calls[j] EXCEPT !.floor = @ + 1] ELSE calls[j]]
  /\ UNCHANGED <<regs, rbp, saved>>

Next ==
  \/ \E n \in 0..MaxArity, library \in BOOLEAN : BeginCall(n, library)
  \/ \E v \in Values : CallParameter(v)
  \/ FunctionCall
  \/ Return
  \/ \E left \in [Registers -> Junk] : LibraryCall(left)
  \/ \E w \in Junk : Division(w)
  \/ \E w \in Junk : ShiftOrCompare(w)
  \/ \E w \in Junk : SaveData(w)
  \/ RestoreData
  \/ LocalArrayAccess

Spec == Init /\ [][Next]_vars

-----------------------------------------------------------------------------
(* Properties *)

Records == [arity : 0..MaxArity, left : 0..MaxArity, library : BOOLEAN,
            values : Seq(Int), floor : Nat, base : Nat]

(* The registers and the stack hold words, and calls are in progress.        *)
TypeOK ==
  /\ regs \in [Registers -> Int]
  /\ stack \in Seq(Int)
  /\ rbp \in Int /\ saved \in BOOLEAN
  /\ calls \in Seq(Records)
  /\ Depth > 0
  /\ \A j \in 1..Depth :
       /\ calls[j].left <= calls[j].arity
       /\ Len(calls[j].values) = calls[j].arity

(* The word at a height of the stack, if there is one.                        *)
Unknown == -1000
Word(h) == IF h \in 1..Len(stack) THEN stack[h] ELSE Unknown

(* Between visitMod's pushq and popq, what the popq will restore.             *)
Settled == IF saved THEN [regs EXCEPT ![DataRegister] = Word(Len(stack))] ELSE regs
Top == IF saved THEN Len(stack) - 1 ELSE Len(stack)

(* A function that is active finds in its slots and above its frame, at       *)
(* 16 + 8 * i, the values its arguments had when they were evaluated, however *)
(* many calls were made since (FunctionDefinition::getBasicBlock).            *)
ArgumentsArrive ==
  \A j \in 1..Depth : Active(j) =>
    \A i \in 0..(calls[j].arity - 1) :
      Value(j, i) =
        IF i < ArgRegisters THEN Word(calls[j].base + 1 + i)
                            ELSE Word(calls[j].base - 2 - i)

(* When all its arguments are passed, a call finds them in the registers and  *)
(* on the stack: in the places of the System V ABI for a library function,    *)
(* and above the saved registers for a function of the program, whose prolog  *)
(* is still to push two words (FunctionCall::getIR, visitCallParameter).      *)
ArgumentsReady ==
  ~Active(Depth) /\ Inner.left = 0 =>
    \A i \in 0..(Inner.arity - 1) :
      Value(Depth, i) =
        IF i < ArgRegisters THEN Settled[i]
        ELSE IF Inner.library THEN Word(Top - (i - ArgRegisters)) ELSE Word(Top - i)

(* Every active function will return to where it was called from, with the    *)
(* frame of the function that called it: no push, pop or adjustment of %rsp   *)
(* reaches the words of an outer call (visitFunctionCall, visitEpilog).       *)
ReturnsIntact ==
  \A k \in 1..Depth : Active(k) =>
    /\ Word(calls[k].base - 1) = Site(k)
    /\ \A j \in 1..(k - 1) :
         (Active(j) /\ \A m \in (j + 1)..(k - 1) : ~Active(m))
           => Word(calls[k].base) = calls[j].base

(* Where argument i of call j is kept: in its register, in the cell of the    *)
(* next call that register was passed for, in a slot of the function, or      *)
(* above its frame.                                                           *)
Place(j, i) ==
  LET later == {k \in (j + 1)..Depth : Passed(k, i)}
      next == CHOOSE k \in later : \A m \in later : k <= m
  IN  IF Active(j)
      THEN IF i < ArgRegisters THEN Word(calls[j].base + 1 + i)
                               ELSE Word(calls[j].base - 2 - i)
      ELSE IF i >= ArgRegisters THEN Word(Cell(j, i))
      ELSE IF later = {} THEN Settled[i]
      ELSE Word(Cell(next, i))

(* The calls as Calls sees them: the arguments are read where the machine     *)
(* keeps them.                                                                *)
Mapped ==
  [j \in 1..Depth |->
     [arity |-> calls[j].arity, left |-> calls[j].left, entered |-> Active(j),
      args |-> [i \in 0..(calls[j].arity - 1) |->
                  IF Passed(j, i) THEN Place(j, i) ELSE 0]]]

Promise == INSTANCE Calls WITH acts <- Mapped

(* The code keeps the promise of Calls: in the places where the machine keeps *)
(* them, the arguments that wait and the parameters of active functions       *)
(* change only when they are evaluated.                                       *)
ImplementsCalls == Promise!Spec

-----------------------------------------------------------------------------
(* The inductive strengthening of the safety properties *)

(* Calls are stacked: what each has pushed lies above what the earlier ones   *)
(* have, and below the top.                                                   *)
Stacked ==
  /\ \A j, k \in 1..Depth : j < k => Height(j) <= calls[k].floor
  /\ \A j \in 1..Depth : Height(j) <= Top

(* Nothing is pushed between a call under way and the one begun next, or the  *)
(* top, and a function is entered right above the words of its call.          *)
Balanced ==
  /\ \A j \in 1..(Depth - 1) : ~Active(j) => calls[j + 1].floor = Height(j)
  /\ ~Active(Depth) => Top = Height(Depth)
  /\ \A j \in 1..Depth : Active(j) =>
       /\ calls[j].base = calls[j].floor + calls[j].arity + 2
       /\ calls[j].left = 0

(* %rbp is the base of the innermost active function, and each active         *)
(* function has pushed that of the active one outside it.                     *)
BasesChained ==
  /\ Active(1) /\ calls[1].base = 2 /\ calls[1].arity = 0 /\ stack[2] = 0
  /\ \A j \in 1..Depth : Active(j) => stack[calls[j].base - 1] = Site(j)
  /\ \A j \in 1..Depth :
       (Active(j) /\ \A k \in (j + 1)..Depth : ~Active(k)) => rbp = calls[j].base
  /\ \A j, k \in 1..Depth :
       (j < k /\ Active(j) /\ Active(k) /\ \A m \in (j + 1)..(k - 1) : ~Active(m))
         => stack[calls[k].base] = calls[j].base

(* An argument that waits is in its register, or in the cell where the next   *)
(* call to pass that register saved it.                                       *)
WaitInRegisters ==
  \A j \in 1..Depth : \A i \in Registers :
    (Passed(j, i) /\ ~Active(j) /\ \A k \in (j + 1)..Depth : ~Passed(k, i))
      => Settled[i] = Value(j, i)

WaitInCells ==
  \A j, k \in 1..Depth : \A i \in Registers :
    (/\ j < k /\ Passed(j, i) /\ ~Active(j) /\ Passed(k, i)
     /\ \A m \in (j + 1)..(k - 1) : ~Passed(m, i))
      => stack[Cell(k, i)] = Value(j, i)

(* The seventh and later arguments are pushed, and the slots of an active     *)
(* function hold the others.                                                  *)
PushedKept ==
  \A j \in 1..Depth : \A i \in 0..(calls[j].arity - 1) :
    i >= ArgRegisters /\ Passed(j, i) => stack[Cell(j, i)] = Value(j, i)

SlotsKept ==
  \A j \in 1..Depth : Active(j) =>
    \A i \in 0..(Saves(j) - 1) : stack[calls[j].base + 1 + i] = Value(j, i)

(* %rdx is saved only while code is evaluated.                                *)
SavedInside == saved => Len(stack) > 0 /\ (Active(Depth) \/ Inner.left > 0)

(* A library function that is being called finds its arguments in registers,  *)
(* and no argument waits in the others.                                       *)
LibraryCalls ==
  \A k \in 1..Depth : calls[k].library =>
    /\ ~Active(k) /\ calls[k].arity <= ArgRegisters
    /\ \A r \in Registers : r >= calls[k].arity =>
         \A j \in 1..(k - 1) :
           Passed(j, r) /\ ~Active(j) => \E m \in (j + 1)..(k - 1) : Passed(m, r)

IInv ==
  /\ TypeOK
  /\ Stacked
  /\ Balanced
  /\ BasesChained
  /\ WaitInRegisters
  /\ WaitInCells
  /\ PushedKept
  /\ SlotsKept
  /\ SavedInside
  /\ LibraryCalls
=============================================================================

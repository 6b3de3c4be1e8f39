---------------------------- MODULE ControlFlow -----------------------------
(***************************************************************************)
(* The basic blocks that the control structures of a function are lowered  *)
(* to (getBasicBlock and getIR under src/ast), the order they are emitted  *)
(* in (X86_64CFGVisitor, X86_64BasicBlockVisitor), and the execution of    *)
(* the code that comes out.                                                *)
(*                                                                         *)
(* Of an instruction only its part in the control flow is kept: an atom is *)
(* an expression without && or || in it and leaves an unknown truth value  *)
(* in a temporary.  A block's pointer to no other block is 0.              *)
(***************************************************************************)
EXTENDS Integers, Sequences, SequencesExt, Syntax

CONSTANT Programs  \* bodies of functions: sequences of statements

ASSUME ProgramsAssumption == Programs \subseteq Seq(Statements[Depth])

VARIABLES
  listing,  \* the code of the function as emitted: instructions and labels
  pc,       \* the next instruction, 0 when the function has returned
  memory    \* what the temporaries of the function hold

vars == <<listing, pc, memory>>

Values == {"true", "false", "unset"}

-----------------------------------------------------------------------------
(* Basic blocks: the CFG while a function is lowered to it *)

Block == [true |-> 0, false |-> 0, code |-> <<>>]
NoBlock == 0

Instructions ==
  [is : {"atom"}, name : Names, into : Nat]
  \union [is : {"not"}, from : Nat, into : Nat]
  \union [is : {"const"}, value : {"true", "false"}, into : Nat]
  \union [is : {"empty"}, into : Nat]
  \union [is : {"jump"}, to : Nat \ {NoBlock}]
  \union [is : {"return", "epilog"}]

Graphs == [blocks : Seq([true : Nat, false : Nat, code : Seq(Instructions)]),
           temporaries : Nat, loops : Seq(Nat \ {NoBlock}), refused : BOOLEAN]

EmptyGraph == [blocks |-> <<>>, temporaries |-> 0, loops |-> <<>>, refused |-> FALSE]

(* The block numbered last. *)
Newest(g) == Len(g.blocks)
NewBlocks(g, n) == [g EXCEPT !.blocks = @ \o [i \in 1..n |-> Block]]
NewTemporary(g) == [g EXCEPT !.temporaries = @ + 1]

SetExitWhenTrue(g, b, to) == [g EXCEPT !.blocks[b].true = to]
SetExitWhenFalse(g, b, to) == [g EXCEPT !.blocks[b].false = to]
SetExits(g, b, yes, no) == SetExitWhenFalse(SetExitWhenTrue(g, b, yes), b, no)
AddInstruction(g, b, instruction) ==
  [g EXCEPT !.blocks[b].code = Append(@, instruction)]

(* A faulty variant that links the child before it hands the exits down.     *)
WhenTrueBlockOfItself(g, b) ==
  LET child == Len(g.blocks) + 1
      linked == SetExitWhenTrue(NewBlocks(g, 1), b, child)
  IN SetExits(linked, child, child, g.blocks[b].false)

(* getNewWhenTrueBasicBlock: the child, numbered last, takes over the exits. *)
NewWhenTrueBlock(g, b) ==
  LET child == Len(g.blocks) + 1
      inherited == SetExits(NewBlocks(g, 1), child, g.blocks[b].true, g.blocks[b].false)
  IN SetExitWhenTrue(inherited, b, child)

(* A jump to the end of the innermost loop; without one the compiler exits.  *)
BreakInstruction(g, b) ==
  IF g.loops = <<>>
  THEN [g EXCEPT !.refused = TRUE]
  ELSE AddInstruction(g, b, [is |-> "jump", to |-> Last(g.loops)])

PushLoopEnd(g, end) == [g EXCEPT !.loops = Append(@, end)]
PopLoopEnd(g) == [g EXCEPT !.loops = Front(@)]

(* A faulty variant for && and || that leaves their value alone.             *)
LoadNoTruth(g, b, value, into) == g

(* LDConstInstruction of 1 or 0.                                             *)
LoadTruth(g, b, value, into) ==
  AddInstruction(g, b, [is |-> "const", value |-> value, into |-> into])

-----------------------------------------------------------------------------
(* Expressions and statements *)

(* Lowering a tree needs its parts lowered.  In the definitions below, lower *)
(* does that: it maps a graph, a block and a part to the graph after it and  *)
(* to the chain of blocks that came of it, if the part has blocks of its     *)
(* own, or else to the block that its instructions end in.                   *)

IsBlocks(node) == node.is \in {"and", "or", "if", "while", "do", "for"}

GetBasicBlock(lower, g, node) == lower[<<g, NoBlock, node>>]

(* A faulty variant of the blocks of && and || that mixes up the exits the   *)
(* right operand hangs on.                                                   *)
HangRightSwapped(g, operator, last, to) ==
  IF operator = "and"
  THEN SetExitWhenFalse(g, last, to)
  ELSE SetExitWhenTrue(g, last, to)

(* The right operand is reached when the left one is true, or false.         *)
HangRight(g, operator, last, to) ==
  IF operator = "and"
  THEN SetExitWhenTrue(g, last, to)
  ELSE SetExitWhenFalse(g, last, to)

\* A chain of blocks, from begin to end; and one that is a single block.
WithExits(chain, yes, no) == [chain EXCEPT !.g = SetExits(@, chain.end, yes, no)]
InPlace(ir) == [g |-> ir.g, begin |-> ir.block, end |-> ir.block]

(* The blocks of && and || in the place of block b of a bigger expression.   *)
InsertChain(b, chain) ==
  LET exits == chain.g.blocks[b]
      own == chain.g.blocks[chain.end]
      g == SetExits(chain.g, chain.end,
                    IF exits.true # 0 THEN exits.true ELSE own.true,
                    IF exits.false # 0 THEN exits.false ELSE own.false)
  IN [g |-> AddInstruction(SetExits(g, b, chain.begin, 0), chain.end,
                           [is |-> "empty", into |-> chain.into]),
      block |-> chain.end, into |-> chain.into]

(* getIR and SAFE_ADD_INSTRUCTION: the instructions are added to the block,  *)
(* for which && and || put the last one of their own.                        *)
GetIR(lower, g, b, e) ==
  IF e.is \in {"and", "or"}
  THEN InsertChain(b, GetBasicBlock(lower, g, e))
  ELSE lower[<<g, b, e>>]

NextTemporary(g) == g.temporaries + 1
Compute(g, b, instruction) ==
  [g |-> AddInstruction(NewTemporary(g), b, instruction), block |-> b,
   into |-> NextTemporary(g)]
EvaluateName(g, b, name) ==
  Compute(g, b, [is |-> "atom", name |-> name, into |-> NextTemporary(g)])
Negate(ir) ==
  Compute(ir.g, ir.block, [is |-> "not", from |-> ir.into, into |-> NextTemporary(ir.g)])
ReturnValue(ir) ==
  [g |-> AddInstruction(ir.g, ir.block, [is |-> "return"]), block |-> ir.block]

(* ConjunctionOperator and DisjunctionOperator::getBasicBlock.  (The block   *)
(* of a left operand without blocks of its own has its exits already.)       *)
LogicalBlocks(lower, g0, e) ==
  LET start == Newest(g0) + 1
      yes == start + 1
      no == start + 2
      end == start + 3
      g1 == NewTemporary(NewBlocks(g0, 4))
      into == g1.temporaries
      g2 == SetExits(SetExitWhenTrue(SetExitWhenTrue(g1, yes, end), no, end), start, yes, no)
      g3 == LoadTruth(LoadTruth(g2, yes, "true", into), no, "false", into)
      g4 == AddInstruction(g3, end, [is |-> "empty", into |-> into])
      Left == IF IsBlocks(e.left)
              THEN GetBasicBlock(lower, g4, e.left)
              ELSE InPlace(GetIR(lower, g4, start, e.left))
      Right(g) == IF IsBlocks(e.right)
                  THEN GetBasicBlock(lower, g, e.right)
                  ELSE InPlace(GetIR(lower, NewBlocks(g, 1), Newest(g) + 1, e.right))
      Join(left, right) ==
        [g |-> HangRight(right.g, e.is, left.end, right.begin),
         begin |-> left.begin, end |-> end, into |-> into]
      AfterLeft(left) == Join(left, WithExits(Right(left.g), yes, no))
  IN AfterLeft(WithExits(Left, yes, no))

(* A statement that has blocks of its own between a block and its exit, and  *)
(* a new block after it.                                                     *)
Link(b, statement) ==
  LET g == SetExitWhenTrue(SetExitWhenTrue(statement.g, statement.end,
                                           statement.g.blocks[b].true),
                           b, statement.begin)
      after == NewWhenTrueBlock(g, statement.end)
  IN [g |-> after, block |-> Newest(after)]

(* The statements of a body are added to a block, which is another one at    *)
(* the end.  (The exit of the block of a function is the function's end.)    *)
Add(lower, ir, statement) ==
  IF IsBlocks(statement)
  THEN Link(ir.block, GetBasicBlock(lower, ir.g, statement))
  ELSE GetIR(lower, ir.g, ir.block, statement)

Splice(lower, g, b, statements) ==
  LET upTo[i \in 0..Len(statements)] ==
        IF i = 0 THEN [g |-> g, block |-> b] ELSE Add(lower, upTo[i - 1], statements[i])
  IN upTo[Len(statements)]

(* IfBlock::getBasicBlock.  The block of the condition gets its exit when    *)
(* false at the end, when it is no more the block it was.                    *)
IfBlocks(lower, g0, s) ==
  LET cond == Newest(g0) + 1
      then == cond + 1
      else == cond + 2
      end == cond + 3
      g1 == SetExitWhenTrue(SetExitWhenTrue(NewBlocks(g0, 4), cond, then), then, end)
      Begin(chain) == [g |-> chain.g, block |-> chain.begin]
      Condition == IF IsBlocks(s.cond)
                   THEN Begin(WithExits(GetBasicBlock(lower, g1, s.cond), then, else))
                   ELSE GetIR(lower, g1, cond, s.cond)
      Else(g, b) ==
        IF s.else = <<>>
        THEN SetExitWhenFalse(g, b, end)
        ELSE Splice(lower, SetExitWhenTrue(SetExitWhenFalse(g, b, else), else, end),
                    else, s.else).g
      Branches(c) == [g |-> Else(Splice(lower, c.g, then, s.then).g, c.block),
                      begin |-> c.block, end |-> end]
  IN Branches(Condition)

(* The condition of a loop, in a block whose exits are set: on blocks of its *)
(* own, the one that follows them takes the place of the block.              *)
LoopCondition(lower, g, cond, e, yes, no) ==
  LET Follow(chain) ==
        LET after == NewWhenTrueBlock(SetExitWhenTrue(chain.g, cond, chain.begin), chain.end)
        IN [g |-> after, block |-> Newest(after)]
  IN IF IsBlocks(e)
     THEN Follow(WithExits(GetBasicBlock(lower, g, e), yes, no))
     ELSE GetIR(lower, g, cond, e)

(* WhileBlock::getBasicBlock.                                                *)
WhileBlocks(lower, g0, s) ==
  LET cond == Newest(g0) + 1
      then == cond + 1
      end == cond + 2
      g1 == PushLoopEnd(NewBlocks(g0, 3), end)
      g2 == SetExitWhenTrue(SetExits(g1, cond, then, end), then, cond)
      Body(c) == [g |-> PopLoopEnd(Splice(lower, c.g, then, s.body).g),
                  begin |-> c.block, end |-> end]
  IN Body(LoopCondition(lower, g2, cond, s.cond, then, end))

(* Do_WhileBlock::getBasicBlock: the statement begins with the block that    *)
(* its action ends in.                                                       *)
DoBlocks(lower, g0, s) ==
  LET cond == Newest(g0) + 1
      action == cond + 1
      end == cond + 2
      g1 == PushLoopEnd(NewBlocks(g0, 3), end)
      g2 == SetExits(SetExitWhenTrue(g1, action, cond), cond, action, end)
      Finish(a) == [g |-> PopLoopEnd(a.g), begin |-> a.block, end |-> end]
  IN Finish(Splice(lower, LoopCondition(lower, g2, cond, s.cond, action, end).g,
                   action, s.body))

(* ForBlock::getBasicBlock.  For a condition with blocks of its own it takes *)
(* those of the initialisation, which an expression without any refuses.     *)
ForBlocks(lower, g0, s) ==
  LET init == Newest(g0) + 1
      cond == init + 1
      then == init + 2
      inc == init + 3
      end == init + 4
      g1 == PushLoopEnd(NewBlocks(g0, 5), end)
      g2 == SetExitWhenTrue(SetExits(g1, cond, then, end), init, cond)
      g3 == SetExitWhenTrue(SetExitWhenTrue(g2, then, inc), inc, cond)
      Condition(g) == IF ~ IsBlocks(s.end) THEN GetIR(lower, g, cond, s.end).g
                      ELSE IF IsBlocks(s.begin) THEN LoopCondition(lower, g, cond, s.begin, then, end).g
                      ELSE [g EXCEPT !.refused = TRUE]
      AfterInit(i) ==
        [g |-> PopLoopEnd(Splice(lower, Splice(lower, Condition(i.g), then, s.body).g,
                                 inc, <<s.step>>).g),
         begin |-> i.block, end |-> end]
  IN AfterInit(Splice(lower, g3, init, <<s.begin>>))

LowerNode(lower, g, b, node) ==
  CASE node.is = "atom" -> EvaluateName(g, b, node.name)
    [] node.is = "not" -> Negate(GetIR(lower, g, b, node.of))
    [] node.is \in {"and", "or"} -> LogicalBlocks(lower, g, node)
    [] node.is = "break" -> [g |-> BreakInstruction(g, b), block |-> b]
    [] node.is = "return" ->
         ReturnValue(IF node.value = <<>> THEN [g |-> g, block |-> b]
                     ELSE GetIR(lower, g, b, node.value[1]))
    [] node.is = "if" -> IfBlocks(lower, g, node)
    [] node.is = "while" -> WhileBlocks(lower, g, node)
    [] node.is = "do" -> DoBlocks(lower, g, node)
    [] node.is = "for" -> ForBlocks(lower, g, node)

(* How the trees of at most n levels are lowered.                            *)
Lowering[n \in 0..Depth] ==
  [call \in Graphs \X Nat \X Statements[n] |->
     LowerNode(Lowering[n - 1], call[1], call[2], call[3])]

(* A faulty variant without the epilog.                                      *)
NoEpilog(g, end) == g

(* EpilogInstruction: leave and ret.                                         *)
Epilog(g, end) == AddInstruction(g, end, [is |-> "epilog"])

RootBlock == 1
EndBlock == 2

(* FunctionDefinition::getBasicBlock.                                        *)
FunctionBlocks(program) ==
  LET g1 == SetExitWhenTrue(NewBlocks(EmptyGraph, 2), RootBlock, EndBlock)
      g2 == NewWhenTrueBlock(g1, RootBlock)
  IN Epilog(Splice(Lowering[Depth], g2, Newest(g2), program).g, EndBlock)

-----------------------------------------------------------------------------
(* Emission *)

(* A faulty variant that takes one exit of a block only.                     *)
ExitsOnlyOne(block) ==
  <<block.false, IF block.false = NoBlock THEN block.true ELSE NoBlock>>

ExitsOf(block) == <<block.false, block.true>>

(* The blocks that have been visited, and those of them that are done, each  *)
(* after those it leads to.                                                  *)
Orders == [visited : SUBSET Nat, done : Seq(Nat)]

(* visit does the same for what is further down.                             *)
Visit(visit, blocks, b, order) ==
  IF b = NoBlock \/ b \in order.visited THEN order
  ELSE LET exits == ExitsOf(blocks[b])
           first == visit[<<exits[1], [order EXCEPT !.visited = @ \union {b}]>>]
           second == visit[<<exits[2], first>>]
       IN [second EXCEPT !.done = Append(@, b)]

(* No more blocks are open at a time than there are.                         *)
EmissionOrder(blocks) ==
  LET Nowhere == [call \in Nat \X Orders |-> call[2]]
      visit[n \in 0..Len(blocks)] ==
        IF n = 0 THEN Nowhere
        ELSE [call \in Nat \X Orders |-> Visit(visit[n - 1], blocks, call[1], call[2])]
  IN Reverse(visit[Len(blocks)][<<RootBlock, [visited |-> {}, done |-> <<>>]>>].done)

(* An empty block with an exit when false only jumps there; the others test  *)
(* the value of their last instruction.                                      *)
Jumps(block) ==
  LET unless == IF block.code # <<>>
                THEN <<[is |-> "test", from |-> Last(block.code).into, to |-> block.false]>>
                ELSE <<[is |-> "jump", to |-> block.false]>>
      always == <<[is |-> "jump", to |-> block.true]>>
  IN IF block.false = 0
     THEN (IF block.true = 0 THEN <<>> ELSE always)
     ELSE IF block.code = <<>> \/ block.true = 0 THEN unless
     ELSE unless \o always

Label(b) == [is |-> "label", of |-> b]

Emit(blocks) ==
  LET order == EmissionOrder(blocks)
      Code(b) == <<Label(b)>> \o blocks[b].code \o Jumps(blocks[b])
  IN FlattenSeq([i \in DOMAIN order |-> Code(order[i])])

-----------------------------------------------------------------------------
(* Execution *)

AtEnd == pc = Len(listing) + 1
Running == pc # 0 /\ ~ AtEnd
Instruction == listing[pc]
Emitted(b) == \E i \in DOMAIN listing : listing[i] = Label(b)
Position(b) == CHOOSE i \in DOMAIN listing : listing[i] = Label(b)

Starts(program) ==
  LET g == FunctionBlocks(program) IN
  /\ ~ g.refused
  /\ listing = Emit(g.blocks)
  /\ pc = 1
  /\ memory = [t \in 1..g.temporaries |-> "unset"]

Init == \E program \in Programs : Starts(program)

(* What the value of a temporary may be: anything before it is set.          *)
Read(t) == IF memory[t] = "unset" THEN BOOLEAN ELSE {memory[t] = "true"}
Write(t, value) == memory' = [memory EXCEPT ![t] = IF value THEN "true" ELSE "false"]

(* An atom is evaluated: the data decide what to.                            *)
EvaluateAtom ==
  /\ Running /\ Instruction.is = "atom"
  /\ \E value \in BOOLEAN : Write(Instruction.into, value)
  /\ pc' = pc + 1
  /\ UNCHANGED listing

LoadConst ==
  /\ Running /\ Instruction.is = "const"
  /\ memory' = [memory EXCEPT ![Instruction.into] = Instruction.value]
  /\ pc' = pc + 1
  /\ UNCHANGED listing

CompareWithZero ==
  /\ Running /\ Instruction.is = "not"
  /\ \E value \in Read(Instruction.from) : Write(Instruction.into, ~ value)
  /\ pc' = pc + 1
  /\ UNCHANGED listing

(* Labels and empty instructions.                                            *)
Pass ==
  /\ Running /\ Instruction.is \in {"label", "empty"}
  /\ pc' = pc + 1
  /\ UNCHANGED <<listing, memory>>

JumpTo(b) == Emitted(b) /\ pc' = Position(b)

Jump ==
  /\ Running
  /\ \/ Instruction.is = "jump" /\ JumpTo(Instruction.to)
     \/ Instruction.is = "return" /\ JumpTo(EndBlock)
  /\ UNCHANGED <<listing, memory>>

Test ==
  /\ Running /\ Instruction.is = "test"
  /\ \E value \in Read(Instruction.from) :
       IF value THEN pc' = pc + 1 ELSE JumpTo(Instruction.to)
  /\ UNCHANGED <<listing, memory>>

ReturnToCaller ==
  /\ Running /\ Instruction.is = "epilog"
  /\ pc' = 0
  /\ UNCHANGED <<listing, memory>>

Next ==
  \/ EvaluateAtom
  \/ LoadConst
  \/ CompareWithZero
  \/ Pass
  \/ Jump
  \/ Test
  \/ ReturnToCaller

(* The processor goes on as long as there is an instruction.                 *)
Spec == Init /\ [][Next]_vars /\ WF_vars(Next)

-----------------------------------------------------------------------------
(* Properties *)

(* Control is at an instruction of the function or has left by its epilog:   *)
(* it never runs into the code of the next function.                         *)
TypeOK ==
  /\ pc \in 0..Len(listing)
  /\ \A t \in DOMAIN memory : memory[t] \in Values

(* No branch and no operator uses a temporary that this run of the function  *)
(* has not set (the condition of a block is the value of its last            *)
(* instruction, X86_64BasicBlockVisitor.cpp:53).                             *)
TestsWhatWasComputed ==
  Running /\ Instruction.is \in {"test", "not"} => memory[Instruction.from] # "unset"

(* Every block that is jumped to is emitted, the ends of the loops that      *)
(* break jumps to by name included.                                          *)
JumpsLand ==
  \A i \in DOMAIN listing :
    /\ listing[i].is \in {"jump", "test"} => Emitted(listing[i].to)
    /\ listing[i].is = "return" => Emitted(EndBlock)

(* The blocks never lead round in a circle without evaluating an expression  *)
(* of the source, and never to a dead end (the jumps that are dropped "to    *)
(* prevent infinite loop", X86_64BasicBlockVisitor.cpp:48).                  *)
KeepsGoing == []<>(pc = 0 \/ (Running /\ Instruction.is = "atom"))

=============================================================================

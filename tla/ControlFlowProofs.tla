------------------------- MODULE ControlFlowProofs -------------------------
(***************************************************************************)
(* The proofs about ControlFlow, for the body of any function: control     *)
(* never runs past the end of the code, and every jump lands in it.        *)
(*                                                                         *)
(* Both come from one fact about the blocks that a body is lowered to: who *)
(* takes from each block the exit that is visited first, the one when its  *)
(* condition is false, leaves every loop and gets to the end of the        *)
(* function.  So the depth-first order of emission ends there, and it has  *)
(* the end of every loop that a break in it jumps to.                      *)
(***************************************************************************)
EXTENDS ControlFlow, FiniteSetTheorems, SequenceTheorems, WellFoundedInduction, TLAPS

(* A set of numbers that has 0 and successors has them all.                  *)
LEMMA Induction ==
  ASSUME NEW P, 0 \in P, \A n \in Nat : n \in P => n + 1 \in P
  PROVE  Nat \subseteq P
<1> SUFFICES ASSUME Nat \ P # {} PROVE FALSE
  OBVIOUS
<1>1. PICK x \in Nat \ P : \A y \in Nat \ P : <<y, x>> \notin OpToRel(<, Nat)
  BY WFMin, NatLessThanWellFounded
<1>2. x - 1 \in Nat /\ x - 1 < x
  OBVIOUS
<1>3. <<x - 1, x>> \in Nat \X Nat /\ <<x - 1, x>>[1] < <<x - 1, x>>[2]
  BY <1>2
<1>4. x - 1 \in P
  BY <1>1, <1>2, <1>3 DEF OpToRel
<1> QED BY <1>2, <1>4

-----------------------------------------------------------------------------
(* Graphs: what the proofs look at in a block *)

BlockType == [true : Nat, false : Nat, code : Seq(Instructions)]

T(g, x) == g.blocks[x].true
F(g, x) == g.blocks[x].false
Code(g, x) == g.blocks[x].code

(* The exit that is emitted first.                                           *)
First(g, x) == IF F(g, x) # 0 THEN F(g, x) ELSE T(g, x)

(* Where the breaks in a block jump to.                                      *)
BreaksOf(code) ==
  {to \in Nat : \E k \in DOMAIN code : code[k].is = "jump" /\ code[k].to = to}
Breaks(g, x) == BreaksOf(Code(g, x))

LoopEnds(g) == {g.loops[k] : k \in DOMAIN g.loops}

WellFormed(g) ==
  /\ g \in Graphs
  /\ \A x \in 1..Newest(g) : T(g, x) \in 0..Newest(g) /\ F(g, x) \in 0..Newest(g)

Alike(g, h, x) ==
  T(h, x) = T(g, x) /\ F(h, x) = F(g, x) /\ Breaks(h, x) = Breaks(g, x)

(* From g to h nothing is changed in the blocks of g, except for those in W. *)
Keeps(g, h, W) ==
  /\ WellFormed(g) /\ WellFormed(h)
  /\ Newest(g) \in Nat /\ Newest(h) \in Nat /\ Newest(g) <= Newest(h)
  /\ \A x \in 1..Newest(g) : x \notin W => Alike(g, h, x)

LEMMA GraphType ==
  ASSUME NEW g \in Graphs
  PROVE  /\ g.blocks \in Seq(BlockType) /\ Newest(g) \in Nat
         /\ DOMAIN g.blocks = 1..Newest(g)
         /\ g.temporaries \in Nat /\ g.loops \in Seq(Nat \ {NoBlock}) /\ g.refused \in BOOLEAN
         /\ \A x \in 1..Newest(g) : /\ g.blocks[x] \in BlockType
                                    /\ T(g, x) \in Nat /\ F(g, x) \in Nat
                                    /\ Code(g, x) \in Seq(Instructions)
<1>1. /\ g.blocks \in Seq(BlockType)
      /\ g.temporaries \in Nat /\ g.loops \in Seq(Nat \ {NoBlock}) /\ g.refused \in BOOLEAN
  BY DEF Graphs, BlockType
<1>2. Newest(g) \in Nat /\ DOMAIN g.blocks = 1..Newest(g)
  BY <1>1 DEF Newest
<1>3. \A x \in 1..Newest(g) : g.blocks[x] \in BlockType
  BY <1>1, <1>2
<1> QED BY <1>1, <1>2, <1>3 DEF BlockType, T, F, Code

WithBlock(g, b, block) == [g EXCEPT !.blocks = [g.blocks EXCEPT ![b] = block]]

LEMMA BlockChanged ==
  ASSUME NEW g \in Graphs, NEW b \in 1..Newest(g), NEW blk \in BlockType,
         NEW h, h = WithBlock(g, b, blk)
  PROVE  /\ h \in Graphs /\ Newest(h) = Newest(g)
         /\ h.loops = g.loops /\ h.temporaries = g.temporaries /\ h.refused = g.refused
         /\ h.blocks[b] = blk
         /\ \A x \in 1..Newest(g) : x # b => h.blocks[x] = g.blocks[x]
<1> DEFINE bs == [g.blocks EXCEPT ![b] = blk]
<1>1. g.blocks \in Seq(BlockType) /\ DOMAIN g.blocks = 1..Newest(g) /\ Newest(g) \in Nat
  BY GraphType
<1>2. bs \in Seq(BlockType) /\ Len(bs) = Newest(g)
  BY <1>1 DEF Newest
<1>3. bs[b] = blk /\ \A x \in 1..Newest(g) : x # b => bs[x] = g.blocks[x]
  BY <1>1
<1> HIDE DEF bs
<1>4. h = [g EXCEPT !.blocks = bs]
  BY DEF bs, WithBlock
<1>5. /\ h.blocks = bs
      /\ h.loops = g.loops /\ h.temporaries = g.temporaries /\ h.refused = g.refused
      /\ h \in Graphs
  BY <1>2, <1>4 DEF Graphs, BlockType
<1> QED BY <1>2, <1>3, <1>5 DEF Newest

LEMMA ExitWhenTrueSet ==
  ASSUME NEW g, WellFormed(g), NEW b \in 1..Newest(g), NEW to \in 0..Newest(g)
  PROVE  LET h == SetExitWhenTrue(g, b, to) IN
         /\ Keeps(g, h, {b}) /\ Newest(h) = Newest(g) /\ h.loops = g.loops
         /\ h.temporaries = g.temporaries
         /\ T(h, b) = to /\ F(h, b) = F(g, b) /\ Breaks(h, b) = Breaks(g, b)
<1> DEFINE h == SetExitWhenTrue(g, b, to)
           blk == [g.blocks[b] EXCEPT !.true = to]
<1>1. g \in Graphs
  BY DEF WellFormed
<1>2. Newest(g) \in Nat /\ g.blocks[b] \in BlockType
  BY <1>1, GraphType
<1>3. blk \in BlockType /\ blk.true = to /\ blk.false = F(g, b) /\ blk.code = Code(g, b)
  BY <1>2 DEF BlockType, F, Code
<1>4. h = WithBlock(g, b, blk)
  BY DEF SetExitWhenTrue, WithBlock
<1> HIDE DEF h, blk
<1>5. /\ h \in Graphs /\ Newest(h) = Newest(g)
      /\ h.loops = g.loops /\ h.temporaries = g.temporaries
      /\ h.blocks[b] = blk
      /\ \A x \in 1..Newest(g) : x # b => h.blocks[x] = g.blocks[x]
  BY <1>1, <1>3, <1>4, BlockChanged
<1>6. T(h, b) = to /\ F(h, b) = F(g, b) /\ Breaks(h, b) = Breaks(g, b)
  BY <1>3, <1>5 DEF T, F, Code, Breaks
<1>7. \A x \in 1..Newest(g) : x # b => Alike(g, h, x)
  BY <1>5 DEF Alike, T, F, Code, Breaks
<1>8. WellFormed(h)
  BY <1>5, <1>6, <1>7 DEF WellFormed, Alike
<1> QED BY <1>2, <1>5, <1>6, <1>7, <1>8 DEF Keeps, h

LEMMA ExitWhenFalseSet ==
  ASSUME NEW g, WellFormed(g), NEW b \in 1..Newest(g), NEW to \in 0..Newest(g)
  PROVE  LET h == SetExitWhenFalse(g, b, to) IN
         /\ Keeps(g, h, {b}) /\ Newest(h) = Newest(g) /\ h.loops = g.loops
         /\ h.temporaries = g.temporaries
         /\ T(h, b) = T(g, b) /\ F(h, b) = to /\ Breaks(h, b) = Breaks(g, b)
<1> DEFINE h == SetExitWhenFalse(g, b, to)
           blk == [g.blocks[b] EXCEPT !.false = to]
<1>1. g \in Graphs
  BY DEF WellFormed
<1>2. Newest(g) \in Nat /\ g.blocks[b] \in BlockType
  BY <1>1, GraphType
<1>3. blk \in BlockType /\ blk.true = T(g, b) /\ blk.false = to /\ blk.code = Code(g, b)
  BY <1>2 DEF BlockType, T, Code
<1>4. h = WithBlock(g, b, blk)
  BY DEF SetExitWhenFalse, WithBlock
<1> HIDE DEF h, blk
<1>5. /\ h \in Graphs /\ Newest(h) = Newest(g)
      /\ h.loops = g.loops /\ h.temporaries = g.temporaries
      /\ h.blocks[b] = blk
      /\ \A x \in 1..Newest(g) : x # b => h.blocks[x] = g.blocks[x]
  BY <1>1, <1>3, <1>4, BlockChanged
<1>6. T(h, b) = T(g, b) /\ F(h, b) = to /\ Breaks(h, b) = Breaks(g, b)
  BY <1>3, <1>5 DEF T, F, Code, Breaks
<1>7. \A x \in 1..Newest(g) : x # b => Alike(g, h, x)
  BY <1>5 DEF Alike, T, F, Code, Breaks
<1>8. WellFormed(h)
  BY <1>5, <1>6, <1>7 DEF WellFormed, Alike
<1> QED BY <1>2, <1>5, <1>6, <1>7, <1>8 DEF Keeps, h

LEMMA BreaksAppended ==
  ASSUME NEW code \in Seq(Instructions), NEW i \in Instructions
  PROVE  BreaksOf(Append(code, i)) =
           BreaksOf(code) \union (IF i.is = "jump" THEN {i.to} ELSE {})
<1> DEFINE c == Append(code, i)
<1>1. DOMAIN c = 1..(Len(code) + 1) /\ DOMAIN code = 1..Len(code) /\ Len(code) \in Nat
  OBVIOUS
<1>2. c[Len(code) + 1] = i /\ \A k \in 1..Len(code) : c[k] = code[k]
  OBVIOUS
<1>3. i.is = "jump" => i.to \in Nat
  BY DEF Instructions
<1> HIDE DEF c
<1>4. ASSUME NEW to \in BreaksOf(c)
      PROVE  to \in BreaksOf(code) \union (IF i.is = "jump" THEN {i.to} ELSE {})
  <2>1. PICK k \in DOMAIN c : c[k].is = "jump" /\ c[k].to = to
    BY <1>4 DEF BreaksOf
  <2>2. CASE k = Len(code) + 1
    BY <1>2, <2>1, <2>2
  <2>3. CASE k # Len(code) + 1
    <3>1. k \in DOMAIN code /\ c[k] = code[k]
      BY <1>1, <1>2, <2>3
    <3> QED BY <1>4, <2>1, <3>1 DEF BreaksOf
  <2> QED BY <2>2, <2>3
<1>5. ASSUME NEW to \in BreaksOf(code)
      PROVE  to \in BreaksOf(c)
  <2>1. PICK k \in DOMAIN code : code[k].is = "jump" /\ code[k].to = to
    BY <1>5 DEF BreaksOf
  <2>2. k \in DOMAIN c /\ c[k] = code[k]
    BY <1>1, <1>2
  <2> QED BY <1>5, <2>1, <2>2 DEF BreaksOf
<1>6. ASSUME i.is = "jump" PROVE i.to \in BreaksOf(c)
  <2>1. Len(code) + 1 \in DOMAIN c
    BY <1>1
  <2> QED BY <1>2, <1>3, <1>6, <2>1 DEF BreaksOf
<1> QED BY <1>4, <1>5, <1>6 DEF c

LEMMA InstructionAdded ==
  ASSUME NEW g, WellFormed(g), NEW b \in 1..Newest(g), NEW i \in Instructions
  PROVE  LET h == AddInstruction(g, b, i) IN
         /\ Keeps(g, h, {b}) /\ Newest(h) = Newest(g) /\ h.loops = g.loops
         /\ h.temporaries = g.temporaries
         /\ T(h, b) = T(g, b) /\ F(h, b) = F(g, b)
         /\ Breaks(h, b) = Breaks(g, b) \union (IF i.is = "jump" THEN {i.to} ELSE {})
         /\ Code(h, b) = Append(Code(g, b), i)
<1> DEFINE h == AddInstruction(g, b, i)
           blk == [g.blocks[b] EXCEPT !.code = Append(Code(g, b), i)]
<1>1. g \in Graphs
  BY DEF WellFormed
<1>2. Newest(g) \in Nat /\ g.blocks[b] \in BlockType /\ Code(g, b) \in Seq(Instructions)
  BY <1>1, GraphType
<1> DEFINE code == Append(Code(g, b), i)
<1>0. code \in Seq(Instructions)
  BY <1>2
<1> HIDE DEF code
<1>3. /\ blk \in BlockType /\ blk.true = T(g, b) /\ blk.false = F(g, b)
      /\ blk.code = Append(Code(g, b), i)
  BY <1>0, <1>2 DEF BlockType, T, F, code
<1>4. h = WithBlock(g, b, blk)
  BY DEF AddInstruction, WithBlock, Code
<1> HIDE DEF h, blk
<1>5. /\ h \in Graphs /\ Newest(h) = Newest(g)
      /\ h.loops = g.loops /\ h.temporaries = g.temporaries
      /\ h.blocks[b] = blk
      /\ \A x \in 1..Newest(g) : x # b => h.blocks[x] = g.blocks[x]
  BY <1>1, <1>3, <1>4, BlockChanged
<1>6. T(h, b) = T(g, b) /\ F(h, b) = F(g, b) /\ Code(h, b) = Append(Code(g, b), i)
  BY <1>3, <1>5 DEF T, F, Code
<1>7. Breaks(h, b) = Breaks(g, b) \union (IF i.is = "jump" THEN {i.to} ELSE {})
  BY <1>2, <1>6, BreaksAppended DEF Breaks
<1>8. \A x \in 1..Newest(g) : x # b => Alike(g, h, x)
  BY <1>5 DEF Alike, T, F, Code, Breaks
<1>9. WellFormed(h)
  BY <1>5, <1>6, <1>8 DEF WellFormed, Alike
<1> QED BY <1>2, <1>5, <1>6, <1>7, <1>8, <1>9 DEF Keeps, h

LEMMA BlocksMade ==
  ASSUME NEW g, WellFormed(g), NEW n \in Nat
  PROVE  LET h == NewBlocks(g, n) IN
         /\ Keeps(g, h, {}) /\ Newest(h) = Newest(g) + n /\ h.loops = g.loops
         /\ \A x \in (Newest(g) + 1)..(Newest(g) + n) :
              T(h, x) = 0 /\ F(h, x) = 0 /\ Breaks(h, x) = {}
<1> DEFINE h == NewBlocks(g, n)
           old == g.blocks
           more == [i \in 1..n |-> Block]
           bs == old \o more
<1>1. g \in Graphs
  BY DEF WellFormed
<1>2. old \in Seq(BlockType) /\ Newest(g) \in Nat /\ Len(old) = Newest(g)
  BY <1>1, GraphType DEF Newest
<1>3. Block \in BlockType /\ Block.true = 0 /\ Block.false = 0 /\ BreaksOf(Block.code) = {}
  BY DEF Block, BlockType, BreaksOf
<1> HIDE DEF old
<1>4. more \in Seq(BlockType) /\ Len(more) = n /\ \A x \in 1..n : more[x] = Block
  BY <1>3
<1> HIDE DEF more
<1>5. /\ bs \in Seq(BlockType) /\ Len(bs) = Newest(g) + n
      /\ \A x \in 1..Newest(g) : bs[x] = old[x]
      /\ \A x \in (Newest(g) + 1)..(Newest(g) + n) : bs[x] = Block
  BY <1>2, <1>4
<1>6. h = [g EXCEPT !.blocks = bs]
  BY DEF NewBlocks, bs, old, more
<1> HIDE DEF h, bs
<1>7. h \in Graphs /\ h.blocks = bs /\ h.loops = g.loops
  BY <1>1, <1>5, <1>6 DEF Graphs, BlockType
<1>8. Newest(h) = Newest(g) + n
  BY <1>5, <1>7 DEF Newest
<1>9. \A x \in 1..Newest(g) : Alike(g, h, x)
  BY <1>5, <1>7 DEF Alike, T, F, Code, Breaks, old
<1>10. \A x \in (Newest(g) + 1)..(Newest(g) + n) :
         T(h, x) = 0 /\ F(h, x) = 0 /\ Breaks(h, x) = {}
  BY <1>3, <1>5, <1>7 DEF T, F, Code, Breaks
<1>11. WellFormed(h)
  <2> SUFFICES ASSUME NEW x \in 1..Newest(h)
               PROVE  T(h, x) \in 0..Newest(h) /\ F(h, x) \in 0..Newest(h)
    BY <1>7 DEF WellFormed
  <2>1. CASE x \in 1..Newest(g)
    BY <1>2, <1>8, <1>9, <2>1 DEF WellFormed, Alike
  <2>2. CASE x \notin 1..Newest(g)
    <3>1. x \in (Newest(g) + 1)..(Newest(g) + n)
      BY <1>2, <1>8, <2>2
    <3> QED BY <1>2, <1>8, <1>10, <3>1
  <2> QED BY <2>1, <2>2
<1> QED BY <1>2, <1>7, <1>8, <1>9, <1>10, <1>11 DEF Keeps, h

(* What does not touch the blocks.                                           *)
LEMMA BlocksKept ==
  ASSUME NEW g, WellFormed(g), NEW h \in Graphs, h.blocks = g.blocks
  PROVE  Keeps(g, h, {}) /\ Newest(h) = Newest(g)
<1>1. Newest(h) = Newest(g) /\ Newest(g) \in Nat
  BY GraphType DEF Newest, WellFormed
<1>2. \A x \in 1..Newest(g) : Alike(g, h, x)
  BY DEF Alike, T, F, Code, Breaks
<1>3. WellFormed(h)
  BY <1>1, <1>2 DEF WellFormed, Alike
<1> QED BY <1>1, <1>2, <1>3 DEF Keeps

LEMMA TemporaryMade ==
  ASSUME NEW g, WellFormed(g)
  PROVE  LET h == NewTemporary(g) IN
         /\ Keeps(g, h, {}) /\ Newest(h) = Newest(g) /\ h.loops = g.loops
         /\ h.temporaries = g.temporaries + 1 /\ h.temporaries \in Nat
<1>1. g.temporaries \in Nat /\ g \in Graphs
  BY GraphType DEF WellFormed
<1>2. /\ NewTemporary(g) \in Graphs /\ NewTemporary(g).blocks = g.blocks
      /\ NewTemporary(g).loops = g.loops
      /\ NewTemporary(g).temporaries = g.temporaries + 1
  BY <1>1 DEF NewTemporary, Graphs
<1> QED BY <1>1, <1>2, BlocksKept

LEMMA LoopEndPushed ==
  ASSUME NEW g, WellFormed(g), NEW end \in Nat \ {NoBlock}
  PROVE  LET h == PushLoopEnd(g, end) IN
         /\ Keeps(g, h, {}) /\ Newest(h) = Newest(g)
         /\ h.loops = Append(g.loops, end) /\ g.loops \in Seq(Nat \ {NoBlock})
         /\ LoopEnds(h) = LoopEnds(g) \union {end}
<1> DEFINE h == PushLoopEnd(g, end)
<1>1. g.loops \in Seq(Nat \ {NoBlock}) /\ g \in Graphs
  BY GraphType DEF WellFormed
<1> DEFINE ls == g.loops
           more == Append(ls, end)
<1>0. more \in Seq(Nat \ {NoBlock})
  BY <1>1
<1> HIDE DEF more
<1>2. h \in Graphs /\ h.blocks = g.blocks /\ h.loops = more
  BY <1>0, <1>1 DEF PushLoopEnd, Graphs, more
<1> HIDE DEF ls
<1>3. /\ DOMAIN more = 1..(Len(ls) + 1) /\ DOMAIN ls = 1..Len(ls) /\ Len(ls) \in Nat
      /\ more[Len(ls) + 1] = end
      /\ \A k \in 1..Len(ls) : more[k] = ls[k]
  BY <1>1 DEF ls, more
<1>4. {more[k] : k \in DOMAIN more} = {ls[k] : k \in DOMAIN ls} \union {end}
  <2>1. \A k \in DOMAIN more : more[k] \in {ls[j] : j \in DOMAIN ls} \union {end}
    BY <1>3
  <2>2. \A k \in DOMAIN ls : ls[k] \in {more[j] : j \in DOMAIN more}
    BY <1>3
  <2>3. end \in {more[j] : j \in DOMAIN more}
    BY <1>3
  <2> QED BY <2>1, <2>2, <2>3
<1>5. LoopEnds(h) = LoopEnds(g) \union {end}
  BY <1>2, <1>4 DEF LoopEnds, more, ls
<1> QED BY <1>1, <1>2, <1>5, BlocksKept DEF more, ls

LEMMA LoopEndPopped ==
  ASSUME NEW g, WellFormed(g), NEW ls \in Seq(Nat \ {NoBlock}), NEW end, g.loops = Append(ls, end)
  PROVE  LET h == PopLoopEnd(g) IN
         Keeps(g, h, {}) /\ Newest(h) = Newest(g) /\ h.loops = ls
<1>1. Front(Append(ls, end)) = ls
  BY DEF Front
<1>2. /\ PopLoopEnd(g) \in Graphs /\ PopLoopEnd(g).blocks = g.blocks
      /\ PopLoopEnd(g).loops = ls
  BY <1>1 DEF PopLoopEnd, Graphs, WellFormed
<1> QED BY <1>2, BlocksKept

LEMMA KeepsOn ==
  ASSUME NEW g, NEW h, NEW k, NEW U, NEW V, NEW W, Keeps(g, h, V), Keeps(h, k, W),
         \A x \in 1..Newest(g) : x \in V \/ x \in W => x \in U
  PROVE  Keeps(g, k, U)
  BY DEF Keeps, Alike

LEMMA BothExitsSet ==
  ASSUME NEW g, WellFormed(g), NEW b \in 1..Newest(g),
         NEW yes \in 0..Newest(g), NEW no \in 0..Newest(g)
  PROVE  LET h == SetExits(g, b, yes, no) IN
         /\ Keeps(g, h, {b}) /\ Newest(h) = Newest(g) /\ h.loops = g.loops
         /\ T(h, b) = yes /\ F(h, b) = no /\ Breaks(h, b) = Breaks(g, b)
<1> DEFINE h1 == SetExitWhenTrue(g, b, yes)
           h == SetExitWhenFalse(h1, b, no)
<1>1. /\ Keeps(g, h1, {b}) /\ Newest(h1) = Newest(g) /\ h1.loops = g.loops
      /\ T(h1, b) = yes /\ Breaks(h1, b) = Breaks(g, b)
  BY ExitWhenTrueSet
<1> HIDE DEF h1
<1>2. WellFormed(h1) /\ b \in 1..Newest(h1) /\ no \in 0..Newest(h1)
  BY <1>1 DEF Keeps
<1>3. /\ Keeps(h1, h, {b}) /\ Newest(h) = Newest(h1) /\ h.loops = h1.loops
      /\ T(h, b) = T(h1, b) /\ F(h, b) = no /\ Breaks(h, b) = Breaks(h1, b)
  BY <1>2, ExitWhenFalseSet
<1> HIDE DEF h
<1>4. Keeps(g, h, {b})
  BY <1>1, <1>3, KeepsOn
<1> QED BY <1>1, <1>3, <1>4 DEF SetExits, h, h1

LEMMA ChildMade ==
  ASSUME NEW g, WellFormed(g), NEW b \in 1..Newest(g)
  PROVE  LET h == NewWhenTrueBlock(g, b)
             child == Newest(g) + 1
         IN /\ Keeps(g, h, {b}) /\ Newest(h) = child /\ h.loops = g.loops
            /\ T(h, b) = child /\ F(h, b) = F(g, b) /\ Breaks(h, b) = Breaks(g, b)
            /\ T(h, child) = T(g, b) /\ F(h, child) = F(g, b) /\ Breaks(h, child) = {}
<1> DEFINE child == Newest(g) + 1
           h1 == NewBlocks(g, 1)
           h2 == SetExits(h1, child, T(g, b), F(g, b))
           h == SetExitWhenTrue(h2, b, child)
<1>0. Newest(g) \in Nat /\ T(g, b) \in 0..Newest(g) /\ F(g, b) \in 0..Newest(g)
  BY GraphType DEF WellFormed
<1>1. /\ Keeps(g, h1, {}) /\ Newest(h1) = child /\ h1.loops = g.loops
      /\ Breaks(h1, child) = {}
  <2>1. child \in (Newest(g) + 1)..(Newest(g) + 1)
    BY <1>0
  <2> QED BY <2>1, BlocksMade
<1> HIDE DEF h1
<1>2. /\ WellFormed(h1) /\ child \in 1..Newest(h1)
      /\ T(g, b) \in 0..Newest(h1) /\ F(g, b) \in 0..Newest(h1)
  BY <1>0, <1>1 DEF Keeps
<1>3. /\ Keeps(h1, h2, {child}) /\ Newest(h2) = child /\ h2.loops = g.loops
      /\ T(h2, child) = T(g, b) /\ F(h2, child) = F(g, b) /\ Breaks(h2, child) = {}
  BY <1>1, <1>2, BothExitsSet
<1> HIDE DEF h2
<1>4. WellFormed(h2) /\ b \in 1..Newest(h2) /\ child \in 0..Newest(h2) /\ b # child
  BY <1>0, <1>3 DEF Keeps
<1>5. /\ Keeps(h2, h, {b}) /\ Newest(h) = child /\ h.loops = g.loops
      /\ T(h, b) = child /\ F(h, b) = F(h2, b) /\ Breaks(h, b) = Breaks(h2, b)
  BY <1>3, <1>4, ExitWhenTrueSet
<1> HIDE DEF h
<1>6. Keeps(g, h2, {})
  BY <1>0, <1>1, <1>3, KeepsOn
<1>7. F(h2, b) = F(g, b) /\ Breaks(h2, b) = Breaks(g, b)
  BY <1>6 DEF Keeps, Alike
<1>8. Alike(h2, h, child)
  BY <1>4, <1>5 DEF Keeps
<1>9. Keeps(g, h, {b})
  BY <1>5, <1>6, KeepsOn
<1>10. NewWhenTrueBlock(g, b) = h
  BY DEF NewWhenTrueBlock, h, h2, h1, child, Newest, T, F
<1> HIDE DEF child
<1> QED BY <1>3, <1>5, <1>7, <1>8, <1>9, <1>10 DEF Alike, child

-----------------------------------------------------------------------------
(* Paths along the exits that are emitted first *)

(* From x such a path gets to y, and on its way there only through R.        *)
Leads(g, R, x, y) ==
  \A S \in SUBSET Nat : x \in S /\ (\A z \in S \cap R : First(g, z) \in S) => y \in S

LEMMA LeadsHere ==
  ASSUME NEW g, NEW R, NEW x
  PROVE  Leads(g, R, x, x)
  BY DEF Leads

LEMMA LeadsFrom ==
  ASSUME NEW g, NEW R, NEW x \in R, NEW y, Leads(g, R, First(g, x), y)
  PROVE  Leads(g, R, x, y)
  BY DEF Leads

LEMMA LeadsOn ==
  ASSUME NEW g, NEW R, NEW x, NEW y, NEW z, Leads(g, R, x, y), Leads(g, R, y, z)
  PROVE  Leads(g, R, x, z)
  BY DEF Leads

LEMMA LeadsLater ==
  ASSUME NEW g, NEW h, NEW V, NEW R, NEW Q, NEW x, NEW y,
         Leads(g, R, x, y), Keeps(g, h, V),
         \A z \in R : z \in 1..Newest(g) /\ z \notin V /\ z \in Q
  PROVE  Leads(h, Q, x, y)
<1>1. \A z \in R : First(h, z) = First(g, z)
  BY DEF Keeps, Alike, First
<1> SUFFICES ASSUME NEW S \in SUBSET Nat, x \in S, \A z \in S \cap Q : First(h, z) \in S
             PROVE  y \in S
  BY DEF Leads
<1>2. \A z \in S \cap R : First(g, z) \in S
  BY <1>1
<1> QED BY <1>2 DEF Leads

(* A break in x that jumps to l gets where the code of x leads to, be it the *)
(* end of a loop around, which is one of ends and which e will lead to.      *)
Lands(g, R, x, l, e, ends) ==
  (l \in ends /\ Leads(g, R, x, e)) \/ Leads(g, R, x, l)

LEMMA LandsLater ==
  ASSUME NEW g, NEW h, NEW V, NEW R, NEW Q, NEW x, NEW l, NEW e, NEW d,
         NEW ends, NEW less,
         Lands(g, R, x, l, e, ends), Keeps(g, h, V),
         \A z \in R : z \in 1..Newest(g) /\ z \notin V /\ z \in Q,
         Leads(h, Q, e, d), ends \subseteq less \union {d}
  PROVE  Lands(h, Q, x, l, d, less)
<1>1. CASE l \in ends /\ Leads(g, R, x, e)
  <2>1. Leads(h, Q, x, e)
    BY <1>1, LeadsLater
  <2>2. Leads(h, Q, x, d)
    BY <2>1, LeadsOn
  <2> QED BY <1>1, <2>2 DEF Lands
<1>2. CASE Leads(g, R, x, l)
  BY <1>2, LeadsLater DEF Lands
<1> QED BY <1>1, <1>2 DEF Lands

-----------------------------------------------------------------------------
(* What lowering a tree does *)

New(g, h) == (Newest(g) + 1)..Newest(h)

(* Of a statement added to block b: it goes on in ir.block, which has the    *)
(* exits of b, and the first exits lead there.                               *)
Continues(g, b, ir) ==
  LET h == ir.g
      e == ir.block
      Region == {b} \union New(g, h)
  IN /\ Keeps(g, h, {b}) /\ h.loops = g.loops
     /\ e \in Region
     /\ T(h, e) = T(g, b) /\ F(h, e) = F(g, b)
     /\ Leads(h, Region \ {e}, b, e)
     /\ \A x \in Region : \A l \in Breaks(h, x) :
          \/ x = b /\ l \in Breaks(g, b)
          \/ Lands(h, Region \ {e}, x, l, e, LoopEnds(g))

(* Of an expression: there are no breaks in it.                              *)
Evaluates(g, b, ir) ==
  /\ Continues(g, b, ir)
  /\ \A x \in New(g, ir.g) : Breaks(ir.g, x) = {}
  /\ Breaks(ir.g, b) = Breaks(g, b)
  /\ ir.into \in Nat

(* Of a tree that has blocks of its own: the first exits lead from their     *)
(* beginning to their end, which has no exits.                               *)
Encloses(g, chain) ==
  LET h == chain.g
      e == chain.end
  IN /\ Keeps(g, h, {}) /\ h.loops = g.loops
     /\ chain.begin \in New(g, h) /\ e \in New(g, h)
     /\ T(h, e) = 0 /\ F(h, e) = 0
     /\ Leads(h, New(g, h) \ {e}, chain.begin, e)
     /\ \A x \in New(g, h) : \A l \in Breaks(h, x) :
          Lands(h, New(g, h) \ {e}, x, l, e, LoopEnds(g))

Decides(g, chain) ==
  /\ Encloses(g, chain)
  /\ \A x \in New(g, chain.g) : Breaks(chain.g, x) = {}
  /\ chain.into \in Nat

LEMMA Linked ==
  ASSUME NEW g, NEW b \in 1..Newest(g), F(g, b) = 0, NEW chain, Encloses(g, chain)
  PROVE  Continues(g, b, Link(b, chain))
<1> DEFINE h == chain.g
           begin == chain.begin
           end == chain.end
           h1 == SetExitWhenTrue(h, end, T(h, b))
           h2 == SetExitWhenTrue(h1, b, begin)
           k == NewWhenTrueBlock(h2, end)
           child == Newest(h) + 1
           Region == {b} \union New(g, k)
<1>1. /\ Keeps(g, h, {}) /\ h.loops = g.loops
      /\ begin \in New(g, h) /\ end \in New(g, h)
      /\ T(h, end) = 0 /\ F(h, end) = 0
      /\ Leads(h, New(g, h) \ {end}, begin, end)
      /\ \A x \in New(g, h) : \A l \in Breaks(h, x) :
           Lands(h, New(g, h) \ {end}, x, l, end, LoopEnds(g))
  BY DEF Encloses
<1> HIDE DEF h, begin, end
<1>2. /\ Newest(g) \in Nat /\ Newest(h) \in Nat /\ Newest(g) < Newest(h) /\ WellFormed(h)
      /\ b \in 1..Newest(h) /\ end \in 1..Newest(h) /\ begin \in 1..Newest(h)
      /\ b # end /\ begin # 0 /\ Alike(g, h, b)
      /\ T(h, b) \in 0..Newest(h)
  BY <1>1 DEF Keeps, New, WellFormed
<1>3. /\ Keeps(h, h1, {end}) /\ Newest(h1) = Newest(h) /\ h1.loops = h.loops
      /\ T(h1, end) = T(h, b) /\ F(h1, end) = 0 /\ Breaks(h1, end) = Breaks(h, end)
  BY <1>1, <1>2, ExitWhenTrueSet
<1> HIDE DEF h1
<1>4. WellFormed(h1) /\ b \in 1..Newest(h1) /\ begin \in 0..Newest(h1) /\ Alike(h, h1, b)
  BY <1>2, <1>3 DEF Keeps
<1>5. /\ Keeps(h1, h2, {b}) /\ Newest(h2) = Newest(h) /\ h2.loops = h.loops
      /\ T(h2, b) = begin /\ F(h2, b) = F(h1, b) /\ Breaks(h2, b) = Breaks(h1, b)
  BY <1>3, <1>4, ExitWhenTrueSet
<1> HIDE DEF h2
<1>6. WellFormed(h2) /\ end \in 1..Newest(h2) /\ Alike(h1, h2, end)
  BY <1>2, <1>3, <1>5 DEF Keeps
<1>7. /\ Keeps(h2, k, {end}) /\ Newest(k) = child /\ k.loops = h.loops
      /\ T(k, end) = child /\ F(k, end) = 0 /\ Breaks(k, end) = Breaks(h, end)
      /\ T(k, child) = T(h, b) /\ F(k, child) = 0 /\ Breaks(k, child) = {}
  BY <1>3, <1>5, <1>6, ChildMade DEF Alike
<1> HIDE DEF k
<1>8. Alike(h2, k, b)
  BY <1>2, <1>5, <1>7 DEF Keeps
<1>9. Keeps(h, k, {b, end})
  <2>1. Keeps(h, h2, {b, end})
    BY <1>3, <1>5, KeepsOn
  <2> QED BY <2>1, <1>7, KeepsOn
<1>10. Keeps(g, k, {b})
  BY <1>1, <1>2, <1>9, KeepsOn DEF New
<1>11. child \in Region /\ New(g, h) \subseteq Region \ {child} /\ b \in Region \ {child}
  BY <1>1, <1>2, <1>7 DEF New
<1>12. \A x \in Region : x = b \/ x = child \/ x \in New(g, h)
  BY <1>2, <1>7 DEF New
<1>13. \A z \in New(g, h) \ {end} :
         z \in 1..Newest(h) /\ z \notin {b, end} /\ z \in Region \ {child}
  BY <1>2, <1>11 DEF New
<1>14. Leads(k, Region \ {child}, end, child)
  <2>1. end \in Region \ {child} /\ First(k, end) = child
    BY <1>1, <1>7, <1>11 DEF First
  <2> QED BY <2>1, LeadsFrom, LeadsHere
<1>15. Leads(k, Region \ {child}, b, child)
  <2>1. First(k, b) = begin
    BY <1>2, <1>4, <1>5, <1>8 DEF First, Alike
  <2>2. Leads(k, Region \ {child}, begin, end)
    BY <1>1, <1>9, <1>13, LeadsLater
  <2>3. Leads(k, Region \ {child}, begin, child)
    BY <1>14, <2>2, LeadsOn
  <2> QED BY <1>11, <2>1, <2>3, LeadsFrom
<1>16. ASSUME NEW x \in Region, NEW l \in Breaks(k, x)
       PROVE  \/ x = b /\ l \in Breaks(g, b)
              \/ Lands(k, Region \ {child}, x, l, child, LoopEnds(g))
  <2>1. CASE x = b
    BY <1>2, <1>4, <1>5, <1>8, <1>16, <2>1 DEF Alike
  <2>2. CASE x = child
    BY <1>7, <1>16, <2>2
  <2>3. CASE x \in New(g, h)
    <3>1. Breaks(k, x) = Breaks(h, x)
      <4>1. CASE x = end
        BY <1>7, <4>1
      <4>2. CASE x # end
        BY <1>9, <1>13, <2>3, <4>2 DEF Keeps, Alike
      <4> QED BY <4>1, <4>2
    <3>2. Lands(h, New(g, h) \ {end}, x, l, end, LoopEnds(g))
      BY <1>1, <1>16, <2>3, <3>1
    <3> QED BY <1>9, <1>13, <1>14, <3>2, LandsLater
  <2> QED BY <1>12, <2>1, <2>2, <2>3
<1>17. T(k, child) = T(g, b) /\ F(k, child) = F(g, b) /\ k.loops = g.loops
  BY <1>1, <1>2, <1>7 DEF Alike
<1>18. Link(b, chain) = [g |-> k, block |-> child]
  <2>1. Link(b, chain) = [g |-> k, block |-> Newest(k)]
    BY DEF Link, k, h2, h1, h, begin, end, T
  <2> QED BY <1>7, <2>1
<1> HIDE DEF child, Region
<1> QED BY <1>10, <1>11, <1>15, <1>16, <1>17, <1>18 DEF Continues, Region

LEMMA Inserted ==
  ASSUME NEW g, NEW b \in 1..Newest(g), NEW chain, Decides(g, chain)
  PROVE  Evaluates(g, b, InsertChain(b, chain))
<1> DEFINE h == chain.g
           begin == chain.begin
           end == chain.end
           empty == [is |-> "empty", into |-> chain.into]
           h1 == SetExits(h, end, T(h, b), F(h, b))
           h2 == SetExits(h1, b, begin, 0)
           k == AddInstruction(h2, end, empty)
           Region == {b} \union New(g, k)
<1>1. /\ Keeps(g, h, {}) /\ h.loops = g.loops
      /\ begin \in New(g, h) /\ end \in New(g, h)
      /\ T(h, end) = 0 /\ F(h, end) = 0
      /\ Leads(h, New(g, h) \ {end}, begin, end)
      /\ \A x \in New(g, h) : Breaks(h, x) = {}
      /\ chain.into \in Nat
  BY DEF Decides, Encloses
<1>2. InsertChain(b, chain) = [g |-> k, block |-> end, into |-> chain.into]
  <2>1. /\ (IF T(h, b) # 0 THEN T(h, b) ELSE T(h, end)) = T(h, b)
        /\ (IF F(h, b) # 0 THEN F(h, b) ELSE F(h, end)) = F(h, b)
    BY <1>1
  <2> QED BY <2>1, Zenon DEF InsertChain, k, h2, h1, h, begin, end, empty, T, F
<1> HIDE DEF h, begin, end
<1>3. /\ Newest(g) \in Nat /\ Newest(h) \in Nat /\ Newest(g) < Newest(h) /\ WellFormed(h)
      /\ b \in 1..Newest(h) /\ end \in 1..Newest(h) /\ begin \in 1..Newest(h)
      /\ b # end /\ begin # 0 /\ Alike(g, h, b)
      /\ T(h, b) \in 0..Newest(h) /\ F(h, b) \in 0..Newest(h)
  BY <1>1 DEF Keeps, New, WellFormed
<1>4. empty \in Instructions /\ empty.is # "jump"
  BY <1>1 DEF Instructions
<1> HIDE DEF empty
<1>5. /\ Keeps(h, h1, {end}) /\ Newest(h1) = Newest(h) /\ h1.loops = h.loops
      /\ T(h1, end) = T(h, b) /\ F(h1, end) = F(h, b) /\ Breaks(h1, end) = {}
  BY <1>1, <1>3, BothExitsSet
<1> HIDE DEF h1
<1>6. WellFormed(h1) /\ b \in 1..Newest(h1) /\ begin \in 0..Newest(h1) /\ 0 \in 0..Newest(h1)
      /\ Alike(h, h1, b)
  BY <1>3, <1>5 DEF Keeps
<1>7. /\ Keeps(h1, h2, {b}) /\ Newest(h2) = Newest(h) /\ h2.loops = h.loops
      /\ T(h2, b) = begin /\ F(h2, b) = 0 /\ Breaks(h2, b) = Breaks(h1, b)
  BY <1>5, <1>6, BothExitsSet
<1> HIDE DEF h2
<1>8. WellFormed(h2) /\ end \in 1..Newest(h2) /\ Alike(h1, h2, end)
  BY <1>3, <1>5, <1>7 DEF Keeps
<1>9. /\ Keeps(h2, k, {end}) /\ Newest(k) = Newest(h) /\ k.loops = h.loops
      /\ T(k, end) = T(h, b) /\ F(k, end) = F(h, b) /\ Breaks(k, end) = {}
  <2>1. /\ Keeps(h2, k, {end}) /\ Newest(k) = Newest(h2) /\ k.loops = h2.loops
        /\ T(k, end) = T(h2, end) /\ F(k, end) = F(h2, end)
        /\ Breaks(k, end) = Breaks(h2, end) \union
                             (IF empty.is = "jump" THEN {empty.to} ELSE {})
    BY <1>4, <1>8, InstructionAdded
  <2> QED BY <1>4, <1>5, <1>7, <1>8, <2>1 DEF Alike
<1> HIDE DEF k
<1>10. Alike(h2, k, b)
  BY <1>3, <1>7, <1>9 DEF Keeps
<1>11. Keeps(h, k, {b, end})
  <2>1. Keeps(h, h2, {b, end})
    BY <1>5, <1>7, KeepsOn
  <2> QED BY <2>1, <1>9, KeepsOn
<1>12. Keeps(g, k, {b})
  BY <1>1, <1>3, <1>11, KeepsOn DEF New
<1>13. \A x \in Region : x = b \/ x \in New(g, h)
  BY <1>3, <1>9 DEF New
<1>14. \A z \in New(g, h) \ {end} :
         z \in 1..Newest(h) /\ z \notin {b, end} /\ z \in Region \ {end}
  BY <1>3, <1>9 DEF New
<1>15. end \in Region /\ b \in Region \ {end}
  BY <1>1, <1>3, <1>9 DEF New
<1>16. Leads(k, Region \ {end}, b, end)
  <2>1. First(k, b) = begin
    BY <1>3, <1>7, <1>10 DEF First, Alike
  <2>2. Leads(k, Region \ {end}, begin, end)
    BY <1>1, <1>11, <1>14, LeadsLater
  <2> QED BY <1>15, <2>1, <2>2, LeadsFrom
<1>17. \A x \in New(g, k) : Breaks(k, x) = {}
  <2> SUFFICES ASSUME NEW x \in New(g, k) PROVE Breaks(k, x) = {}
    OBVIOUS
  <2>1. x \in New(g, h)
    BY <1>9 DEF New
  <2>2. CASE x = end
    BY <1>9, <2>2
  <2>3. CASE x # end
    BY <1>1, <1>11, <1>14, <2>1, <2>3 DEF Keeps, Alike
  <2> QED BY <2>2, <2>3
<1>18. Breaks(k, b) = Breaks(g, b)
  BY <1>3, <1>6, <1>7, <1>10 DEF Alike
<1>19. T(k, end) = T(g, b) /\ F(k, end) = F(g, b) /\ k.loops = g.loops
  BY <1>1, <1>3, <1>9 DEF Alike
<1>20. \A x \in Region : \A l \in Breaks(k, x) : x = b /\ l \in Breaks(g, b)
  BY <1>17, <1>18
<1> HIDE DEF Region
<1> DEFINE ir == [g |-> k, block |-> end, into |-> chain.into]
<1>21. ir.g = k /\ ir.block = end /\ ir.into = chain.into
  OBVIOUS
<1> HIDE DEF ir
<1>22. Continues(g, b, ir)
  BY <1>12, <1>15, <1>16, <1>19, <1>20, <1>21 DEF Continues, Region
<1>23. Evaluates(g, b, ir)
  BY <1>1, <1>17, <1>18, <1>21, <1>22 DEF Evaluates
<1> QED BY <1>2, <1>23 DEF ir

(* One statement after the other.                                            *)
LEMMA ContinuesOn ==
  ASSUME NEW g, NEW b \in 1..Newest(g), NEW ir, NEW next,
         Continues(g, b, ir), Continues(ir.g, ir.block, next)
  PROVE  Continues(g, b, next)
<1> DEFINE h == ir.g
           c == ir.block
           k == next.g
           e == next.block
           RegionH == {b} \union New(g, h)
           RegionK == {c} \union New(h, k)
           Region == {b} \union New(g, k)
<1>1. /\ Keeps(g, h, {b}) /\ h.loops = g.loops
      /\ c \in RegionH
      /\ T(h, c) = T(g, b) /\ F(h, c) = F(g, b)
      /\ Leads(h, RegionH \ {c}, b, c)
      /\ \A x \in RegionH : \A l \in Breaks(h, x) :
           \/ x = b /\ l \in Breaks(g, b)
           \/ Lands(h, RegionH \ {c}, x, l, c, LoopEnds(g))
  BY DEF Continues
<1>2. /\ Keeps(h, k, {c}) /\ k.loops = h.loops
      /\ e \in RegionK
      /\ T(k, e) = T(h, c) /\ F(k, e) = F(h, c)
      /\ Leads(k, RegionK \ {e}, c, e)
      /\ \A x \in RegionK : \A l \in Breaks(k, x) :
           \/ x = c /\ l \in Breaks(h, c)
           \/ Lands(k, RegionK \ {e}, x, l, e, LoopEnds(h))
  BY DEF Continues
<1>3. LoopEnds(h) = LoopEnds(g)
  BY <1>1 DEF LoopEnds
<1> HIDE DEF h, c, k, e
<1>4. /\ Newest(g) \in Nat /\ Newest(h) \in Nat /\ Newest(k) \in Nat
      /\ Newest(g) <= Newest(h) /\ Newest(h) <= Newest(k)
      /\ c \in 1..Newest(h) /\ e \in 1..Newest(k)
  BY <1>1, <1>2 DEF Keeps, New
<1>5. Keeps(g, k, {b})
  BY <1>1, <1>2, <1>4, KeepsOn DEF New
<1>6. e \in Region /\ \A x \in Region : x \in RegionH \/ x \in RegionK
  BY <1>1, <1>2, <1>4 DEF New
<1>7. \A z \in RegionH \ {c} : z \in 1..Newest(h) /\ z \notin {c} /\ z \in Region \ {e}
  BY <1>1, <1>2, <1>4 DEF New
<1>8. \A z \in RegionK \ {e} : z \in 1..Newest(k) /\ z \notin {} /\ z \in Region \ {e}
  BY <1>1, <1>2, <1>4 DEF New
<1>9. Keeps(k, k, {})
  BY <1>2 DEF Keeps, Alike
<1>10. Leads(k, Region \ {e}, c, e)
  BY <1>2, <1>8, <1>9, LeadsLater
<1>11. Leads(k, Region \ {e}, b, e)
  <2>1. Leads(k, Region \ {e}, b, c)
    BY <1>1, <1>2, <1>7, LeadsLater
  <2> QED BY <1>10, <2>1, LeadsOn
<1>12. ASSUME NEW x \in RegionH, NEW l \in Breaks(h, x)
       PROVE  \/ x = b /\ l \in Breaks(g, b)
              \/ Lands(k, Region \ {e}, x, l, e, LoopEnds(g))
  <2>1. CASE x = b /\ l \in Breaks(g, b)
    BY <2>1
  <2>2. CASE Lands(h, RegionH \ {c}, x, l, c, LoopEnds(g))
    <3>1. Lands(k, Region \ {e}, x, l, e, LoopEnds(g))
      BY <1>2, <1>7, <1>10, <2>2, LandsLater
    <3> QED BY <3>1
  <2> QED BY <1>1, <1>12, <2>1, <2>2
<1>13. ASSUME NEW x \in Region, NEW l \in Breaks(k, x)
       PROVE  \/ x = b /\ l \in Breaks(g, b)
              \/ Lands(k, Region \ {e}, x, l, e, LoopEnds(g))
  <2>1. CASE x \in RegionK
    <3>1. CASE x = c /\ l \in Breaks(h, c)
      BY <1>1, <1>12, <3>1
    <3>2. CASE Lands(k, RegionK \ {e}, x, l, e, LoopEnds(h))
      <4>1. Leads(k, Region \ {e}, e, e)
        BY LeadsHere
      <4>2. Lands(k, Region \ {e}, x, l, e, LoopEnds(g))
        BY <1>3, <1>8, <1>9, <3>2, <4>1, LandsLater
      <4> QED BY <4>2
    <3> QED BY <1>2, <1>13, <2>1, <3>1, <3>2
  <2>2. CASE x \in RegionH /\ x \notin RegionK
    <3>1. x \in 1..Newest(h) /\ x # c
      BY <1>1, <1>4, <2>2 DEF New
    <3>2. l \in Breaks(h, x)
      BY <1>2, <1>13, <3>1 DEF Keeps, Alike
    <3> QED BY <1>12, <2>2, <3>2
  <2> QED BY <1>6, <2>1, <2>2
<1>14. T(k, e) = T(g, b) /\ F(k, e) = F(g, b) /\ k.loops = g.loops
  BY <1>1, <1>2
<1> HIDE DEF Region
<1> QED BY <1>5, <1>6, <1>11, <1>13, <1>14 DEF Continues, Region, k, e

(* What stays in its block.                                                  *)
LEMMA StaysInBlock ==
  ASSUME NEW g, WellFormed(g), NEW b \in 1..Newest(g), NEW ir, ir.block = b,
         Keeps(g, ir.g, {b}), Newest(ir.g) = Newest(g), ir.g.loops = g.loops,
         T(ir.g, b) = T(g, b), F(ir.g, b) = F(g, b),
         \A l \in Breaks(ir.g, b) : l \in Breaks(g, b) \/ l \in LoopEnds(g)
  PROVE  Continues(g, b, ir)
<1> DEFINE h == ir.g
           Region == {b} \union New(g, h)
<1>1. Region = {b}
  BY DEF New, Keeps
<1>2. \A R : Leads(h, R, b, b)
  BY LeadsHere
<1>3. \A x \in Region : \A l \in Breaks(h, x) :
        \/ x = b /\ l \in Breaks(g, b)
        \/ Lands(h, Region \ {b}, x, l, b, LoopEnds(g))
  BY <1>1, <1>2 DEF Lands
<1>4. b \in Region /\ Leads(h, Region \ {b}, b, b)
  BY <1>2
<1> HIDE DEF Region
<1> QED BY <1>3, <1>4 DEF Continues, Region

-----------------------------------------------------------------------------
(* Syntax: the recursive functions are what their equations say *)

ExpressionsOver(parts) ==
  [is : {"atom"}, name : Names]
  \union [is : {"not"}, of : parts]
  \union [is : {"and", "or"}, left : parts, right : parts]

StatementsOver(expressions, parts, bodies) ==
  expressions
  \union {Break}
  \union [is : {"return"}, value : {v \in Seq(parts) : Len(v) <= 1}]
  \union [is : {"if"}, cond : parts, then : bodies, else : bodies]
  \union [is : {"while", "do"}, cond : parts, body : bodies]
  \union [is : {"for"}, begin : parts, end : parts, step : parts, body : bodies]

LEMMA ExpressionsAt ==
  /\ Expressions[0] = {}
  /\ \A n \in 1..Depth : Expressions[n] = ExpressionsOver(Expressions[n - 1])
<1> DEFINE Value(n, below) == IF n = 0 THEN {} ELSE ExpressionsOver(below)
           Upto(f, m) == f = [n \in 0..m |-> Value(n, f[n - 1])]
           P == {m \in Nat : \E f : Upto(f, m)}
<1>0. \A v, w : Value(0, v) = Value(0, w)
  BY DEF Value
<1> HIDE DEF Value
<1>1. 0 \in P
  <2> DEFINE f == [n \in 0..0 |-> Value(0, 0)]
  <2>1. \A n \in 0..0 : f[n] = Value(n, f[n - 1])
    BY <1>0
  <2>2. f = [n \in 0..0 |-> f[n]]
    OBVIOUS
  <2> HIDE DEF f
  <2>3. Upto(f, 0)
    BY <2>1, <2>2
  <2> QED BY <2>3
<1>2. ASSUME NEW m \in Nat, m \in P PROVE m + 1 \in P
  <2>1. PICK f : Upto(f, m)
    BY <1>2
  <2> DEFINE last == Value(m + 1, f[m])
             h == [n \in 0..(m + 1) |-> IF n = m + 1 THEN last ELSE f[n]]
  <2>2. \A n \in 0..m : f[n] = Value(n, f[n - 1])
    BY <2>1
  <2>3. ASSUME NEW n \in 0..(m + 1) PROVE h[n] = Value(n, h[n - 1])
    <3>1. CASE n = m + 1
      <4>1. n - 1 \in 0..(m + 1) /\ n - 1 = m /\ n - 1 # m + 1
        BY <3>1
      <4>2. h[n - 1] = f[m] /\ h[n] = last
        BY <3>1, <4>1
      <4> QED BY <3>1, <4>2
    <3>2. CASE n = 0
      <4>1. h[n] = f[n] /\ f[n] = Value(n, f[n - 1])
        BY <2>2, <3>2
      <4> QED BY <1>0, <3>2, <4>1
    <3>3. CASE n # m + 1 /\ n # 0
      <4>1. n \in 0..m /\ n - 1 \in 0..(m + 1) /\ n - 1 # m + 1
        BY <3>3
      <4>2. h[n] = f[n] /\ h[n - 1] = f[n - 1]
        BY <3>3, <4>1
      <4> QED BY <2>2, <4>1, <4>2
    <3> QED BY <3>1, <3>2, <3>3
  <2> HIDE DEF last
  <2>4. h = [n \in 0..(m + 1) |-> h[n]]
    OBVIOUS
  <2> HIDE DEF h
  <2>5. Upto(h, m + 1)
    BY <2>3, <2>4
  <2> QED BY <2>5
<1> HIDE DEF P
<1>3. Depth \in P
  BY <1>1, <1>2, Induction, DepthAssumption
<1>4. PICK f : Upto(f, Depth)
  BY <1>3 DEF P
<1>5. Expressions = CHOOSE e : Upto(e, Depth)
  BY DEF Expressions, ExpressionsOver, Value
<1>6. Upto(Expressions, Depth)
  BY <1>4, <1>5
<1>7. \A n \in 0..Depth : Expressions[n] = Value(n, Expressions[n - 1])
  BY <1>6
<1> HIDE DEF Upto
<1>8. Expressions[0] = {}
  <2>1. 0 \in 0..Depth
    BY DepthAssumption
  <2>2. Expressions[0] = Value(0, Expressions[0 - 1])
    BY <1>7, <2>1
  <2> QED BY <2>2, Zenon DEF Value
<1>9. ASSUME NEW n \in 1..Depth PROVE Expressions[n] = ExpressionsOver(Expressions[n - 1])
  <2>1. n \in 0..Depth /\ n # 0
    BY DepthAssumption
  <2>2. Expressions[n] = Value(n, Expressions[n - 1])
    BY <1>7, <2>1
  <2> QED BY <2>1, <2>2, Zenon DEF Value
<1> QED BY <1>8, <1>9

LEMMA StatementsAt ==
  /\ Statements[0] = {}
  /\ \A n \in 1..Depth :
       Statements[n] =
         StatementsOver(Expressions[n], Expressions[n - 1], Seq(Statements[n - 1]))
<1> DEFINE Value(n, below) == IF n = 0 THEN {}
                               ELSE StatementsOver(Expressions[n], Expressions[n - 1], Seq(below))
           Upto(f, m) == f = [n \in 0..m |-> Value(n, f[n - 1])]
           P == {m \in Nat : \E f : Upto(f, m)}
<1>0. \A v, w : Value(0, v) = Value(0, w)
  BY DEF Value
<1> HIDE DEF Value
<1>1. 0 \in P
  <2> DEFINE f == [n \in 0..0 |-> Value(0, 0)]
  <2>1. \A n \in 0..0 : f[n] = Value(n, f[n - 1])
    BY <1>0
  <2>2. f = [n \in 0..0 |-> f[n]]
    OBVIOUS
  <2> HIDE DEF f
  <2>3. Upto(f, 0)
    BY <2>1, <2>2
  <2> QED BY <2>3
<1>2. ASSUME NEW m \in Nat, m \in P PROVE m + 1 \in P
  <2>1. PICK f : Upto(f, m)
    BY <1>2
  <2> DEFINE last == Value(m + 1, f[m])
             h == [n \in 0..(m + 1) |-> IF n = m + 1 THEN last ELSE f[n]]
  <2>2. \A n \in 0..m : f[n] = Value(n, f[n - 1])
    BY <2>1
  <2>3. ASSUME NEW n \in 0..(m + 1) PROVE h[n] = Value(n, h[n - 1])
    <3>1. CASE n = m + 1
      <4>1. n - 1 \in 0..(m + 1) /\ n - 1 = m /\ n - 1 # m + 1
        BY <3>1
      <4>2. h[n - 1] = f[m] /\ h[n] = last
        BY <3>1, <4>1
      <4> QED BY <3>1, <4>2
    <3>2. CASE n = 0
      <4>1. h[n] = f[n] /\ f[n] = Value(n, f[n - 1])
        BY <2>2, <3>2
      <4> QED BY <1>0, <3>2, <4>1
    <3>3. CASE n # m + 1 /\ n # 0
      <4>1. n \in 0..m /\ n - 1 \in 0..(m + 1) /\ n - 1 # m + 1
        BY <3>3
      <4>2. h[n] = f[n] /\ h[n - 1] = f[n - 1]
        BY <3>3, <4>1
      <4> QED BY <2>2, <4>1, <4>2
    <3> QED BY <3>1, <3>2, <3>3
  <2> HIDE DEF last
  <2>4. h = [n \in 0..(m + 1) |-> h[n]]
    OBVIOUS
  <2> HIDE DEF h
  <2>5. Upto(h, m + 1)
    BY <2>3, <2>4
  <2> QED BY <2>5
<1> HIDE DEF P
<1>3. Depth \in P
  BY <1>1, <1>2, Induction, DepthAssumption
<1>4. PICK f : Upto(f, Depth)
  BY <1>3 DEF P
<1>5. Statements = CHOOSE e : Upto(e, Depth)
  BY DEF Statements, StatementsOver, Value
<1>6. Upto(Statements, Depth)
  BY <1>4, <1>5
<1>7. \A n \in 0..Depth : Statements[n] = Value(n, Statements[n - 1])
  BY <1>6
<1> QED BY <1>7, DepthAssumption DEF Value

LEMMA LoweringAt ==
  \A n \in 0..Depth :
    Lowering[n] = [call \in Graphs \X Nat \X Statements[n] |->
                     LowerNode(Lowering[n - 1], call[1], call[2], call[3])]
<1> DEFINE Value(n, below) == [call \in Graphs \X Nat \X Statements[n] |->
                               LowerNode(below, call[1], call[2], call[3])]
           Upto(f, m) == f = [n \in 0..m |-> Value(n, f[n - 1])]
           P == {m \in Nat : \E f : Upto(f, m)}
<1>0. \A v, w : Value(0, v) = Value(0, w)
  <2> DEFINE Calls == Graphs \X Nat \X Statements[0]
  <2>1. Calls = {}
    BY StatementsAt
  <2> HIDE DEF Calls
  <2>2. \A v, w : [call \in Calls |-> LowerNode(v, call[1], call[2], call[3])]
                 = [call \in Calls |-> LowerNode(w, call[1], call[2], call[3])]
    BY <2>1
  <2> QED BY <2>2 DEF Value, Calls
<1> HIDE DEF Value
<1>1. 0 \in P
  <2> DEFINE f == [n \in 0..0 |-> Value(0, 0)]
  <2>1. \A n \in 0..0 : f[n] = Value(n, f[n - 1])
    BY <1>0
  <2>2. f = [n \in 0..0 |-> f[n]]
    OBVIOUS
  <2> HIDE DEF f
  <2>3. Upto(f, 0)
    BY <2>1, <2>2
  <2> QED BY <2>3
<1>2. ASSUME NEW m \in Nat, m \in P PROVE m + 1 \in P
  <2>1. PICK f : Upto(f, m)
    BY <1>2
  <2> DEFINE last == Value(m + 1, f[m])
             h == [n \in 0..(m + 1) |-> IF n = m + 1 THEN last ELSE f[n]]
  <2>2. \A n \in 0..m : f[n] = Value(n, f[n - 1])
    BY <2>1
  <2>3. ASSUME NEW n \in 0..(m + 1) PROVE h[n] = Value(n, h[n - 1])
    <3>1. CASE n = m + 1
      <4>1. n - 1 \in 0..(m + 1) /\ n - 1 = m /\ n - 1 # m + 1
        BY <3>1
      <4>2. h[n - 1] = f[m] /\ h[n] = last
        BY <3>1, <4>1
      <4> QED BY <3>1, <4>2
    <3>2. CASE n = 0
      <4>1. h[n] = f[n] /\ f[n] = Value(n, f[n - 1])
        BY <2>2, <3>2
      <4> QED BY <1>0, <3>2, <4>1
    <3>3. CASE n # m + 1 /\ n # 0
      <4>1. n \in 0..m /\ n - 1 \in 0..(m + 1) /\ n - 1 # m + 1
        BY <3>3
      <4>2. h[n] = f[n] /\ h[n - 1] = f[n - 1]
        BY <3>3, <4>1
      <4> QED BY <2>2, <4>1, <4>2
    <3> QED BY <3>1, <3>2, <3>3
  <2> HIDE DEF last
  <2>4. h = [n \in 0..(m + 1) |-> h[n]]
    OBVIOUS
  <2> HIDE DEF h
  <2>5. Upto(h, m + 1)
    BY <2>3, <2>4
  <2> QED BY <2>5
<1> HIDE DEF P
<1>3. Depth \in P
  BY <1>1, <1>2, Induction, DepthAssumption
<1>4. PICK f : Upto(f, Depth)
  BY <1>3 DEF P
<1>5. Lowering = CHOOSE e : Upto(e, Depth)
  BY DEF Lowering, Value
<1>6. Upto(Lowering, Depth)
  BY <1>4, <1>5
<1>7. \A n \in 0..Depth : Lowering[n] = Value(n, Lowering[n - 1])
  BY <1>6
<1> QED BY <1>7, DepthAssumption DEF Value

LEMMA SpliceSteps ==
  ASSUME NEW lower, NEW g, NEW b, NEW statements, Len(statements) \in Nat
  PROVE  \E f : /\ f[0] = [g |-> g, block |-> b]
                /\ \A i \in 1..Len(statements) :
                     f[i] = Add(lower, f[i - 1], statements[i])
                /\ Splice(lower, g, b, statements) = f[Len(statements)]
<1> DEFINE Value(n, below) == IF n = 0 THEN [g |-> g, block |-> b]
                               ELSE Add(lower, below, statements[n])
           Upto(f, m) == f = [n \in 0..m |-> Value(n, f[n - 1])]
           P == {m \in Nat : \E f : Upto(f, m)}
<1>0. \A v, w : Value(0, v) = Value(0, w)
  BY DEF Value
<1> HIDE DEF Value
<1>1. 0 \in P
  <2> DEFINE f == [n \in 0..0 |-> Value(0, 0)]
  <2>1. \A n \in 0..0 : f[n] = Value(n, f[n - 1])
    BY <1>0
  <2>2. f = [n \in 0..0 |-> f[n]]
    OBVIOUS
  <2> HIDE DEF f
  <2>3. Upto(f, 0)
    BY <2>1, <2>2
  <2> QED BY <2>3
<1>2. ASSUME NEW m \in Nat, m \in P PROVE m + 1 \in P
  <2>1. PICK f : Upto(f, m)
    BY <1>2
  <2> DEFINE last == Value(m + 1, f[m])
             h == [n \in 0..(m + 1) |-> IF n = m + 1 THEN last ELSE f[n]]
  <2>2. \A n \in 0..m : f[n] = Value(n, f[n - 1])
    BY <2>1
  <2>3. ASSUME NEW n \in 0..(m + 1) PROVE h[n] = Value(n, h[n - 1])
    <3>1. CASE n = m + 1
      <4>1. n - 1 \in 0..(m + 1) /\ n - 1 = m /\ n - 1 # m + 1
        BY <3>1
      <4>2. h[n - 1] = f[m] /\ h[n] = last
        BY <3>1, <4>1
      <4> QED BY <3>1, <4>2
    <3>2. CASE n = 0
      <4>1. h[n] = f[n] /\ f[n] = Value(n, f[n - 1])
        BY <2>2, <3>2
      <4> QED BY <1>0, <3>2, <4>1
    <3>3. CASE n # m + 1 /\ n # 0
      <4>1. n \in 0..m /\ n - 1 \in 0..(m + 1) /\ n - 1 # m + 1
        BY <3>3
      <4>2. h[n] = f[n] /\ h[n - 1] = f[n - 1]
        BY <3>3, <4>1
      <4> QED BY <2>2, <4>1, <4>2
    <3> QED BY <3>1, <3>2, <3>3
  <2> HIDE DEF last
  <2>4. h = [n \in 0..(m + 1) |-> h[n]]
    OBVIOUS
  <2> HIDE DEF h
  <2>5. Upto(h, m + 1)
    BY <2>3, <2>4
  <2> QED BY <2>5
<1> HIDE DEF P
<1>3. Len(statements) \in P
  BY <1>1, <1>2, Induction
<1>4. PICK f : Upto(f, Len(statements))
  BY <1>3 DEF P
<1> DEFINE upTo == CHOOSE e : Upto(e, Len(statements))
<1>5. Splice(lower, g, b, statements) = upTo[Len(statements)]
  BY DEF Splice, Value
<1>6. Upto(upTo, Len(statements))
  BY <1>4
<1> HIDE DEF upTo
<1>7. \A i \in 0..Len(statements) : upTo[i] = Value(i, upTo[i - 1])
  BY <1>6
<1>8. /\ upTo[0] = [g |-> g, block |-> b]
      /\ \A i \in 1..Len(statements) : upTo[i] = Add(lower, upTo[i - 1], statements[i])
  BY <1>7 DEF Value
<1> QED BY <1>5, <1>8

LEMMA ExpressionParts ==
  ASSUME NEW n \in 1..Depth, NEW e \in Expressions[n]
  PROVE  \/ e.is = "atom" /\ e.name \in Names
         \/ e.is = "not" /\ e.of \in Expressions[n - 1]
         \/ /\ e.is \in {"and", "or"}
            /\ e.left \in Expressions[n - 1] /\ e.right \in Expressions[n - 1]
<1>1. e \in ExpressionsOver(Expressions[n - 1])
  BY ExpressionsAt
<1> QED BY <1>1 DEF ExpressionsOver

LEMMA StatementParts ==
  ASSUME NEW n \in 1..Depth, NEW s \in Statements[n]
  PROVE  \/ s \in Expressions[n]
         \/ s.is = "break"
         \/ s.is = "return" /\ (s.value = <<>> \/ s.value[1] \in Expressions[n - 1])
         \/ /\ s.is = "if" /\ s.cond \in Expressions[n - 1]
            /\ s.then \in Seq(Statements[n - 1]) /\ s.else \in Seq(Statements[n - 1])
         \/ /\ s.is \in {"while", "do"} /\ s.cond \in Expressions[n - 1]
            /\ s.body \in Seq(Statements[n - 1])
         \/ /\ s.is = "for"
            /\ s.begin \in Expressions[n - 1] /\ s.end \in Expressions[n - 1]
            /\ s.step \in Expressions[n - 1]
            /\ s.body \in Seq(Statements[n - 1])
<1> DEFINE parts == Expressions[n - 1]
           bodies == Seq(Statements[n - 1])
<1>1. s \in StatementsOver(Expressions[n], parts, bodies)
  BY StatementsAt
<1> HIDE DEF bodies
<1>2. ASSUME s \in [is : {"return"}, value : {v \in Seq(parts) : Len(v) <= 1}]
      PROVE  s.is = "return" /\ (s.value = <<>> \/ s.value[1] \in parts)
  <2>1. s.is = "return" /\ s.value \in Seq(parts)
    BY <1>2
  <2>2. s.value = <<>> \/ s.value[1] \in parts
    BY <2>1
  <2> QED BY <2>1, <2>2
<1> HIDE DEF parts
<1>3. \/ s \in Expressions[n] \/ s = Break
      \/ s \in [is : {"return"}, value : {v \in Seq(parts) : Len(v) <= 1}]
      \/ s \in [is : {"if"}, cond : parts, then : bodies, else : bodies]
      \/ s \in [is : {"while", "do"}, cond : parts, body : bodies]
      \/ s \in [is : {"for"}, begin : parts, end : parts, step : parts, body : bodies]
  BY <1>1, Zenon DEF StatementsOver
<1>4. s = Break => s.is = "break"
  BY DEF Break
<1> QED BY <1>2, <1>3, <1>4 DEF parts, bodies

LEMMA ExpressionsAreStatements ==
  \A n \in 0..Depth : Expressions[n] \subseteq Statements[n]
<1>1. ASSUME NEW n \in 1..Depth PROVE Expressions[n] \subseteq Statements[n]
  BY StatementsAt, Zenon DEF StatementsOver
<1>2. Expressions[0] \subseteq Statements[0]
  BY ExpressionsAt
<1> QED BY <1>1, <1>2, DepthAssumption

-----------------------------------------------------------------------------
(* Single instructions *)

LEMMA EvaluatesOn ==
  ASSUME NEW g, NEW b \in 1..Newest(g), NEW ir, NEW next,
         Evaluates(g, b, ir), Evaluates(ir.g, ir.block, next)
  PROVE  Evaluates(g, b, next)
<1> DEFINE h == ir.g
           c == ir.block
           k == next.g
<1>1. Continues(g, b, ir) /\ Continues(h, c, next)
  BY DEF Evaluates
<1>2. Continues(g, b, next)
  BY <1>1, ContinuesOn
<1>3. /\ Keeps(g, h, {b}) /\ Keeps(h, k, {c}) /\ c \in {b} \union New(g, h)
  BY <1>1 DEF Continues
<1>4. /\ \A x \in New(g, h) : Breaks(h, x) = {}
      /\ \A x \in New(h, k) : Breaks(k, x) = {}
      /\ Breaks(h, b) = Breaks(g, b) /\ Breaks(k, c) = Breaks(h, c)
      /\ next.into \in Nat
  BY DEF Evaluates
<1> HIDE DEF h, c, k
<1>5. \A x \in 1..Newest(h) : Breaks(k, x) = Breaks(h, x)
  BY <1>3, <1>4 DEF Keeps, Alike
<1>6. Newest(g) \in Nat /\ Newest(h) \in Nat /\ Newest(g) <= Newest(h)
  BY <1>3 DEF Keeps
<1>7. \A x \in New(g, k) : Breaks(k, x) = {}
  BY <1>4, <1>5, <1>6 DEF New
<1>8. Breaks(k, b) = Breaks(g, b)
  BY <1>4, <1>5, <1>6
<1> QED BY <1>2, <1>4, <1>7, <1>8 DEF Evaluates, k

LEMMA Computed ==
  ASSUME NEW g, WellFormed(g), NEW b \in 1..Newest(g),
         NEW i \in Instructions, i.is # "jump"
  PROVE  Evaluates(g, b, Compute(g, b, i))
<1> DEFINE h == NewTemporary(g)
           k == AddInstruction(h, b, i)
           ir == [g |-> k, block |-> b, into |-> NextTemporary(g)]
<1>1. /\ Keeps(g, h, {}) /\ Newest(h) = Newest(g) /\ h.loops = g.loops
      /\ g.temporaries + 1 \in Nat
  BY TemporaryMade
<1> HIDE DEF h
<1>2. WellFormed(h) /\ b \in 1..Newest(h) /\ Alike(g, h, b)
  BY <1>1 DEF Keeps
<1>3. /\ Keeps(h, k, {b}) /\ Newest(k) = Newest(h) /\ k.loops = h.loops
      /\ T(k, b) = T(h, b) /\ F(k, b) = F(h, b)
      /\ Breaks(k, b) = Breaks(h, b) \union (IF i.is = "jump" THEN {i.to} ELSE {})
  BY <1>2, InstructionAdded
<1> HIDE DEF k
<1>4. Keeps(g, k, {b})
  BY <1>1, <1>3, KeepsOn
<1>5. T(k, b) = T(g, b) /\ F(k, b) = F(g, b) /\ Breaks(k, b) = Breaks(g, b)
  BY <1>2, <1>3 DEF Alike
<1>6. ir.g = k /\ ir.block = b /\ ir.into \in Nat
  BY <1>1 DEF NextTemporary
<1>7. Compute(g, b, i) = ir
  BY DEF Compute, ir, k, h
<1> HIDE DEF ir
<1>8. Continues(g, b, ir)
  BY <1>1, <1>3, <1>4, <1>5, <1>6, StaysInBlock
<1>9. New(g, k) = {}
  BY <1>1, <1>3, <1>4 DEF New, Keeps
<1> QED BY <1>5, <1>6, <1>7, <1>8, <1>9 DEF Evaluates

LEMMA NameEvaluated ==
  ASSUME NEW g, WellFormed(g), NEW b \in 1..Newest(g), NEW name \in Names
  PROVE  Evaluates(g, b, EvaluateName(g, b, name))
<1> DEFINE i == [is |-> "atom", name |-> name, into |-> NextTemporary(g)]
<1>1. g.temporaries + 1 \in Nat
  BY TemporaryMade
<1>2. i \in Instructions /\ i.is # "jump"
  BY <1>1 DEF Instructions, NextTemporary
<1>3. EvaluateName(g, b, name) = Compute(g, b, i)
  BY DEF EvaluateName
<1> HIDE DEF i
<1> QED BY <1>2, <1>3, Computed

LEMMA Negated ==
  ASSUME NEW g, NEW b \in 1..Newest(g), NEW ir, Evaluates(g, b, ir)
  PROVE  Evaluates(g, b, Negate(ir))
<1> DEFINE h == ir.g
           c == ir.block
           i == [is |-> "not", from |-> ir.into, into |-> NextTemporary(h)]
<1>1. Keeps(g, h, {b}) /\ c \in {b} \union New(g, h) /\ ir.into \in Nat
  BY DEF Evaluates, Continues
<1>2. WellFormed(h) /\ c \in 1..Newest(h)
  BY <1>1 DEF Keeps, New
<1>3. h.temporaries + 1 \in Nat
  BY <1>2, TemporaryMade
<1>4. i \in Instructions /\ i.is # "jump"
  BY <1>1, <1>3 DEF Instructions, NextTemporary
<1>5. Negate(ir) = Compute(h, c, i)
  BY DEF Negate
<1> HIDE DEF i
<1>6. Evaluates(h, c, Compute(h, c, i))
  BY <1>2, <1>4, Computed
<1> QED BY <1>5, <1>6, EvaluatesOn

LEMMA ValueReturned ==
  ASSUME NEW g, NEW b \in 1..Newest(g), NEW ir, Continues(g, b, ir)
  PROVE  Continues(g, b, ReturnValue(ir))
<1> DEFINE h == ir.g
           c == ir.block
           i == [is |-> "return"]
           k == AddInstruction(h, c, i)
           next == [g |-> k, block |-> c]
<1>1. Keeps(g, h, {b}) /\ c \in {b} \union New(g, h)
  BY DEF Continues
<1>2. WellFormed(h) /\ c \in 1..Newest(h)
  BY <1>1 DEF Keeps, New
<1>3. i \in Instructions /\ i.is # "jump"
  BY DEF Instructions
<1> HIDE DEF i
<1>4. /\ Keeps(h, k, {c}) /\ Newest(k) = Newest(h) /\ k.loops = h.loops
      /\ T(k, c) = T(h, c) /\ F(k, c) = F(h, c)
      /\ Breaks(k, c) = Breaks(h, c) \union (IF i.is = "jump" THEN {i.to} ELSE {})
  <2> HIDE DEF h, c
  <2> QED BY <1>2, <1>3, InstructionAdded
<1>5. next.g = k /\ next.block = c
  OBVIOUS
<1>6. ReturnValue(ir) = next
  BY DEF ReturnValue, i
<1> HIDE DEF k, next
<1>7. Continues(h, c, next)
  BY <1>2, <1>3, <1>4, <1>5, StaysInBlock
<1> QED BY <1>6, <1>7, ContinuesOn

LEMMA BrokenOff ==
  ASSUME NEW g, WellFormed(g), NEW b \in 1..Newest(g)
  PROVE  Continues(g, b, [g |-> BreakInstruction(g, b), block |-> b])
<1> DEFINE h == BreakInstruction(g, b)
           ir == [g |-> h, block |-> b]
<1>1. ir.g = h /\ ir.block = b
  OBVIOUS
<1>2. g.loops \in Seq(Nat \ {NoBlock}) /\ g \in Graphs
  BY GraphType DEF WellFormed
<1>3. CASE g.loops = <<>>
  <2>1. h \in Graphs /\ h.blocks = g.blocks /\ h.loops = g.loops
    BY <1>2, <1>3 DEF BreakInstruction, Graphs
  <2> HIDE DEF h, ir
  <2>2. Keeps(g, h, {}) /\ Newest(h) = Newest(g)
    BY <2>1, BlocksKept
  <2>3. Keeps(g, h, {b}) /\ Alike(g, h, b)
    BY <2>2 DEF Keeps
  <2>4. Continues(g, b, ir)
    BY <1>1, <2>1, <2>2, <2>3, StaysInBlock DEF Alike
  <2> QED BY <2>4 DEF ir, h
<1>4. CASE g.loops # <<>>
  <2> DEFINE to == Last(g.loops)
             i == [is |-> "jump", to |-> to]
  <2>1. Len(g.loops) \in DOMAIN g.loops /\ to = g.loops[Len(g.loops)]
    BY <1>2, <1>4 DEF Last
  <2>2. to \in Nat \ {NoBlock} /\ to \in LoopEnds(g)
    BY <1>2, <2>1 DEF LoopEnds
  <2> HIDE DEF to
  <2>3. i \in Instructions /\ i.to = to
    BY <2>2 DEF Instructions
  <2>4. h = AddInstruction(g, b, i)
    BY <1>4 DEF BreakInstruction, to
  <2> HIDE DEF i, h, ir
  <2>5. /\ Keeps(g, h, {b}) /\ Newest(h) = Newest(g) /\ h.loops = g.loops
        /\ T(h, b) = T(g, b) /\ F(h, b) = F(g, b)
        /\ Breaks(h, b) = Breaks(g, b) \union (IF i.is = "jump" THEN {i.to} ELSE {})
    BY <2>3, <2>4, InstructionAdded
  <2>6. Continues(g, b, ir)
    BY <1>1, <2>2, <2>3, <2>5, StaysInBlock
  <2> QED BY <2>6 DEF ir, h
<1> QED BY <1>3, <1>4

-----------------------------------------------------------------------------
(* Parts *)

(* lower does with the trees of at most n levels what lowering should do.    *)
Lowers(lower, n) ==
  /\ \A g \in Graphs, e \in Expressions[n] : WellFormed(g) =>
       IF e.is \in {"and", "or"}
       THEN Decides(g, GetBasicBlock(lower, g, e))
       ELSE \A b \in 1..Newest(g) : Evaluates(g, b, lower[<<g, b, e>>])
  /\ \A g \in Graphs, s \in Statements[n] : WellFormed(g) =>
       IF IsBlocks(s)
       THEN Encloses(g, GetBasicBlock(lower, g, s))
       ELSE \A b \in 1..Newest(g) : Continues(g, b, lower[<<g, b, s>>])

LEMMA GotIR ==
  ASSUME NEW lower, NEW n, Lowers(lower, n), NEW e \in Expressions[n],
         NEW g, WellFormed(g), NEW b \in 1..Newest(g)
  PROVE  Evaluates(g, b, GetIR(lower, g, b, e))
<1>1. g \in Graphs
  BY DEF WellFormed
<1>2. CASE e.is \in {"and", "or"}
  <2>1. Decides(g, GetBasicBlock(lower, g, e))
    BY <1>1, <1>2 DEF Lowers
  <2> QED BY <1>2, <2>1, Inserted DEF GetIR
<1>3. CASE e.is \notin {"and", "or"}
  BY <1>1, <1>3 DEF Lowers, GetIR
<1> QED BY <1>2, <1>3

(* An expression with blocks of its own is an && or an ||.                   *)
LEMMA BlocksOfExpressions ==
  ASSUME NEW n \in 0..Depth, NEW e \in Expressions[n]
  PROVE  IsBlocks(e) <=> e.is \in {"and", "or"}
<1>1. n \in 1..Depth
  BY ExpressionsAt, DepthAssumption
<1> QED BY <1>1, ExpressionParts DEF IsBlocks

LEMMA GotBlocks ==
  ASSUME NEW lower, NEW n \in 0..Depth, Lowers(lower, n), NEW e \in Expressions[n],
         IsBlocks(e), NEW g, WellFormed(g)
  PROVE  Decides(g, GetBasicBlock(lower, g, e))
  BY BlocksOfExpressions DEF Lowers, WellFormed

LEMMA Added ==
  ASSUME NEW lower, NEW n, Lowers(lower, n), NEW s \in Statements[n],
         NEW ir, WellFormed(ir.g), ir.block \in 1..Newest(ir.g), F(ir.g, ir.block) = 0
  PROVE  Continues(ir.g, ir.block, Add(lower, ir, s))
<1>1. ir.g \in Graphs
  BY DEF WellFormed
<1>2. CASE IsBlocks(s)
  <2>1. Encloses(ir.g, GetBasicBlock(lower, ir.g, s))
    BY <1>1, <1>2 DEF Lowers
  <2>2. Continues(ir.g, ir.block, Link(ir.block, GetBasicBlock(lower, ir.g, s)))
    BY <2>1, Linked
  <2> QED BY <1>2, <2>2 DEF Add
<1>3. CASE ~ IsBlocks(s)
  <2>1. s.is \notin {"and", "or"}
    BY <1>3 DEF IsBlocks
  <2>2. Continues(ir.g, ir.block, lower[<<ir.g, ir.block, s>>])
    BY <1>1, <1>3 DEF Lowers
  <2> QED BY <1>3, <2>1, <2>2 DEF Add, GetIR
<1> QED BY <1>2, <1>3

LEMMA ContinuesHere ==
  ASSUME NEW g, WellFormed(g), NEW b \in 1..Newest(g)
  PROVE  Continues(g, b, [g |-> g, block |-> b])
<1> DEFINE ir == [g |-> g, block |-> b]
<1>1. ir.g = g /\ ir.block = b
  OBVIOUS
<1> HIDE DEF ir
<1>2. Keeps(g, g, {b})
  <2>1. Newest(g) \in Nat
    BY GraphType DEF WellFormed
  <2>2. \A x \in 1..Newest(g) : Alike(g, g, x)
    BY DEF Alike
  <2> QED BY <2>1, <2>2 DEF Keeps
<1>3. Continues(g, b, ir)
  BY <1>1, <1>2, StaysInBlock
<1> QED BY <1>3 DEF ir

(* The statements of a body, one after the other.                            *)
LEMMA Spliced ==
  ASSUME NEW lower, NEW n, Lowers(lower, n), NEW statements \in Seq(Statements[n]),
         NEW g, WellFormed(g), NEW b \in 1..Newest(g), F(g, b) = 0
  PROVE  Continues(g, b, Splice(lower, g, b, statements))
<1>1. Len(statements) \in Nat /\ \A i \in 1..Len(statements) : statements[i] \in Statements[n]
  OBVIOUS
<1>2. PICK f : /\ f[0] = [g |-> g, block |-> b]
               /\ \A i \in 1..Len(statements) : f[i] = Add(lower, f[i - 1], statements[i])
               /\ Splice(lower, g, b, statements) = f[Len(statements)]
  BY <1>1, SpliceSteps
<1> DEFINE P == {i \in Nat : i <= Len(statements) => Continues(g, b, f[i])}
<1>3. 0 \in P
  BY <1>2, ContinuesHere
<1>4. ASSUME NEW i \in Nat, i \in P PROVE i + 1 \in P
  <2> SUFFICES ASSUME i + 1 <= Len(statements) PROVE Continues(g, b, f[i + 1])
    OBVIOUS
  <2> DEFINE ir == f[i]
  <2>1. Continues(g, b, ir)
    BY <1>1, <1>4
  <2>2. /\ i + 1 \in 1..Len(statements) /\ (i + 1) - 1 = i
        /\ statements[i + 1] \in Statements[n]
    BY <1>1
  <2>3. f[i + 1] = Add(lower, ir, statements[i + 1])
    BY <1>2, <2>2
  <2> HIDE DEF ir
  <2>4. WellFormed(ir.g) /\ ir.block \in 1..Newest(ir.g) /\ F(ir.g, ir.block) = 0
    BY <2>1 DEF Continues, Keeps, New
  <2>5. Continues(ir.g, ir.block, f[i + 1])
    BY <2>2, <2>3, <2>4, Added
  <2> QED BY <2>1, <2>5, ContinuesOn
<1> HIDE DEF P
<1>5. Len(statements) \in P
  BY <1>1, <1>3, <1>4, Induction
<1> QED BY <1>1, <1>2, <1>5 DEF P

-----------------------------------------------------------------------------
(* && and || *)

(* An operand, of which the blocks are those of R and have no breaks; at its *)
(* end it goes one way or the other.                                         *)
Operand(g, h, R, begin, end, yes, no) ==
  /\ Keeps(g, h, R) /\ h.loops = g.loops
  /\ begin \in R /\ end \in R
  /\ T(h, end) = yes /\ F(h, end) = no
  /\ Leads(h, R \ {end}, begin, end)
  /\ \A x \in R \union New(g, h) : Breaks(h, x) = {}

LEMMA OperandOfBlocks ==
  ASSUME NEW g, NEW chain, Decides(g, chain),
         NEW yes \in 0..Newest(g), NEW no \in 0..Newest(g)
  PROVE  LET c == WithExits(chain, yes, no) IN
         /\ Operand(g, c.g, New(g, c.g), c.begin, c.end, yes, no)
         /\ c.begin = chain.begin /\ c.end = chain.end /\ c.into = chain.into
<1> DEFINE h == chain.g
           end == chain.end
           k == SetExits(h, end, yes, no)
           c == WithExits(chain, yes, no)
<1>1. /\ Keeps(g, h, {}) /\ h.loops = g.loops
      /\ chain.begin \in New(g, h) /\ end \in New(g, h)
      /\ Leads(h, New(g, h) \ {end}, chain.begin, end)
      /\ \A x \in New(g, h) : Breaks(h, x) = {}
  BY DEF Decides, Encloses
<1>2. c.g = k /\ c.begin = chain.begin /\ c.end = end /\ c.into = chain.into
  BY DEF WithExits
<1> HIDE DEF c, h, end
<1>3. /\ WellFormed(h) /\ end \in 1..Newest(h) /\ yes \in 0..Newest(h) /\ no \in 0..Newest(h)
      /\ Newest(g) \in Nat /\ Newest(h) \in Nat /\ Newest(g) <= Newest(h)
  BY <1>1 DEF Keeps, New
<1>4. /\ Keeps(h, k, {end}) /\ Newest(k) = Newest(h) /\ k.loops = h.loops
      /\ T(k, end) = yes /\ F(k, end) = no /\ Breaks(k, end) = Breaks(h, end)
  BY <1>3, BothExitsSet
<1> HIDE DEF k
<1>5. New(g, k) = New(g, h)
  BY <1>4 DEF New
<1>6. Keeps(g, k, New(g, k))
  BY <1>1, <1>3, <1>4, KeepsOn DEF New
<1>7. \A z \in New(g, h) \ {end} : z \in 1..Newest(h) /\ z \notin {end}
  BY <1>3 DEF New
<1>8. Leads(k, New(g, k) \ {end}, chain.begin, end)
  BY <1>1, <1>4, <1>5, <1>7, LeadsLater
<1>9. \A x \in New(g, h) : Breaks(k, x) = {}
  BY <1>1, <1>4, <1>7 DEF Keeps, Alike
<1>10. Operand(g, k, New(g, k), chain.begin, end, yes, no)
  BY <1>1, <1>4, <1>5, <1>6, <1>8, <1>9 DEF Operand
<1> QED BY <1>2, <1>10 DEF c, end

LEMMA OperandInPlace ==
  ASSUME NEW g, WellFormed(g), NEW b \in 1..Newest(g), Breaks(g, b) = {},
         NEW ir, Evaluates(g, b, ir),
         NEW yes \in 0..Newest(g), NEW no \in 0..Newest(g)
  PROVE  LET c == WithExits(InPlace(ir), yes, no) IN
         Operand(g, c.g, {b} \union New(g, c.g), c.begin, c.end, yes, no)
<1> DEFINE h == ir.g
           end == ir.block
           k == SetExits(h, end, yes, no)
           c == WithExits(InPlace(ir), yes, no)
<1>1. /\ Keeps(g, h, {b}) /\ h.loops = g.loops
      /\ end \in {b} \union New(g, h)
      /\ \A x \in New(g, h) : Breaks(h, x) = {}
      /\ Breaks(h, b) = {}
  BY DEF Evaluates, Continues
<1>2. c.g = k /\ c.begin = end /\ c.end = end
  BY DEF WithExits, InPlace
<1> HIDE DEF c, h, end
<1>3. /\ WellFormed(h) /\ end \in 1..Newest(h) /\ yes \in 0..Newest(h) /\ no \in 0..Newest(h)
      /\ Newest(g) \in Nat /\ Newest(h) \in Nat /\ Newest(g) <= Newest(h)
  BY <1>1 DEF Keeps, New
<1>4. /\ Keeps(h, k, {end}) /\ Newest(k) = Newest(h) /\ k.loops = h.loops
      /\ T(k, end) = yes /\ F(k, end) = no /\ Breaks(k, end) = Breaks(h, end)
  BY <1>3, BothExitsSet
<1> HIDE DEF k
<1>5. New(g, k) = New(g, h)
  BY <1>4 DEF New
<1>6. Keeps(g, k, {b} \union New(g, k))
  BY <1>1, <1>3, <1>4, KeepsOn DEF New
<1>7. \A x \in {b} \union New(g, h) : Breaks(k, x) = {}
  <2> SUFFICES ASSUME NEW x \in {b} \union New(g, h) PROVE Breaks(k, x) = {}
    OBVIOUS
  <2>1. Breaks(h, x) = {} /\ x \in 1..Newest(h)
    BY <1>1, <1>3 DEF New
  <2> QED BY <1>4, <2>1 DEF Keeps, Alike
<1>8. Leads(k, ({b} \union New(g, k)) \ {end}, end, end)
  BY LeadsHere
<1> QED BY <1>1, <1>2, <1>4, <1>5, <1>6, <1>7, <1>8 DEF Operand, c

(* The second operand without blocks of its own gets a new block.            *)
LEMMA OperandInNewBlock ==
  ASSUME NEW g, WellFormed(g), NEW ir,
         Evaluates(NewBlocks(g, 1), Newest(g) + 1, ir),
         NEW yes \in 0..Newest(g), NEW no \in 0..Newest(g)
  PROVE  LET c == WithExits(InPlace(ir), yes, no) IN
         Operand(g, c.g, New(g, c.g), c.begin, c.end, yes, no)
<1> DEFINE h == NewBlocks(g, 1)
           b == Newest(g) + 1
           c == WithExits(InPlace(ir), yes, no)
<1>0. Newest(g) \in Nat
  BY GraphType DEF WellFormed
<1>1. Keeps(g, h, {}) /\ Newest(h) = b /\ h.loops = g.loops /\ Breaks(h, b) = {}
  <2>1. b \in (Newest(g) + 1)..(Newest(g) + 1)
    BY <1>0
  <2> QED BY <2>1, BlocksMade
<1> HIDE DEF h
<1>2. /\ WellFormed(h) /\ b \in 1..Newest(h) /\ Evaluates(h, b, ir)
      /\ yes \in 0..Newest(h) /\ no \in 0..Newest(h)
  BY <1>0, <1>1 DEF Keeps, h
<1>3. Operand(h, c.g, {b} \union New(h, c.g), c.begin, c.end, yes, no)
  BY <1>1, <1>2, OperandInPlace
<1> HIDE DEF c
<1>4. Newest(h) <= Newest(c.g) /\ Newest(c.g) \in Nat
  BY <1>3 DEF Operand, Keeps
<1>5. {b} \union New(h, c.g) = New(g, c.g)
  BY <1>0, <1>1, <1>4 DEF New
<1>6. Keeps(h, c.g, New(g, c.g))
  BY <1>3, <1>5 DEF Operand
<1>7. Keeps(g, c.g, New(g, c.g))
  BY <1>1, <1>6, KeepsOn
<1> QED BY <1>1, <1>3, <1>5, <1>7 DEF Operand, c

LEMMA LogicalMade ==
  ASSUME NEW n \in 1..Depth, NEW lower, Lowers(lower, n - 1),
         NEW e \in Expressions[n], e.is \in {"and", "or"},
         NEW g0, WellFormed(g0)
  PROVE  Decides(g0, LogicalBlocks(lower, g0, e))
<1> DEFINE start == Newest(g0) + 1
           yes == start + 1
           no == start + 2
           end == start + 3
           ga == NewBlocks(g0, 4)
           g1 == NewTemporary(ga)
           into == g1.temporaries
           gb == SetExitWhenTrue(g1, yes, end)
           gc == SetExitWhenTrue(gb, no, end)
           g2 == SetExits(gc, start, yes, no)
           one == [is |-> "const", value |-> "true", into |-> into]
           zero == [is |-> "const", value |-> "false", into |-> into]
           empty == [is |-> "empty", into |-> into]
           gd == AddInstruction(g2, yes, one)
           g3 == AddInstruction(gd, no, zero)
           g4 == AddInstruction(g3, end, empty)
           left == WithExits(IF IsBlocks(e.left) THEN GetBasicBlock(lower, g4, e.left)
                             ELSE InPlace(GetIR(lower, g4, start, e.left)), yes, no)
           h == left.g
           right == WithExits(IF IsBlocks(e.right) THEN GetBasicBlock(lower, h, e.right)
                              ELSE InPlace(GetIR(lower, NewBlocks(h, 1), Newest(h) + 1, e.right)),
                              yes, no)
           k == right.g
           m == HangRight(k, e.is, left.end, right.begin)
           chain == [g |-> m, begin |-> left.begin, end |-> end, into |-> into]
<1>0. Newest(g0) \in Nat
  BY GraphType DEF WellFormed
<1>e. LogicalBlocks(lower, g0, e) = chain
  BY Zenon DEF LogicalBlocks, LoadTruth, chain, m, k, right, h, left, g4, g3, gd, g2, gc, gb,
               g1, ga, one, zero, empty, into, start, yes, no, end
<1>c. chain.g = m /\ chain.begin = left.begin /\ chain.end = end /\ chain.into = into
  OBVIOUS
<1> HIDE DEF chain, m, k, right, h, left
<1>p. /\ e.left \in Expressions[n - 1] /\ e.right \in Expressions[n - 1]
      /\ n - 1 \in 0..Depth
  BY ExpressionParts, DepthAssumption
<1> DEFINE N == Newest(g0) + 4
<1>a. /\ start \in 1..N /\ yes \in 1..N /\ no \in 1..N /\ end \in 1..N
      /\ start \in (Newest(g0) + 1)..N /\ yes \in (Newest(g0) + 1)..N
      /\ no \in (Newest(g0) + 1)..N /\ end \in (Newest(g0) + 1)..N
      /\ start # yes /\ start # no /\ start # end /\ yes # no /\ yes # end /\ no # end
      /\ yes # 0 /\ no # 0 /\ end # 0 /\ N \in Nat
      /\ \A x \in (Newest(g0) + 1)..N : x \in {start, yes, no, end}
  BY <1>0
<1> HIDE DEF start, yes, no, end
\* The four blocks.
<1>1. /\ Keeps(g0, ga, {}) /\ Newest(ga) = N /\ ga.loops = g0.loops
      /\ \A x \in {start, yes, no, end} : T(ga, x) = 0 /\ F(ga, x) = 0 /\ Breaks(ga, x) = {}
  BY <1>0, <1>a, BlocksMade
<1> HIDE DEF ga, N
<1>2. /\ Keeps(ga, g1, {}) /\ Newest(g1) = N /\ g1.loops = g0.loops /\ into \in Nat
  BY <1>1, TemporaryMade DEF Keeps
<1> HIDE DEF g1, into
<1>3. /\ one \in Instructions /\ zero \in Instructions /\ empty \in Instructions
      /\ one.is # "jump" /\ zero.is # "jump" /\ empty.is # "jump"
  BY <1>2 DEF Instructions
<1> HIDE DEF one, zero, empty
<1>4. /\ Keeps(g1, gb, {yes}) /\ Newest(gb) = N /\ gb.loops = g0.loops
      /\ T(gb, yes) = end /\ F(gb, yes) = F(g1, yes) /\ Breaks(gb, yes) = Breaks(g1, yes)
  <2>1. WellFormed(g1) /\ yes \in 1..Newest(g1) /\ end \in 0..Newest(g1)
    BY <1>a, <1>2 DEF Keeps
  <2> QED BY <1>2, <2>1, ExitWhenTrueSet
<1> HIDE DEF gb
<1>5. /\ Keeps(gb, gc, {no}) /\ Newest(gc) = N /\ gc.loops = g0.loops
      /\ T(gc, no) = end /\ F(gc, no) = F(gb, no) /\ Breaks(gc, no) = Breaks(gb, no)
  <2>1. WellFormed(gb) /\ no \in 1..Newest(gb) /\ end \in 0..Newest(gb)
    BY <1>a, <1>4 DEF Keeps
  <2> QED BY <1>4, <2>1, ExitWhenTrueSet
<1> HIDE DEF gc
<1>6. /\ Keeps(gc, g2, {start}) /\ Newest(g2) = N /\ g2.loops = g0.loops
      /\ T(g2, start) = yes /\ F(g2, start) = no /\ Breaks(g2, start) = Breaks(gc, start)
  <2>1. /\ WellFormed(gc) /\ start \in 1..Newest(gc)
        /\ yes \in 0..Newest(gc) /\ no \in 0..Newest(gc)
    BY <1>a, <1>5 DEF Keeps
  <2> QED BY <1>5, <2>1, BothExitsSet
<1> HIDE DEF g2
<1>7. /\ Keeps(g2, gd, {yes}) /\ Newest(gd) = N /\ gd.loops = g0.loops
      /\ T(gd, yes) = T(g2, yes) /\ F(gd, yes) = F(g2, yes)
      /\ Breaks(gd, yes) = Breaks(g2, yes) \union (IF one.is = "jump" THEN {one.to} ELSE {})
  <2>1. WellFormed(g2) /\ yes \in 1..Newest(g2)
    BY <1>a, <1>6 DEF Keeps
  <2>2. one \in Instructions
    BY <1>3
  <2>3. /\ Keeps(g2, gd, {yes}) /\ Newest(gd) = Newest(g2) /\ gd.loops = g2.loops
        /\ T(gd, yes) = T(g2, yes) /\ F(gd, yes) = F(g2, yes)
        /\ Breaks(gd, yes) = Breaks(g2, yes) \union (IF one.is = "jump" THEN {one.to} ELSE {})
    BY <2>1, <2>2, InstructionAdded
  <2> QED BY <1>6, <2>3
<1> HIDE DEF gd
<1>8. /\ Keeps(gd, g3, {no}) /\ Newest(g3) = N /\ g3.loops = g0.loops
      /\ T(g3, no) = T(gd, no) /\ F(g3, no) = F(gd, no)
      /\ Breaks(g3, no) = Breaks(gd, no) \union (IF zero.is = "jump" THEN {zero.to} ELSE {})
  <2>1. WellFormed(gd) /\ no \in 1..Newest(gd)
    BY <1>a, <1>7 DEF Keeps
  <2>2. zero \in Instructions
    BY <1>3
  <2>3. /\ Keeps(gd, g3, {no}) /\ Newest(g3) = Newest(gd) /\ g3.loops = gd.loops
        /\ T(g3, no) = T(gd, no) /\ F(g3, no) = F(gd, no)
        /\ Breaks(g3, no) = Breaks(gd, no) \union (IF zero.is = "jump" THEN {zero.to} ELSE {})
    BY <2>1, <2>2, InstructionAdded
  <2> QED BY <1>7, <2>3
<1> HIDE DEF g3
<1>9. /\ Keeps(g3, g4, {end}) /\ Newest(g4) = N /\ g4.loops = g0.loops
      /\ T(g4, end) = T(g3, end) /\ F(g4, end) = F(g3, end)
      /\ Breaks(g4, end) = Breaks(g3, end) \union (IF empty.is = "jump" THEN {empty.to} ELSE {})
  <2>1. WellFormed(g3) /\ end \in 1..Newest(g3)
    BY <1>a, <1>8 DEF Keeps
  <2>2. empty \in Instructions
    BY <1>3
  <2>3. /\ Keeps(g3, g4, {end}) /\ Newest(g4) = Newest(g3) /\ g4.loops = g3.loops
        /\ T(g4, end) = T(g3, end) /\ F(g4, end) = F(g3, end)
        /\ Breaks(g4, end) = Breaks(g3, end) \union (IF empty.is = "jump" THEN {empty.to} ELSE {})
    BY <2>1, <2>2, InstructionAdded
  <2> QED BY <1>8, <2>3
<1> HIDE DEF g4
<1>10. Keeps(g0, g4, {})
  <2>1. Keeps(g0, g1, {})
    BY <1>1, <1>2, KeepsOn
  <2>2. Keeps(g0, gb, {})
    BY <1>0, <1>a, <1>4, <2>1, KeepsOn
  <2>3. Keeps(g0, gc, {})
    BY <1>0, <1>a, <1>5, <2>2, KeepsOn
  <2>4. Keeps(g0, g2, {})
    BY <1>0, <1>a, <1>6, <2>3, KeepsOn
  <2>5. Keeps(g0, gd, {})
    BY <1>0, <1>a, <1>7, <2>4, KeepsOn
  <2>6. Keeps(g0, g3, {})
    BY <1>0, <1>a, <1>8, <2>5, KeepsOn
  <2> QED BY <1>0, <1>a, <1>9, <2>6, KeepsOn
<1>11. /\ T(g4, yes) = end /\ F(g4, yes) = 0 /\ Breaks(g4, yes) = {}
       /\ T(g4, no) = end /\ F(g4, no) = 0 /\ Breaks(g4, no) = {}
       /\ T(g4, end) = 0 /\ F(g4, end) = 0 /\ Breaks(g4, end) = {}
       /\ Breaks(g4, start) = {}
  <2>1. /\ Alike(ga, g1, start) /\ Alike(ga, g1, yes) /\ Alike(ga, g1, no) /\ Alike(ga, g1, end)
    BY <1>a, <1>1, <1>2 DEF Keeps
  <2>2. Alike(g1, gb, start) /\ Alike(g1, gb, no) /\ Alike(g1, gb, end)
    BY <1>a, <1>2, <1>4 DEF Keeps
  <2>3. Alike(gb, gc, start) /\ Alike(gb, gc, yes) /\ Alike(gb, gc, end)
    BY <1>a, <1>4, <1>5 DEF Keeps
  <2>4. Alike(gc, g2, yes) /\ Alike(gc, g2, no) /\ Alike(gc, g2, end)
    BY <1>a, <1>5, <1>6 DEF Keeps
  <2>5. Alike(g2, gd, start) /\ Alike(g2, gd, no) /\ Alike(g2, gd, end)
    BY <1>a, <1>6, <1>7 DEF Keeps
  <2>6. Alike(gd, g3, start) /\ Alike(gd, g3, yes) /\ Alike(gd, g3, end)
    BY <1>a, <1>7, <1>8 DEF Keeps
  <2>7. Alike(g3, g4, start) /\ Alike(g3, g4, yes) /\ Alike(g3, g4, no)
    BY <1>a, <1>8, <1>9 DEF Keeps
  <2> QED BY <1>1, <1>3, <1>4, <1>5, <1>6, <1>7, <1>8, <1>9,
             <2>1, <2>2, <2>3, <2>4, <2>5, <2>6, <2>7 DEF Alike
\* The operands.
<1>12. /\ WellFormed(g4) /\ start \in 1..Newest(g4)
       /\ yes \in 0..Newest(g4) /\ no \in 0..Newest(g4)
  BY <1>a, <1>9 DEF Keeps
<1>13. PICK R1 : /\ Operand(g4, h, R1, left.begin, left.end, yes, no)
                 /\ R1 \subseteq {start} \union New(g4, h)
  <2>1. CASE IsBlocks(e.left)
    <3>1. Decides(g4, GetBasicBlock(lower, g4, e.left))
      BY <1>p, <1>12, <2>1, GotBlocks
    <3>2. left = WithExits(GetBasicBlock(lower, g4, e.left), yes, no)
      BY <2>1 DEF left
    <3>3. Operand(g4, h, New(g4, h), left.begin, left.end, yes, no)
      BY <1>12, <3>1, <3>2, OperandOfBlocks DEF h
    <3> QED BY <3>3
  <2>2. CASE ~ IsBlocks(e.left)
    <3>1. Evaluates(g4, start, GetIR(lower, g4, start, e.left))
      BY <1>p, <1>12, GotIR
    <3>2. left = WithExits(InPlace(GetIR(lower, g4, start, e.left)), yes, no)
      BY <2>2 DEF left
    <3>3. Operand(g4, h, {start} \union New(g4, h), left.begin, left.end, yes, no)
      BY <1>11, <1>12, <3>1, <3>2, OperandInPlace DEF h
    <3> QED BY <3>3
  <2> QED BY <2>1, <2>2
<1>14. /\ WellFormed(h) /\ Newest(g4) <= Newest(h) /\ Newest(h) \in Nat
       /\ yes \in 0..Newest(h) /\ no \in 0..Newest(h)
  BY <1>12, <1>13 DEF Operand, Keeps
<1>15. Operand(h, k, New(h, k), right.begin, right.end, yes, no)
  <2>1. CASE IsBlocks(e.right)
    <3>1. Decides(h, GetBasicBlock(lower, h, e.right))
      BY <1>p, <1>14, <2>1, GotBlocks
    <3>2. right = WithExits(GetBasicBlock(lower, h, e.right), yes, no)
      BY <2>1 DEF right
    <3> QED BY <1>14, <3>1, <3>2, OperandOfBlocks DEF k
  <2>2. CASE ~ IsBlocks(e.right)
    <3> DEFINE h1 == NewBlocks(h, 1)
    <3>1. Keeps(h, h1, {}) /\ Newest(h1) = Newest(h) + 1
      BY <1>14, BlocksMade
    <3> HIDE DEF h1
    <3>2. WellFormed(h1) /\ Newest(h) + 1 \in 1..Newest(h1)
      BY <1>14, <3>1 DEF Keeps
    <3>3. Evaluates(h1, Newest(h) + 1, GetIR(lower, h1, Newest(h) + 1, e.right))
      BY <1>p, <3>2, GotIR
    <3>4. right = WithExits(InPlace(GetIR(lower, h1, Newest(h) + 1, e.right)), yes, no)
      BY <2>2 DEF right, h1
    <3> QED BY <1>14, <3>3, <3>4, OperandInNewBlock DEF k, h1
  <2> QED BY <2>1, <2>2
\* The right one is hung on the left one.
<1> DEFINE b1 == left.begin
           e1 == left.end
           b2 == right.begin
           e2 == right.end
<1> HIDE DEF b1, e1, b2, e2
<1>16. /\ Keeps(g4, h, R1) /\ b1 \in R1 /\ e1 \in R1 /\ T(h, e1) = yes /\ F(h, e1) = no
       /\ Leads(h, R1 \ {e1}, b1, e1) /\ h.loops = g0.loops
       /\ \A x \in R1 \union New(g4, h) : Breaks(h, x) = {}
  BY <1>9, <1>13 DEF Operand, b1, e1
<1>17. /\ Keeps(h, k, New(h, k)) /\ b2 \in New(h, k) /\ e2 \in New(h, k)
       /\ T(k, e2) = yes /\ F(k, e2) = no
       /\ Leads(k, New(h, k) \ {e2}, b2, e2) /\ k.loops = g0.loops
       /\ \A x \in New(h, k) : Breaks(k, x) = {}
  BY <1>15, <1>16 DEF Operand, b2, e2
<1>18. /\ Newest(k) \in Nat /\ Newest(h) <= Newest(k) /\ WellFormed(k) /\ N <= Newest(h)
       /\ Newest(g0) < N
       /\ e1 \in 1..Newest(h) /\ e1 \in 1..Newest(k) /\ b2 \in 1..Newest(k)
       /\ b2 # 0 /\ e1 \notin {yes, no, end} /\ e1 \in (Newest(g0) + 1)..Newest(h)
       /\ R1 \subseteq (Newest(g0) + 1)..Newest(h)
       /\ yes \notin R1 /\ no \notin R1 /\ end \notin R1
  <2>1. Newest(k) \in Nat /\ Newest(h) <= Newest(k) /\ WellFormed(k) /\ N <= Newest(h)
    BY <1>9, <1>14, <1>17 DEF Keeps
  <2>2. Newest(g0) < N /\ start > Newest(g0) /\ start \in Nat
    BY <1>0, <1>a DEF N
  <2>3. R1 \subseteq (Newest(g0) + 1)..Newest(h) /\ yes \notin R1 /\ no \notin R1 /\ end \notin R1
    BY <1>0, <1>a, <1>9, <1>13, <1>14, <2>1, <2>2 DEF New
  <2> QED BY <1>0, <1>14, <1>16, <1>17, <2>1, <2>2, <2>3 DEF New
<1>19. /\ Keeps(k, m, {e1}) /\ Newest(m) = Newest(k) /\ m.loops = k.loops
       /\ Breaks(m, e1) = Breaks(k, e1)
       /\ \/ F(m, e1) = F(k, e1)
          \/ F(m, e1) = b2
  <2>1. b2 \in 0..Newest(k)
    BY <1>18
  <2>2. CASE e.is = "and"
    <3>1. m = SetExitWhenTrue(k, e1, b2)
      BY <2>2 DEF m, HangRight, e1, b2
    <3> QED BY <1>18, <2>1, <3>1, ExitWhenTrueSet
  <2>3. CASE e.is # "and"
    <3>1. m = SetExitWhenFalse(k, e1, b2)
      BY <2>3 DEF m, HangRight, e1, b2
    <3> QED BY <1>18, <2>1, <3>1, ExitWhenFalseSet
  <2> QED BY <2>2, <2>3
<1>20. Keeps(h, m, {e1} \union New(h, k))
  BY <1>17, <1>19, KeepsOn
<1>21. Keeps(g4, m, R1)
  <2>1. \A x \in 1..Newest(g4) : x \notin New(h, k)
    BY <1>a, <1>9, <1>14, <1>18 DEF New
  <2> QED BY <1>16, <1>20, <2>1, KeepsOn
<1>22. Keeps(g0, m, {})
  BY <1>0, <1>10, <1>18, <1>21, KeepsOn
<1> DEFINE Q == New(g0, m) \ {end}
<1>23. /\ yes \in New(g0, m) /\ no \in Q /\ end \in New(g0, m) /\ b1 \in New(g0, m)
       /\ e1 \in Q /\ e2 \in Q
  BY SMTT(30), <1>0, <1>a, <1>14, <1>16, <1>17, <1>18, <1>19 DEF New, N
<1>24. /\ T(m, no) = end /\ F(m, no) = 0 /\ Breaks(m, no) = {}
       /\ Breaks(m, yes) = {}
       /\ T(m, end) = 0 /\ F(m, end) = 0 /\ Breaks(m, end) = {}
  <2>1. Alike(g4, m, yes) /\ Alike(g4, m, no) /\ Alike(g4, m, end)
    BY <1>a, <1>9, <1>18, <1>21 DEF Keeps
  <2> QED BY <1>11, <2>1 DEF Alike
<1>25. Leads(m, Q, no, end)
  <2>1. First(m, no) = end
    BY <1>24 DEF First
  <2> QED BY <1>23, <2>1, LeadsFrom, LeadsHere
<1>26. Leads(m, Q, b2, end)
  <2>1. \A z \in New(h, k) \ {e2} : z \in 1..Newest(k) /\ z \notin {e1} /\ z \in Q
    BY <1>0, <1>a, <1>14, <1>18, <1>19 DEF New, N
  <2>2. Leads(m, Q, b2, e2)
    BY <1>17, <1>19, <2>1, LeadsLater
  <2>3. e2 \in 1..Newest(k) /\ e2 # e1
    BY <1>14, <1>17, <1>18 DEF New
  <2>4. First(m, e2) = no
    BY <1>a, <1>17, <1>19, <2>3 DEF First, Keeps, Alike
  <2> QED BY <1>23, <1>25, <2>2, <2>4, LeadsFrom, LeadsOn
<1>27. Leads(m, Q, b1, end)
  <2>1. \A z \in R1 \ {e1} : /\ z \in 1..Newest(h) /\ z \notin {e1} \union New(h, k)
                             /\ z \in Q
    BY <1>0, <1>14, <1>18, <1>19 DEF New
  <2>2. Leads(m, Q, b1, e1)
    BY <1>16, <1>20, <2>1, LeadsLater
  <2>3. F(k, e1) = no
    BY <1>16, <1>17, <1>18 DEF Keeps, Alike, New
  <2>4. First(m, e1) = no \/ First(m, e1) = b2
    BY <1>a, <1>18, <1>19, <2>3 DEF First
  <2>5. CASE First(m, e1) = no
    BY <1>23, <1>25, <2>2, <2>5, LeadsFrom, LeadsOn
  <2>6. CASE First(m, e1) = b2
    BY <1>23, <1>26, <2>2, <2>6, LeadsFrom, LeadsOn
  <2> QED BY <2>4, <2>5, <2>6
<1>28. ASSUME NEW x \in New(g0, m) PROVE Breaks(m, x) = {}
  <2>1. x \in 1..Newest(m) /\ x > Newest(g0)
    BY <1>0, <1>18, <1>19 DEF New
  <2>2. CASE x > Newest(h)
    <3>1. x \in New(h, k) /\ x # e1
      BY <1>14, <1>18, <1>19, <2>1, <2>2 DEF New
    <3> QED BY <1>14, <1>17, <1>18, <1>19, <2>1, <3>1 DEF Keeps, Alike
  <2>3. CASE x <= Newest(h) /\ (x > N \/ x = start)
    <3>1. Breaks(h, x) = {}
      <4>1. CASE x > N
        <5>1. x \in New(g4, h)
          BY <1>a, <1>9, <1>14, <1>18, <2>1, <2>3, <4>1 DEF New
        <5> QED BY <1>16, <5>1
      <4>2. CASE x = start
        <5>1. CASE x \in R1
          BY <1>16, <5>1
        <5>2. CASE x \notin R1
          BY <1>11, <1>12, <1>16, <4>2, <5>2 DEF Keeps, Alike
        <5> QED BY <5>1, <5>2
      <4> QED BY <2>3, <4>1, <4>2
    <3>2. x \in 1..Newest(h) /\ x \notin New(h, k) /\ x \in 1..Newest(k)
      BY <1>14, <1>18, <2>1, <2>3 DEF New
    <3>3. Breaks(k, x) = {}
      BY <1>17, <3>1, <3>2 DEF Keeps, Alike
    <3> QED BY <1>19, <3>2, <3>3 DEF Keeps, Alike
  <2>4. CASE x \in {yes, no, end}
    BY <1>24, <2>4
  <2>5. x > N \/ x \in {start, yes, no, end}
    BY <1>0, <1>a, <2>1 DEF N
  <2> QED BY <1>14, <2>1, <2>2, <2>3, <2>4, <2>5
<1>29. chain.g = m /\ chain.begin = b1 /\ chain.end = end /\ chain.into \in Nat
  BY <1>c, <1>2 DEF b1
<1>30. m.loops = g0.loops
  BY <1>17, <1>19
<1>31. Encloses(g0, chain)
  BY <1>22, <1>23, <1>24, <1>27, <1>28, <1>29, <1>30 DEF Encloses
<1> QED BY <1>e, <1>28, <1>29, <1>31 DEF Decides

-----------------------------------------------------------------------------
(* The control structures *)

(* A body that is spliced in at b, of which nothing is changed any more: if  *)
(* the exit of b leads on to end, so does all of it.                         *)
LEMMA BodyLater ==
  ASSUME NEW g, NEW b \in 1..Newest(g), Breaks(g, b) = {}, NEW ir, Continues(g, b, ir),
         NEW m, NEW V, NEW Q, NEW end, NEW less, Keeps(ir.g, m, V),
         \A x \in {b} \union New(g, ir.g) : x \notin V /\ x \in Q,
         Leads(m, Q, First(g, b), end),
         LoopEnds(g) \subseteq less \union {end}
  PROVE  /\ Leads(m, Q, b, end) /\ Leads(m, Q, ir.block, end)
         /\ \A x \in {b} \union New(g, ir.g) : \A l \in Breaks(m, x) :
              Lands(m, Q, x, l, end, less)
<1> DEFINE h == ir.g
           e == ir.block
           R == {b} \union New(g, h)
<1>1. /\ Keeps(g, h, {b}) /\ e \in R
      /\ T(h, e) = T(g, b) /\ F(h, e) = F(g, b)
      /\ Leads(h, R \ {e}, b, e)
      /\ \A x \in R : \A l \in Breaks(h, x) : Lands(h, R \ {e}, x, l, e, LoopEnds(g))
  BY DEF Continues
<1>2. \A x \in R : x \notin V /\ x \in Q
  OBVIOUS
<1>3. Keeps(h, m, V)
  OBVIOUS
<1>4. \A x \in R : x \in 1..Newest(h)
  BY <1>1 DEF Keeps, New
<1> HIDE DEF h, e, R
<1>5. \A x \in R : Alike(h, m, x)
  BY <1>2, <1>3, <1>4 DEF Keeps
<1>6. First(m, e) = First(g, b)
  BY <1>1, <1>5 DEF First, Alike
<1>7. Leads(m, Q, e, end)
  BY <1>1, <1>2, <1>6, LeadsFrom
<1>8. \A z \in R \ {e} : z \in 1..Newest(h) /\ z \notin V /\ z \in Q
  BY <1>2, <1>4
<1>9. Leads(m, Q, b, end)
  BY <1>1, <1>3, <1>7, <1>8, LeadsLater, LeadsOn
<1>10. ASSUME NEW x \in R, NEW l \in Breaks(m, x)
       PROVE  Lands(m, Q, x, l, end, less)
  <2>1. Lands(h, R \ {e}, x, l, e, LoopEnds(g))
    BY <1>1, <1>5, <1>10 DEF Alike
  <2> QED BY <1>3, <1>7, <1>8, <2>1, LandsLater
<1> QED BY <1>7, <1>9, <1>10 DEF R, h, e

(* The condition of a loop, whose block is cond: there are no breaks in it,  *)
(* and the exit that is emitted first goes to the end of the loop.           *)
Decided(g, h, cond, end) ==
  /\ Keeps(g, h, {cond}) /\ h.loops = g.loops
  /\ Leads(h, {cond} \union New(g, h), cond, end)
  /\ \A x \in {cond} \union New(g, h) : Breaks(h, x) = {}

LEMMA DecidedLater ==
  ASSUME NEW g, NEW h, NEW cond \in 1..Newest(g), NEW end, Decided(g, h, cond, end),
         NEW m, NEW V, NEW Q, Keeps(h, m, V),
         \A x \in {cond} \union New(g, h) : x \notin V /\ x \in Q
  PROVE  /\ \A x, y \in {cond} \union New(g, h) \union {end} :
              Leads(h, {cond} \union New(g, h), x, y) => Leads(m, Q, x, y)
         /\ Leads(m, Q, cond, end)
         /\ \A x \in {cond} \union New(g, h) : Breaks(m, x) = {}
<1> DEFINE R == {cond} \union New(g, h)
<1>1. \A x \in R : x \in 1..Newest(h)
  BY DEF Decided, Keeps, New
<1>2. \A x \in R : x \in 1..Newest(h) /\ x \notin V /\ x \in Q
  BY <1>1
<1>3. Leads(h, R, cond, end) /\ \A x \in R : Breaks(h, x) = {}
  BY DEF Decided
<1> HIDE DEF R
<1>4. \A x, y \in R \union {end} : Leads(h, R, x, y) => Leads(m, Q, x, y)
  BY <1>2, LeadsLater
<1>5. Leads(m, Q, cond, end)
  BY <1>2, <1>3, LeadsLater
<1>6. \A x \in R : Breaks(m, x) = {}
  BY <1>2, <1>3 DEF Keeps, Alike
<1> QED BY <1>4, <1>5, <1>6 DEF R

(* A condition that is evaluated in its block.                               *)
LEMMA EvaluatedThere ==
  ASSUME NEW g, WellFormed(g), NEW cond \in 1..Newest(g), Breaks(g, cond) = {},
         NEW end, F(g, cond) = end, end # 0, NEW ir, Evaluates(g, cond, ir)
  PROVE  /\ Decided(g, ir.g, cond, end) /\ ir.block \in {cond} \union New(g, ir.g)
         /\ Leads(ir.g, {cond} \union New(g, ir.g), ir.block, end)
<1> DEFINE h == ir.g
           e == ir.block
           R == {cond} \union New(g, h)
<1>1. /\ Keeps(g, h, {cond}) /\ h.loops = g.loops /\ e \in R /\ F(h, e) = F(g, cond)
      /\ Leads(h, R \ {e}, cond, e)
      /\ \A x \in R : Breaks(h, x) = {}
  BY DEF Evaluates, Continues
<1>2. Leads(h, R, e, end)
  <2>1. First(h, e) = end
    BY <1>1 DEF First
  <2> QED BY <1>1, <2>1, LeadsFrom, LeadsHere
<1>3. Leads(h, R, cond, e)
  BY <1>1 DEF Leads
<1>4. Leads(h, R, cond, end)
  BY <1>2, <1>3, LeadsOn
<1> QED BY <1>1, <1>2, <1>4 DEF Decided

LEMMA LoopDecided ==
  ASSUME NEW lower, NEW n \in 0..Depth, Lowers(lower, n), NEW e \in Expressions[n],
         NEW g, WellFormed(g), NEW cond \in 1..Newest(g), Breaks(g, cond) = {},
         NEW yes \in 0..Newest(g), NEW no \in 1..Newest(g), F(g, cond) = no
  PROVE  LET c == LoopCondition(lower, g, cond, e, yes, no) IN
         /\ Decided(g, c.g, cond, no) /\ c.block \in {cond} \union New(g, c.g)
         /\ Leads(c.g, {cond} \union New(g, c.g), c.block, no)
<1> DEFINE c == LoopCondition(lower, g, cond, e, yes, no)
<1>1. CASE ~ IsBlocks(e)
  <2>1. c = GetIR(lower, g, cond, e)
    BY <1>1 DEF LoopCondition
  <2> HIDE DEF c
  <2>2. Evaluates(g, cond, c)
    BY <2>1, GotIR
  <2>3. no # 0
    OBVIOUS
  <2>4. /\ Decided(g, c.g, cond, no) /\ c.block \in {cond} \union New(g, c.g)
        /\ Leads(c.g, {cond} \union New(g, c.g), c.block, no)
    BY <2>2, <2>3, EvaluatedThere
  <2> QED BY <2>4 DEF c
<1>2. CASE IsBlocks(e)
  <2> DEFINE chain == WithExits(GetBasicBlock(lower, g, e), yes, no)
             h == chain.g
             end == chain.end
             h1 == SetExitWhenTrue(h, cond, chain.begin)
             k == NewWhenTrueBlock(h1, end)
             child == Newest(h) + 1
             R == {cond} \union New(g, k)
  <2>0. c = [g |-> k, block |-> Newest(k)]
    BY <1>2, Zenon DEF LoopCondition, k, h1, h, end, chain
  <2>1. Operand(g, h, New(g, h), chain.begin, end, yes, no)
    <3>1. Decides(g, GetBasicBlock(lower, g, e))
      BY <1>2, GotBlocks
    <3>2. no \in 0..Newest(g)
      OBVIOUS
    <3> QED BY <3>1, <3>2, OperandOfBlocks
  <2> HIDE DEF chain, c
  <2>2. /\ Keeps(g, h, New(g, h)) /\ h.loops = g.loops
        /\ chain.begin \in New(g, h) /\ end \in New(g, h)
        /\ T(h, end) = yes /\ F(h, end) = no
        /\ \A x \in New(g, h) : Breaks(h, x) = {}
    BY <2>1 DEF Operand
  <2> HIDE DEF h, end
  <2>3. /\ Newest(g) \in Nat /\ Newest(h) \in Nat /\ Newest(g) <= Newest(h) /\ WellFormed(h)
        /\ cond \in 1..Newest(h) /\ chain.begin \in 0..Newest(h) /\ end \in 1..Newest(h)
        /\ end # cond /\ Alike(g, h, cond) /\ Keeps(g, h, {})
    BY <2>2 DEF Keeps, New
  <2>4. /\ Keeps(h, h1, {cond}) /\ Newest(h1) = Newest(h) /\ h1.loops = h.loops
        /\ F(h1, cond) = F(h, cond) /\ Breaks(h1, cond) = Breaks(h, cond)
    BY <2>3, ExitWhenTrueSet
  <2> HIDE DEF h1
  <2>5. WellFormed(h1) /\ end \in 1..Newest(h1) /\ Alike(h, h1, end)
    BY <2>3, <2>4 DEF Keeps
  <2>6. /\ Keeps(h1, k, {end}) /\ Newest(k) = child /\ k.loops = h1.loops
        /\ Breaks(k, end) = Breaks(h1, end)
        /\ F(k, child) = F(h1, end) /\ Breaks(k, child) = {}
    BY <2>4, <2>5, ChildMade
  <2> HIDE DEF k
  <2>7. Alike(h1, k, cond)
    BY <2>3, <2>4, <2>6 DEF Keeps
  <2>8. Keeps(g, k, {cond})
    <3>1. Keeps(g, h1, {cond})
      BY <2>3, <2>4, KeepsOn
    <3>2. end \notin 1..Newest(g)
      BY <2>2, <2>3 DEF New
    <3> QED BY <2>6, <3>1, <3>2, KeepsOn
  <2>9. First(k, cond) = no /\ First(k, child) = no
    BY <2>2, <2>3, <2>4, <2>5, <2>6, <2>7 DEF First, Alike
  <2>10. child \in R /\ cond \in R /\ Newest(k) = child
    BY <2>3, <2>6 DEF New
  <2>11. Leads(k, R, cond, no) /\ Leads(k, R, child, no)
    BY <2>9, <2>10, LeadsFrom, LeadsHere
  <2>12. ASSUME NEW x \in R PROVE Breaks(k, x) = {}
    <3>1. x = cond \/ x = child \/ x \in New(g, h)
      BY <2>3, <2>6 DEF New
    <3>2. CASE x = cond
      BY <2>3, <2>4, <2>7, <3>2 DEF Alike
    <3>3. CASE x = child
      BY <2>6, <3>3
    <3>4. CASE x \in New(g, h)
      <4>1. CASE x = end
        BY <2>2, <2>5, <2>6, <4>1 DEF Alike
      <4>2. CASE x # end
        <5>1. x \in 1..Newest(h) /\ x # cond /\ x \in 1..Newest(h1)
          BY <2>3, <2>4, <3>4 DEF New
        <5> QED BY <2>2, <2>4, <2>6, <3>4, <4>2, <5>1 DEF Keeps, Alike
      <4> QED BY <4>1, <4>2
    <3> QED BY <3>1, <3>2, <3>3, <3>4
  <2>13. Decided(g, k, cond, no)
    BY <2>2, <2>4, <2>6, <2>8, <2>11, <2>12 DEF Decided
  <2>14. c.g = k /\ c.block = child
    BY <2>0, <2>10
  <2> QED BY <2>10, <2>11, <2>13, <2>14 DEF c
<1> QED BY <1>1, <1>2

LEMMA WhileMade ==
  ASSUME NEW n \in 1..Depth, NEW lower, Lowers(lower, n - 1),
         NEW s, s.cond \in Expressions[n - 1], s.body \in Seq(Statements[n - 1]),
         NEW g0, WellFormed(g0)
  PROVE  Encloses(g0, WhileBlocks(lower, g0, s))
<1> DEFINE cond == Newest(g0) + 1
           then == cond + 1
           end == cond + 2
           ga == NewBlocks(g0, 3)
           g1 == PushLoopEnd(ga, end)
           gb == SetExits(g1, cond, then, end)
           g2 == SetExitWhenTrue(gb, then, cond)
           c == LoopCondition(lower, g2, cond, s.cond, then, end)
           h == c.g
           body == Splice(lower, h, then, s.body)
           k == body.g
           m == PopLoopEnd(k)
           chain == [g |-> m, begin |-> c.block, end |-> end]
           N == Newest(g0) + 3
           Q == New(g0, m) \ {end}
<1>0. Newest(g0) \in Nat
  BY GraphType DEF WellFormed
<1>e. WhileBlocks(lower, g0, s) = chain
  BY Zenon DEF WhileBlocks, chain, m, k, body, h, c, g2, gb, g1, ga, end, then, cond
<1>c. chain.g = m /\ chain.begin = c.block /\ chain.end = end
  OBVIOUS
<1> HIDE DEF chain, m, k, body, h, c
<1>p. n - 1 \in 0..Depth
  BY DepthAssumption
<1>a. /\ N \in Nat /\ Newest(g0) < N
      /\ cond \in (Newest(g0) + 1)..N /\ then \in (Newest(g0) + 1)..N
      /\ end \in (Newest(g0) + 1)..N
      /\ cond # then /\ cond # end /\ then # end
      /\ \A x \in (Newest(g0) + 1)..N : x \in {cond, then, end}
  BY SMTT(30), <1>0
<1>b. cond \in 1..N /\ then \in 1..N /\ end \in 1..N /\ cond # 0 /\ then # 0 /\ end # 0
  BY <1>0
<1> HIDE DEF cond, then, end
\* The three blocks.
<1>1. /\ Keeps(g0, ga, {}) /\ Newest(ga) = N /\ ga.loops = g0.loops
      /\ \A x \in {cond, then, end} : T(ga, x) = 0 /\ F(ga, x) = 0 /\ Breaks(ga, x) = {}
  <2>1. /\ Keeps(g0, ga, {}) /\ Newest(ga) = Newest(g0) + 3 /\ ga.loops = g0.loops
        /\ \A x \in (Newest(g0) + 1)..(Newest(g0) + 3) :
             T(ga, x) = 0 /\ F(ga, x) = 0 /\ Breaks(ga, x) = {}
    BY BlocksMade
  <2> QED BY <1>a, <2>1
<1> HIDE DEF ga, N
<1>2. /\ Keeps(ga, g1, {}) /\ Newest(g1) = N /\ g1.loops = Append(g0.loops, end)
      /\ g0.loops \in Seq(Nat \ {NoBlock}) /\ LoopEnds(g1) = LoopEnds(g0) \union {end}
  <2>1. WellFormed(ga) /\ end \in Nat \ {NoBlock}
    BY <1>b, <1>1 DEF Keeps, NoBlock
  <2>2. LoopEnds(ga) = LoopEnds(g0)
    BY <1>1 DEF LoopEnds
  <2> QED BY <1>1, <2>1, <2>2, LoopEndPushed
<1> HIDE DEF g1
<1>3. /\ Keeps(g1, gb, {cond}) /\ Newest(gb) = N /\ gb.loops = g1.loops
      /\ T(gb, cond) = then /\ F(gb, cond) = end /\ Breaks(gb, cond) = Breaks(g1, cond)
  <2>1. /\ WellFormed(g1) /\ cond \in 1..Newest(g1)
        /\ then \in 0..Newest(g1) /\ end \in 0..Newest(g1)
    BY <1>b, <1>2 DEF Keeps
  <2> QED BY <1>2, <2>1, BothExitsSet
<1> HIDE DEF gb
<1>4. /\ Keeps(gb, g2, {then}) /\ Newest(g2) = N /\ g2.loops = g1.loops
      /\ T(g2, then) = cond /\ F(g2, then) = F(gb, then) /\ Breaks(g2, then) = Breaks(gb, then)
  <2>1. WellFormed(gb) /\ then \in 1..Newest(gb) /\ cond \in 0..Newest(gb)
    BY <1>b, <1>3 DEF Keeps
  <2> QED BY <1>3, <2>1, ExitWhenTrueSet
<1> HIDE DEF g2
<1>5. Keeps(g0, g2, {})
  <2>1. Keeps(g0, g1, {})
    BY <1>1, <1>2, KeepsOn
  <2>2. Keeps(g0, gb, {})
    BY <1>0, <1>a, <1>3, <2>1, KeepsOn
  <2> QED BY <1>0, <1>a, <1>4, <2>2, KeepsOn
<1>6. /\ F(g2, cond) = end /\ Breaks(g2, cond) = {}
      /\ T(g2, then) = cond /\ F(g2, then) = 0 /\ Breaks(g2, then) = {}
      /\ T(g2, end) = 0 /\ F(g2, end) = 0 /\ Breaks(g2, end) = {}
  <2>1. Alike(ga, g1, cond) /\ Alike(ga, g1, then) /\ Alike(ga, g1, end)
    BY <1>b, <1>1, <1>2 DEF Keeps
  <2>2. Alike(g1, gb, then) /\ Alike(g1, gb, end)
    BY <1>a, <1>b, <1>2, <1>3 DEF Keeps
  <2>3. Alike(gb, g2, cond) /\ Alike(gb, g2, end)
    BY <1>a, <1>b, <1>3, <1>4 DEF Keeps
  <2> QED BY <1>1, <1>3, <1>4, <2>1, <2>2, <2>3 DEF Alike
\* The condition and the body.
<1> DEFINE R == {cond} \union New(g2, h)
<1>7. Decided(g2, h, cond, end) /\ c.block \in R /\ Leads(h, R, c.block, end)
  <2>1. /\ WellFormed(g2) /\ cond \in 1..Newest(g2)
        /\ then \in 0..Newest(g2) /\ end \in 1..Newest(g2)
    BY <1>b, <1>4 DEF Keeps
  <2> QED BY <1>p, <1>6, <2>1, LoopDecided DEF c, h
<1>8. /\ Keeps(g2, h, {cond}) /\ h.loops = g1.loops /\ WellFormed(h)
      /\ Newest(h) \in Nat /\ N <= Newest(h)
      /\ Alike(g2, h, then) /\ Alike(g2, h, end)
  <2>1. Keeps(g2, h, {cond}) /\ h.loops = g1.loops
    BY <1>4, <1>7 DEF Decided
  <2> QED BY <1>a, <1>b, <1>4, <2>1 DEF Keeps
<1>9. Continues(h, then, body)
  <2>1. then \in 1..Newest(h) /\ F(h, then) = 0
    BY <1>a, <1>b, <1>6, <1>8 DEF Alike
  <2> QED BY <1>8, <2>1, Spliced DEF body
<1>10. /\ Keeps(h, k, {then}) /\ k.loops = g1.loops /\ WellFormed(k)
       /\ Newest(k) \in Nat /\ Newest(h) <= Newest(k)
  <2>1. Keeps(h, k, {then}) /\ k.loops = g1.loops
    BY <1>8, <1>9 DEF Continues, k
  <2> QED BY <2>1 DEF Keeps
<1>11. Keeps(k, m, {}) /\ Newest(m) = Newest(k) /\ m.loops = g0.loops
  BY <1>2, <1>10, LoopEndPopped DEF m
<1>12. Keeps(h, m, {then})
  BY <1>10, <1>11, KeepsOn
<1>13. Keeps(g0, m, {})
  <2>1. Keeps(g0, h, {})
    BY <1>0, <1>a, <1>5, <1>8, KeepsOn
  <2> QED BY <1>0, <1>a, <1>12, <2>1, KeepsOn
\* Where it leads.
<1>14. /\ \A x \in R : x \in Q /\ x # then
       /\ \A x \in {then} \union New(h, k) : x \in Q
  BY SMTT(30), <1>0, <1>a, <1>4, <1>8, <1>10, <1>11 DEF New
<1>15. /\ Leads(m, Q, c.block, end) /\ Leads(m, Q, cond, end)
       /\ \A x \in R : Breaks(m, x) = {}
  <2>1. \A x \in R : x \notin {then} /\ x \in Q
    BY <1>14
  <2>2. cond \in 1..Newest(g2)
    BY <1>b, <1>4
  <2> HIDE DEF Q
  <2>3. /\ \A x, y \in R \union {end} : Leads(h, R, x, y) => Leads(m, Q, x, y)
        /\ Leads(m, Q, cond, end)
        /\ \A x \in R : Breaks(m, x) = {}
    BY <1>7, <1>12, <2>1, <2>2, DecidedLater
  <2> QED BY <1>7, <2>3
<1>16. \A x \in {then} \union New(h, k) : \A l \in Breaks(m, x) :
         Lands(m, Q, x, l, end, LoopEnds(g0))
  <2>1. then \in 1..Newest(h) /\ Breaks(h, then) = {} /\ First(h, then) = cond
    BY <1>a, <1>b, <1>6, <1>8 DEF Alike, First
  <2>2. LoopEnds(h) \subseteq LoopEnds(g0) \union {end}
    BY <1>2, <1>8 DEF LoopEnds
  <2>3. Leads(m, Q, First(h, then), end)
    BY <1>15, <2>1
  <2>4. \A x \in {then} \union New(h, body.g) : x \notin {} /\ x \in Q
    BY <1>14 DEF k
  <2>5. Keeps(body.g, m, {})
    BY <1>11 DEF k
  <2> HIDE DEF Q
  <2> QED BY <1>9, <2>1, <2>2, <2>3, <2>4, <2>5, BodyLater DEF k
<1>17. T(m, end) = 0 /\ F(m, end) = 0 /\ Breaks(m, end) = {}
  <2>1. Alike(h, m, end)
    BY <1>a, <1>b, <1>8, <1>12 DEF Keeps
  <2> QED BY <1>6, <1>8, <2>1 DEF Alike
<1>18. ASSUME NEW x \in New(g0, m), NEW l \in Breaks(m, x)
       PROVE  Lands(m, Q, x, l, end, LoopEnds(g0))
  <2>1. x \in R \/ x \in {then} \union New(h, k) \/ x = end
    <3>1. x \in (Newest(g0) + 1)..Newest(m)
      BY DEF New
    <3> QED BY <1>0, <1>a, <1>4, <1>8, <1>10, <1>11, <3>1 DEF New
  <2> QED BY <1>15, <1>16, <1>17, <1>18, <2>1
<1>19. c.block \in New(g0, m) /\ end \in New(g0, m)
  BY <1>0, <1>a, <1>7, <1>8, <1>10, <1>11, <1>14 DEF New
<1>20. Encloses(g0, chain)
  BY <1>c, <1>11, <1>13, <1>15, <1>17, <1>18, <1>19 DEF Encloses
<1> QED BY <1>e, <1>20

LEMMA DoMade ==
  ASSUME NEW n \in 1..Depth, NEW lower, Lowers(lower, n - 1),
         NEW s, s.cond \in Expressions[n - 1], s.body \in Seq(Statements[n - 1]),
         NEW g0, WellFormed(g0)
  PROVE  Encloses(g0, DoBlocks(lower, g0, s))
<1> DEFINE cond == Newest(g0) + 1
           action == cond + 1
           end == cond + 2
           ga == NewBlocks(g0, 3)
           g1 == PushLoopEnd(ga, end)
           gb == SetExitWhenTrue(g1, action, cond)
           g2 == SetExits(gb, cond, action, end)
           c == LoopCondition(lower, g2, cond, s.cond, action, end)
           h == c.g
           body == Splice(lower, h, action, s.body)
           k == body.g
           m == PopLoopEnd(k)
           chain == [g |-> m, begin |-> body.block, end |-> end]
           N == Newest(g0) + 3
           Q == New(g0, m) \ {end}
<1>0. Newest(g0) \in Nat
  BY GraphType DEF WellFormed
<1>e. DoBlocks(lower, g0, s) = chain
  BY Zenon DEF DoBlocks, chain, m, k, body, h, c, g2, gb, g1, ga, end, action, cond
<1>c. chain.g = m /\ chain.begin = body.block /\ chain.end = end
  OBVIOUS
<1> HIDE DEF chain, m, k, body, h, c
<1>p. n - 1 \in 0..Depth
  BY DepthAssumption
<1>a. /\ N \in Nat /\ Newest(g0) < N
      /\ cond \in (Newest(g0) + 1)..N /\ action \in (Newest(g0) + 1)..N
      /\ end \in (Newest(g0) + 1)..N
      /\ cond # action /\ cond # end /\ action # end
      /\ \A x \in (Newest(g0) + 1)..N : x \in {cond, action, end}
  BY SMTT(30), <1>0
<1>b. cond \in 1..N /\ action \in 1..N /\ end \in 1..N /\ cond # 0 /\ action # 0 /\ end # 0
  BY <1>0
<1> HIDE DEF cond, action, end
\* The three blocks.
<1>1. /\ Keeps(g0, ga, {}) /\ Newest(ga) = N /\ ga.loops = g0.loops
      /\ \A x \in {cond, action, end} : T(ga, x) = 0 /\ F(ga, x) = 0 /\ Breaks(ga, x) = {}
  <2>1. /\ Keeps(g0, ga, {}) /\ Newest(ga) = Newest(g0) + 3 /\ ga.loops = g0.loops
        /\ \A x \in (Newest(g0) + 1)..(Newest(g0) + 3) :
             T(ga, x) = 0 /\ F(ga, x) = 0 /\ Breaks(ga, x) = {}
    BY BlocksMade
  <2> QED BY <1>a, <2>1
<1> HIDE DEF ga, N
<1>2. /\ Keeps(ga, g1, {}) /\ Newest(g1) = N /\ g1.loops = Append(g0.loops, end)
      /\ g0.loops \in Seq(Nat \ {NoBlock}) /\ LoopEnds(g1) = LoopEnds(g0) \union {end}
  <2>1. WellFormed(ga) /\ end \in Nat \ {NoBlock}
    BY <1>b, <1>1 DEF Keeps, NoBlock
  <2>2. LoopEnds(ga) = LoopEnds(g0)
    BY <1>1 DEF LoopEnds
  <2> QED BY <1>1, <2>1, <2>2, LoopEndPushed
<1> HIDE DEF g1
<1>3. /\ Keeps(g1, gb, {action}) /\ Newest(gb) = N /\ gb.loops = g1.loops
      /\ T(gb, action) = cond /\ F(gb, action) = F(g1, action)
      /\ Breaks(gb, action) = Breaks(g1, action)
  <2>1. WellFormed(g1) /\ action \in 1..Newest(g1) /\ cond \in 0..Newest(g1)
    BY <1>b, <1>2 DEF Keeps
  <2> QED BY <1>2, <2>1, ExitWhenTrueSet
<1> HIDE DEF gb
<1>4. /\ Keeps(gb, g2, {cond}) /\ Newest(g2) = N /\ g2.loops = g1.loops
      /\ T(g2, cond) = action /\ F(g2, cond) = end /\ Breaks(g2, cond) = Breaks(gb, cond)
  <2>1. /\ WellFormed(gb) /\ cond \in 1..Newest(gb)
        /\ action \in 0..Newest(gb) /\ end \in 0..Newest(gb)
    BY <1>b, <1>3 DEF Keeps
  <2> QED BY SMTT(30), <1>3, <2>1, BothExitsSet
<1> HIDE DEF g2
<1>5. Keeps(g0, g2, {})
  <2>1. Keeps(g0, g1, {})
    BY <1>1, <1>2, KeepsOn
  <2>2. Keeps(g0, gb, {})
    BY <1>0, <1>a, <1>3, <2>1, KeepsOn
  <2> QED BY <1>0, <1>a, <1>4, <2>2, KeepsOn
<1>6. /\ F(g2, cond) = end /\ Breaks(g2, cond) = {}
      /\ T(g2, action) = cond /\ F(g2, action) = 0 /\ Breaks(g2, action) = {}
      /\ T(g2, end) = 0 /\ F(g2, end) = 0 /\ Breaks(g2, end) = {}
  <2>1. Alike(ga, g1, cond) /\ Alike(ga, g1, action) /\ Alike(ga, g1, end)
    BY <1>b, <1>1, <1>2 DEF Keeps
  <2>2. Alike(g1, gb, cond) /\ Alike(g1, gb, end)
    BY <1>a, <1>b, <1>2, <1>3 DEF Keeps
  <2>3. Alike(gb, g2, action) /\ Alike(gb, g2, end)
    BY <1>a, <1>b, <1>3, <1>4 DEF Keeps
  <2> QED BY <1>1, <1>3, <1>4, <2>1, <2>2, <2>3 DEF Alike
\* The condition and the body.
<1> DEFINE R == {cond} \union New(g2, h)
<1>7. Decided(g2, h, cond, end)
  <2>1. /\ WellFormed(g2) /\ cond \in 1..Newest(g2)
        /\ action \in 0..Newest(g2) /\ end \in 1..Newest(g2)
    BY <1>b, <1>4 DEF Keeps
  <2> QED BY <1>p, <1>6, <2>1, LoopDecided DEF c, h
<1>8. /\ Keeps(g2, h, {cond}) /\ h.loops = g1.loops /\ WellFormed(h)
      /\ Newest(h) \in Nat /\ N <= Newest(h)
      /\ Alike(g2, h, action) /\ Alike(g2, h, end)
  <2>1. Keeps(g2, h, {cond}) /\ h.loops = g1.loops
    BY <1>4, <1>7 DEF Decided
  <2> QED BY <1>a, <1>b, <1>4, <2>1 DEF Keeps
<1>9. Continues(h, action, body)
  <2>1. action \in 1..Newest(h) /\ F(h, action) = 0
    BY <1>a, <1>b, <1>6, <1>8 DEF Alike
  <2> QED BY <1>8, <2>1, Spliced DEF body
<1>10. /\ Keeps(h, k, {action}) /\ k.loops = g1.loops /\ WellFormed(k)
       /\ Newest(k) \in Nat /\ Newest(h) <= Newest(k)
  <2>1. Keeps(h, k, {action}) /\ k.loops = g1.loops
    BY <1>8, <1>9 DEF Continues, k
  <2> QED BY <2>1 DEF Keeps
<1>11. Keeps(k, m, {}) /\ Newest(m) = Newest(k) /\ m.loops = g0.loops
  BY <1>2, <1>10, LoopEndPopped DEF m
<1>12. Keeps(h, m, {action})
  BY <1>10, <1>11, KeepsOn
<1>13. Keeps(g0, m, {})
  <2>1. Keeps(g0, h, {})
    BY <1>0, <1>a, <1>5, <1>8, KeepsOn
  <2> QED BY <1>0, <1>a, <1>12, <2>1, KeepsOn
\* Where it leads.
<1>14. /\ \A x \in R : x \in Q /\ x # action
       /\ \A x \in {action} \union New(h, k) : x \in Q
  BY SMTT(30), <1>0, <1>a, <1>4, <1>8, <1>10, <1>11 DEF New
<1>15. /\ Leads(m, Q, cond, end)
       /\ \A x \in R : Breaks(m, x) = {}
  <2>1. \A x \in R : x \notin {action} /\ x \in Q
    BY <1>14
  <2>2. cond \in 1..Newest(g2)
    BY <1>b, <1>4
  <2> HIDE DEF Q
  <2>3. /\ \A x, y \in R \union {end} : Leads(h, R, x, y) => Leads(m, Q, x, y)
        /\ Leads(m, Q, cond, end)
        /\ \A x \in R : Breaks(m, x) = {}
    BY <1>7, <1>12, <2>1, <2>2, DecidedLater
  <2> QED BY <2>3
<1>16. /\ Leads(m, Q, body.block, end)
       /\ \A x \in {action} \union New(h, k) : \A l \in Breaks(m, x) :
            Lands(m, Q, x, l, end, LoopEnds(g0))
  <2>1. action \in 1..Newest(h) /\ Breaks(h, action) = {} /\ First(h, action) = cond
    BY <1>a, <1>b, <1>6, <1>8 DEF Alike, First
  <2>2. LoopEnds(h) \subseteq LoopEnds(g0) \union {end}
    BY <1>2, <1>8 DEF LoopEnds
  <2>3. Leads(m, Q, First(h, action), end)
    BY <1>15, <2>1
  <2>4. \A x \in {action} \union New(h, body.g) : x \notin {} /\ x \in Q
    BY <1>14 DEF k
  <2>5. Keeps(body.g, m, {})
    BY <1>11 DEF k
  <2> HIDE DEF Q
  <2> QED BY <1>9, <2>1, <2>2, <2>3, <2>4, <2>5, BodyLater DEF k
<1>17. T(m, end) = 0 /\ F(m, end) = 0 /\ Breaks(m, end) = {}
  <2>1. Alike(h, m, end)
    BY <1>a, <1>b, <1>8, <1>12 DEF Keeps
  <2> QED BY <1>6, <1>8, <2>1 DEF Alike
<1>18. ASSUME NEW x \in New(g0, m), NEW l \in Breaks(m, x)
       PROVE  Lands(m, Q, x, l, end, LoopEnds(g0))
  <2>1. x \in R \/ x \in {action} \union New(h, k) \/ x = end
    <3>1. x \in (Newest(g0) + 1)..Newest(m)
      BY DEF New
    <3> QED BY <1>0, <1>a, <1>4, <1>8, <1>10, <1>11, <3>1 DEF New
  <2> QED BY <1>15, <1>16, <1>17, <1>18, <2>1
<1>19. body.block \in New(g0, m) /\ end \in New(g0, m)
  <2>1. body.block \in {action} \union New(h, k)
    BY <1>9 DEF Continues, k
  <2> QED BY <1>0, <1>a, <1>8, <1>10, <1>11, <1>14, <2>1 DEF New
<1>20. Encloses(g0, chain)
  BY <1>c, <1>11, <1>13, <1>16, <1>17, <1>18, <1>19 DEF Encloses
<1> QED BY <1>e, <1>20

LEMMA SequenceOfOne ==
  ASSUME NEW S, NEW x \in S
  PROVE  <<x>> \in Seq(S)
  OBVIOUS

LEMMA ForMade ==
  ASSUME NEW n \in 1..Depth, NEW lower, Lowers(lower, n - 1),
         NEW s, s.begin \in Expressions[n - 1], s.end \in Expressions[n - 1],
         s.step \in Expressions[n - 1], s.body \in Seq(Statements[n - 1]),
         NEW g0, WellFormed(g0)
  PROVE  Encloses(g0, ForBlocks(lower, g0, s))
<1> DEFINE init == Newest(g0) + 1
           cond == init + 1
           then == init + 2
           inc == init + 3
           end == init + 4
           ga == NewBlocks(g0, 5)
           g1 == PushLoopEnd(ga, end)
           gb == SetExits(g1, cond, then, end)
           g2 == SetExitWhenTrue(gb, init, cond)
           gc == SetExitWhenTrue(g2, then, inc)
           g3 == SetExitWhenTrue(gc, inc, cond)
           i == Splice(lower, g3, init, <<s.begin>>)
           h == i.g
           d == IF ~ IsBlocks(s.end) THEN GetIR(lower, h, cond, s.end).g
                ELSE IF IsBlocks(s.begin) THEN LoopCondition(lower, h, cond, s.begin, then, end).g
                ELSE [h EXCEPT !.refused = TRUE]
           body == Splice(lower, d, then, s.body)
           j == body.g
           step == Splice(lower, j, inc, <<s.step>>)
           k == step.g
           m == PopLoopEnd(k)
           chain == [g |-> m, begin |-> i.block, end |-> end]
           N == Newest(g0) + 5
           Q == New(g0, m) \ {end}
           Four == {init, cond, then, inc}
<1>0. Newest(g0) \in Nat
  BY GraphType DEF WellFormed
<1>e. ForBlocks(lower, g0, s) = chain
  BY Zenon DEF ForBlocks, chain, m, k, step, j, body, d, h, i, g3, gc, g2, gb, g1, ga,
               end, inc, then, cond, init
<1>c. chain.g = m /\ chain.begin = i.block /\ chain.end = end
  OBVIOUS
<1> HIDE DEF chain, m, k, step, j, body, d, h, i
<1>p. /\ n - 1 \in 0..Depth
      /\ <<s.begin>> \in Seq(Statements[n - 1]) /\ <<s.step>> \in Seq(Statements[n - 1])
  <2>1. n - 1 \in 0..Depth
    BY DepthAssumption
  <2>2. s.begin \in Statements[n - 1] /\ s.step \in Statements[n - 1]
    BY <2>1, ExpressionsAreStatements
  <2> QED BY <2>1, <2>2, SequenceOfOne
<1>b. /\ N \in Nat /\ Newest(g0) < N
      /\ init \in (Newest(g0) + 1)..N /\ cond \in (Newest(g0) + 1)..N
      /\ then \in (Newest(g0) + 1)..N /\ inc \in (Newest(g0) + 1)..N
      /\ end \in (Newest(g0) + 1)..N
      /\ init # cond /\ init # then /\ init # inc /\ init # end /\ cond # then /\ cond # inc
      /\ cond # end /\ then # inc /\ then # end /\ inc # end
  BY SMTT(30), <1>0
<1>d. \A x \in (Newest(g0) + 1)..N : x \in Four \union {end}
  BY SMTT(30), <1>0
<1> HIDE DEF init, cond, then, inc, end
<1>a. /\ N \in Nat /\ Newest(g0) < N
      /\ \A x \in Four \union {end} : x \in (Newest(g0) + 1)..N /\ x \in 1..N /\ x # 0
      /\ init # cond /\ init # then /\ init # inc /\ init # end /\ cond # then /\ cond # inc
      /\ cond # end /\ then # inc /\ then # end /\ inc # end
      /\ \A x \in (Newest(g0) + 1)..N : x \in Four \union {end}
  <2> HIDE DEF N
  <2> QED BY <1>0, <1>b, <1>d
\* The five blocks.
<1>1. /\ Keeps(g0, ga, {}) /\ Newest(ga) = N /\ ga.loops = g0.loops
      /\ \A x \in Four \union {end} : T(ga, x) = 0 /\ F(ga, x) = 0 /\ Breaks(ga, x) = {}
  <2>1. /\ Keeps(g0, ga, {}) /\ Newest(ga) = Newest(g0) + 5 /\ ga.loops = g0.loops
        /\ \A x \in (Newest(g0) + 1)..(Newest(g0) + 5) :
             T(ga, x) = 0 /\ F(ga, x) = 0 /\ Breaks(ga, x) = {}
    BY BlocksMade
  <2> QED BY <1>a, <2>1
<1> HIDE DEF ga, N
<1>2. /\ Keeps(ga, g1, {}) /\ Newest(g1) = N /\ g1.loops = Append(g0.loops, end)
      /\ g0.loops \in Seq(Nat \ {NoBlock}) /\ LoopEnds(g1) = LoopEnds(g0) \union {end}
  <2>1. WellFormed(ga) /\ end \in Nat \ {NoBlock}
    BY <1>a, <1>1 DEF Keeps, NoBlock
  <2>2. LoopEnds(ga) = LoopEnds(g0)
    BY <1>1 DEF LoopEnds
  <2> QED BY <1>1, <2>1, <2>2, LoopEndPushed
<1> HIDE DEF g1
<1>3. /\ Keeps(g1, gb, {cond}) /\ Newest(gb) = N /\ gb.loops = g1.loops
      /\ T(gb, cond) = then /\ F(gb, cond) = end /\ Breaks(gb, cond) = Breaks(g1, cond)
  <2>1. /\ WellFormed(g1) /\ cond \in 1..Newest(g1)
        /\ then \in 0..Newest(g1) /\ end \in 0..Newest(g1)
    BY <1>a, <1>2 DEF Keeps
  <2> QED BY <1>2, <2>1, BothExitsSet
<1> HIDE DEF gb
<1>4. /\ Keeps(gb, g2, {init}) /\ Newest(g2) = N /\ g2.loops = g1.loops
      /\ T(g2, init) = cond /\ F(g2, init) = F(gb, init) /\ Breaks(g2, init) = Breaks(gb, init)
  <2>1. WellFormed(gb) /\ init \in 1..Newest(gb) /\ cond \in 0..Newest(gb)
    BY <1>a, <1>3 DEF Keeps
  <2> QED BY <1>3, <2>1, ExitWhenTrueSet
<1> HIDE DEF g2
<1>5. /\ Keeps(g2, gc, {then}) /\ Newest(gc) = N /\ gc.loops = g1.loops
      /\ T(gc, then) = inc /\ F(gc, then) = F(g2, then) /\ Breaks(gc, then) = Breaks(g2, then)
  <2>1. WellFormed(g2) /\ then \in 1..Newest(g2) /\ inc \in 0..Newest(g2)
    BY <1>a, <1>4 DEF Keeps
  <2> QED BY <1>4, <2>1, ExitWhenTrueSet
<1> HIDE DEF gc
<1>6. /\ Keeps(gc, g3, {inc}) /\ Newest(g3) = N /\ g3.loops = g1.loops
      /\ T(g3, inc) = cond /\ F(g3, inc) = F(gc, inc) /\ Breaks(g3, inc) = Breaks(gc, inc)
  <2>1. WellFormed(gc) /\ inc \in 1..Newest(gc) /\ cond \in 0..Newest(gc)
    BY <1>a, <1>5 DEF Keeps
  <2> QED BY <1>5, <2>1, ExitWhenTrueSet
<1> HIDE DEF g3
<1>7. Keeps(g0, g3, {})
  <2>1. Keeps(g0, g1, {})
    BY <1>1, <1>2, KeepsOn
  <2>2. Keeps(g0, gb, {})
    BY <1>0, <1>a, <1>3, <2>1, KeepsOn
  <2>3. Keeps(g0, g2, {})
    BY <1>0, <1>a, <1>4, <2>2, KeepsOn
  <2>4. Keeps(g0, gc, {})
    BY <1>0, <1>a, <1>5, <2>3, KeepsOn
  <2> QED BY <1>0, <1>a, <1>6, <2>4, KeepsOn
<1>8. /\ T(g3, init) = cond /\ F(g3, init) = 0 /\ Breaks(g3, init) = {}
      /\ F(g3, cond) = end /\ Breaks(g3, cond) = {}
      /\ T(g3, then) = inc /\ F(g3, then) = 0 /\ Breaks(g3, then) = {}
      /\ T(g3, inc) = cond /\ F(g3, inc) = 0 /\ Breaks(g3, inc) = {}
      /\ T(g3, end) = 0 /\ F(g3, end) = 0 /\ Breaks(g3, end) = {}
  <2>1. \A x \in Four \union {end} : Alike(ga, g1, x)
    BY <1>a, <1>1, <1>2 DEF Keeps
  <2>2. Alike(g1, gb, init) /\ Alike(g1, gb, then) /\ Alike(g1, gb, inc) /\ Alike(g1, gb, end)
    BY <1>a, <1>2, <1>3 DEF Keeps
  <2>3. Alike(gb, g2, cond) /\ Alike(gb, g2, then) /\ Alike(gb, g2, inc) /\ Alike(gb, g2, end)
    BY <1>a, <1>3, <1>4 DEF Keeps
  <2>4. Alike(g2, gc, init) /\ Alike(g2, gc, cond) /\ Alike(g2, gc, inc) /\ Alike(g2, gc, end)
    BY <1>a, <1>4, <1>5 DEF Keeps
  <2>5. Alike(gc, g3, init) /\ Alike(gc, g3, cond) /\ Alike(gc, g3, then) /\ Alike(gc, g3, end)
    BY <1>a, <1>5, <1>6 DEF Keeps
  <2> QED BY <1>1, <1>3, <1>4, <1>5, <1>6, <2>1, <2>2, <2>3, <2>4, <2>5 DEF Alike
\* The initialisation, the condition, the body and the step.
<1>9. Continues(g3, init, i)
  <2>1. WellFormed(g3) /\ init \in 1..Newest(g3)
    BY <1>a, <1>6 DEF Keeps
  <2> QED BY <1>p, <1>8, <2>1, Spliced DEF i
<1>10. /\ Keeps(g3, h, {init}) /\ h.loops = g1.loops /\ WellFormed(h)
       /\ Newest(h) \in Nat /\ N <= Newest(h)
       /\ Alike(g3, h, cond) /\ Alike(g3, h, then) /\ Alike(g3, h, inc) /\ Alike(g3, h, end)
  <2>1. Keeps(g3, h, {init}) /\ h.loops = g1.loops
    BY <1>6, <1>9 DEF Continues, h
  <2> QED BY <1>a, <1>6, <2>1 DEF Keeps
<1> DEFINE R == {cond} \union New(h, d)
<1>11. Decided(h, d, cond, end)
  <2>1. /\ cond \in 1..Newest(h) /\ Breaks(h, cond) = {} /\ F(h, cond) = end
        /\ then \in 0..Newest(h) /\ end \in 1..Newest(h) /\ end # 0
    BY <1>a, <1>8, <1>10 DEF Alike
  <2>2. CASE ~ IsBlocks(s.end)
    <3>1. Evaluates(h, cond, GetIR(lower, h, cond, s.end))
      BY <1>10, <2>1, GotIR
    <3>2. d = GetIR(lower, h, cond, s.end).g
      BY <2>2 DEF d
    <3> QED BY <1>10, <2>1, <3>1, <3>2, EvaluatedThere
  <2>3. CASE IsBlocks(s.end) /\ IsBlocks(s.begin)
    <3>1. d = LoopCondition(lower, h, cond, s.begin, then, end).g
      BY <2>3 DEF d
    <3> QED BY <1>p, <1>10, <2>1, <3>1, LoopDecided
  <2>4. CASE IsBlocks(s.end) /\ ~ IsBlocks(s.begin)
    <3>1. d = [h EXCEPT !.refused = TRUE]
      BY <2>4 DEF d
    <3>2. d \in Graphs /\ d.blocks = h.blocks /\ d.loops = h.loops
      BY <1>10, <3>1 DEF WellFormed, Graphs
    <3>3. Keeps(h, d, {}) /\ Newest(d) = Newest(h)
      BY <1>10, <3>2, BlocksKept
    <3>4. Keeps(h, d, {cond}) /\ Alike(h, d, cond) /\ New(h, d) = {}
      BY <1>10, <2>1, <3>3 DEF Keeps, New
    <3>5. First(d, cond) = end /\ Breaks(d, cond) = {}
      BY <2>1, <3>4 DEF First, Alike
    <3>6. Leads(d, R, cond, end)
      BY <3>5, LeadsFrom, LeadsHere
    <3> QED BY <3>2, <3>4, <3>5, <3>6 DEF Decided
  <2> QED BY <2>2, <2>3, <2>4
<1>12. /\ Keeps(h, d, {cond}) /\ d.loops = g1.loops /\ WellFormed(d)
       /\ Newest(d) \in Nat /\ Newest(h) <= Newest(d)
       /\ Alike(h, d, then) /\ Alike(h, d, inc) /\ Alike(h, d, end)
  <2>1. Keeps(h, d, {cond}) /\ d.loops = g1.loops
    BY <1>10, <1>11 DEF Decided
  <2> QED BY <1>a, <1>10, <2>1 DEF Keeps
<1>13. Continues(d, then, body)
  <2>1. then \in 1..Newest(d) /\ F(d, then) = 0
    BY <1>a, <1>8, <1>10, <1>12 DEF Alike
  <2> QED BY <1>12, <2>1, Spliced DEF body
<1>14. /\ Keeps(d, j, {then}) /\ j.loops = g1.loops /\ WellFormed(j)
       /\ Newest(j) \in Nat /\ Newest(d) <= Newest(j)
       /\ Alike(d, j, inc) /\ Alike(d, j, end)
  <2>1. Keeps(d, j, {then}) /\ j.loops = g1.loops
    BY <1>12, <1>13 DEF Continues, j
  <2> QED BY <1>a, <1>10, <1>12, <2>1 DEF Keeps
<1>15. Continues(j, inc, step)
  <2>1. inc \in 1..Newest(j) /\ F(j, inc) = 0
    BY <1>a, <1>8, <1>10, <1>12, <1>14 DEF Alike
  <2> QED BY <1>p, <1>14, <2>1, Spliced DEF step
<1>16. /\ Keeps(j, k, {inc}) /\ k.loops = g1.loops /\ WellFormed(k)
       /\ Newest(k) \in Nat /\ Newest(j) <= Newest(k) /\ Alike(j, k, end)
  <2>1. Keeps(j, k, {inc}) /\ k.loops = g1.loops
    BY <1>14, <1>15 DEF Continues, k
  <2> QED BY <1>a, <1>10, <1>12, <1>14, <2>1 DEF Keeps
<1>17. /\ Keeps(k, m, {}) /\ Newest(m) = Newest(k) /\ m.loops = g0.loops /\ Alike(k, m, end)
  <2>1. Keeps(k, m, {}) /\ Newest(m) = Newest(k) /\ m.loops = g0.loops
    BY <1>2, <1>16, LoopEndPopped DEF m
  <2> QED BY <1>a, <1>10, <1>12, <1>14, <1>16, <2>1 DEF Keeps
<1>18. Keeps(j, m, {inc})
  BY <1>16, <1>17, KeepsOn
<1>19. Keeps(d, m, {then, inc})
  BY <1>14, <1>18, KeepsOn
<1>20. Keeps(h, m, {cond, then, inc})
  BY <1>12, <1>19, KeepsOn
<1>21. Keeps(g0, m, {})
  <2>1. Keeps(g0, h, {})
    BY <1>0, <1>a, <1>7, <1>10, KeepsOn
  <2> QED BY <1>0, <1>a, <1>20, <2>1, KeepsOn
\* Where it leads.
<1>22. /\ \A x \in {init} \union New(g3, h) : x \in Q /\ x \notin {cond, then, inc}
       /\ \A x \in R : x \in Q /\ x \notin {then, inc}
       /\ \A x \in {then} \union New(d, j) : x \in Q /\ x \notin {inc}
       /\ \A x \in {inc} \union New(j, k) : x \in Q
  <2>1. /\ N <= Newest(h) /\ Newest(h) <= Newest(d) /\ Newest(d) <= Newest(j)
        /\ Newest(j) <= Newest(m) /\ Newest(m) = Newest(k) /\ Newest(g3) = N
        /\ Newest(h) \in Nat /\ Newest(d) \in Nat /\ Newest(j) \in Nat /\ Newest(m) \in Nat
    BY <1>6, <1>10, <1>12, <1>14, <1>16, <1>17
  <2>2. \A x \in (N + 1)..Newest(m) : x \in Q /\ x \notin Four
    BY SMTT(30), <1>0, <1>a, <2>1 DEF New
  <2>3. \A x \in Four : x \in Q
    BY <1>0, <1>a, <2>1 DEF New
  <2>4. /\ New(g3, h) \subseteq (N + 1)..Newest(m) /\ New(h, d) \subseteq (N + 1)..Newest(m)
        /\ New(d, j) \subseteq (N + 1)..Newest(m) /\ New(j, k) \subseteq (N + 1)..Newest(m)
    BY SMTT(30), <1>a, <2>1 DEF New
  <2> HIDE DEF Q
  <2> QED BY <1>a, <2>2, <2>3, <2>4
<1>23. LoopEnds(g3) \subseteq LoopEnds(g0) \union {end}
       /\ LoopEnds(d) \subseteq LoopEnds(g0) \union {end}
       /\ LoopEnds(j) \subseteq LoopEnds(g0) \union {end}
  BY <1>2, <1>6, <1>12, <1>14 DEF LoopEnds
<1>24. Leads(m, Q, cond, end) /\ \A x \in R : Breaks(m, x) = {}
  <2>1. cond \in 1..Newest(h)
    BY <1>a, <1>10
  <2> HIDE DEF Q
  <2>2. /\ \A x, y \in R \union {end} : Leads(d, R, x, y) => Leads(m, Q, x, y)
        /\ Leads(m, Q, cond, end)
        /\ \A x \in R : Breaks(m, x) = {}
    BY <1>11, <1>19, <1>22, <2>1, DecidedLater
  <2> QED BY <2>2
<1>25. /\ Leads(m, Q, inc, end)
       /\ \A x \in {inc} \union New(j, k) : \A l \in Breaks(m, x) :
            Lands(m, Q, x, l, end, LoopEnds(g0))
  <2>1. inc \in 1..Newest(j) /\ Breaks(j, inc) = {} /\ First(j, inc) = cond
    BY <1>a, <1>8, <1>10, <1>12, <1>14 DEF Alike, First
  <2>2. Leads(m, Q, First(j, inc), end)
    BY <1>24, <2>1
  <2>3. \A x \in {inc} \union New(j, step.g) : x \notin {} /\ x \in Q
    BY <1>22 DEF k
  <2>4. Keeps(step.g, m, {})
    BY <1>17 DEF k
  <2> HIDE DEF Q
  <2> QED BY <1>15, <1>23, <2>1, <2>2, <2>3, <2>4, BodyLater DEF k
<1>26. \A x \in {then} \union New(d, j) : \A l \in Breaks(m, x) :
         Lands(m, Q, x, l, end, LoopEnds(g0))
  <2>1. then \in 1..Newest(d) /\ Breaks(d, then) = {} /\ First(d, then) = inc
    BY <1>a, <1>8, <1>10, <1>12 DEF Alike, First
  <2>2. Leads(m, Q, First(d, then), end)
    BY <1>25, <2>1
  <2>3. \A x \in {then} \union New(d, body.g) : x \notin {inc} /\ x \in Q
    BY <1>22 DEF j
  <2>4. Keeps(body.g, m, {inc})
    BY <1>18 DEF j
  <2> HIDE DEF Q
  <2> QED BY <1>13, <1>23, <2>1, <2>2, <2>3, <2>4, BodyLater DEF j
<1>27. /\ Leads(m, Q, i.block, end)
       /\ \A x \in {init} \union New(g3, h) : \A l \in Breaks(m, x) :
            Lands(m, Q, x, l, end, LoopEnds(g0))
  <2>1. init \in 1..Newest(g3) /\ First(g3, init) = cond
    BY <1>a, <1>6, <1>8 DEF First
  <2>2. Leads(m, Q, First(g3, init), end)
    BY <1>24, <2>1
  <2>3. \A x \in {init} \union New(g3, i.g) : x \notin {cond, then, inc} /\ x \in Q
    BY <1>22 DEF h
  <2>4. Keeps(i.g, m, {cond, then, inc})
    BY <1>20 DEF h
  <2> HIDE DEF Q
  <2> QED BY <1>8, <1>9, <1>23, <2>1, <2>2, <2>3, <2>4, BodyLater DEF h
<1>28. T(m, end) = 0 /\ F(m, end) = 0 /\ Breaks(m, end) = {}
  BY <1>8, <1>10, <1>12, <1>14, <1>16, <1>17 DEF Alike
<1>29. ASSUME NEW x \in New(g0, m), NEW l \in Breaks(m, x)
       PROVE  Lands(m, Q, x, l, end, LoopEnds(g0))
  <2>1. \/ x \in {init} \union New(g3, h) \/ x \in R \/ x \in {then} \union New(d, j)
        \/ x \in {inc} \union New(j, k) \/ x = end
    <3>1. x \in (Newest(g0) + 1)..Newest(m)
      BY DEF New
    <3> QED BY SMTT(30), <1>0, <1>a, <1>6, <1>10, <1>12, <1>14, <1>16, <1>17, <3>1 DEF New
  <2> QED BY <1>24, <1>25, <1>26, <1>27, <1>28, <1>29, <2>1
<1>30. i.block \in New(g0, m) /\ end \in New(g0, m)
  <2>1. i.block \in {init} \union New(g3, h)
    BY <1>9 DEF Continues, h
  <2> QED BY SMTT(30), <1>0, <1>a, <1>10, <1>12, <1>14, <1>16, <1>17, <1>22, <2>1 DEF New
<1>31. Encloses(g0, chain)
  BY <1>c, <1>17, <1>21, <1>27, <1>28, <1>29, <1>30 DEF Encloses
<1> QED BY <1>e, <1>31

LEMMA BodyThere ==
  ASSUME NEW g, NEW b \in 1..Newest(g), Breaks(g, b) = {}, NEW ir, Continues(g, b, ir),
         NEW Q, NEW end, NEW less, First(g, b) = end,
         \A x \in {b} \union New(g, ir.g) : x \in Q,
         LoopEnds(g) \subseteq less \union {end}
  PROVE  /\ Leads(ir.g, Q, b, end)
         /\ \A x \in {b} \union New(g, ir.g) : \A l \in Breaks(ir.g, x) :
              Lands(ir.g, Q, x, l, end, less)
<1> DEFINE h == ir.g
<1>1. Keeps(h, h, {})
  BY DEF Continues, Keeps, Alike
<1>2. Leads(h, Q, First(g, b), end)
  BY LeadsHere
<1>3. \A x \in {b} \union New(g, ir.g) : x \notin {} /\ x \in Q
  OBVIOUS
<1> QED BY <1>1, <1>2, <1>3, BodyLater

(* The other branch of an if: from q, with which its condition begins, to    *)
(* its end.                                                                  *)
OtherBranch(lower, g, q, else, end, statements) ==
  IF statements = <<>>
  THEN SetExitWhenFalse(g, q, end)
  ELSE Splice(lower, SetExitWhenTrue(SetExitWhenFalse(g, q, else), else, end),
              else, statements).g

Otherwise(g, m, q, else, end) ==
  LET R == {q, else} \union New(g, m) IN
  /\ Keeps(g, m, {q, else}) /\ m.loops = g.loops
  /\ Leads(m, R, q, end)
  /\ \A x \in R : \A l \in Breaks(m, x) : Lands(m, R, x, l, end, LoopEnds(g))

LEMMA ElseMade ==
  ASSUME NEW n, NEW lower, Lowers(lower, n),
         NEW statements \in Seq(Statements[n]),
         NEW g, WellFormed(g), NEW q \in 1..Newest(g), NEW else \in 1..Newest(g),
         NEW end \in 1..Newest(g), q # else, q # end, else # end,
         T(g, else) = 0, F(g, else) = 0, Breaks(g, else) = {}, Breaks(g, q) = {},
         NEW m, m = OtherBranch(lower, g, q, else, end, statements)
  PROVE  Otherwise(g, m, q, else, end)
<1> DEFINE R == {q, else} \union New(g, m)
<1>0. Newest(g) \in Nat
  BY GraphType DEF WellFormed
<1>1. CASE statements = <<>>
  <2> DEFINE ga == SetExitWhenFalse(g, q, end)
  <2>1. end \in 0..Newest(g) /\ end # 0 /\ m = ga
    BY <1>1 DEF OtherBranch
  <2>0. /\ Keeps(g, ga, {q}) /\ Newest(ga) = Newest(g) /\ ga.loops = g.loops
        /\ F(ga, q) = end /\ Breaks(ga, q) = Breaks(g, q)
    BY <2>1, ExitWhenFalseSet
  <2> HIDE DEF ga
  <2>2. /\ Keeps(g, m, {q}) /\ Newest(m) = Newest(g) /\ m.loops = g.loops
        /\ F(m, q) = end /\ Breaks(m, q) = Breaks(g, q)
    BY <2>0, <2>1
  <2>3. Keeps(g, m, {q, else}) /\ Alike(g, m, else)
    BY <2>2 DEF Keeps
  <2>4. New(g, m) = {}
    BY <1>0, <2>2 DEF New
  <2>5. \A x \in R : Breaks(m, x) = {}
    BY <2>2, <2>3, <2>4 DEF Alike
  <2>6. Leads(m, R, q, end)
    BY <2>1, <2>2, LeadsFrom, LeadsHere DEF First
  <2> QED BY <2>2, <2>3, <2>5, <2>6 DEF Otherwise
<1>2. CASE statements # <<>>
  <2> DEFINE ga == SetExitWhenFalse(g, q, else)
             gb == SetExitWhenTrue(ga, else, end)
             ir == Splice(lower, gb, else, statements)
  <2>1. m = ir.g
    BY <1>2 DEF OtherBranch
  <2>2. /\ Keeps(g, ga, {q}) /\ Newest(ga) = Newest(g) /\ ga.loops = g.loops
        /\ F(ga, q) = else /\ Breaks(ga, q) = Breaks(g, q)
    <3>1. else \in 0..Newest(g)
      OBVIOUS
    <3> QED BY <3>1, ExitWhenFalseSet
  <2> HIDE DEF ga
  <2>3. WellFormed(ga) /\ end \in 0..Newest(ga) /\ else \in 1..Newest(ga) /\ Alike(g, ga, else)
    BY <2>2 DEF Keeps
  <2>4. /\ Keeps(ga, gb, {else}) /\ Newest(gb) = Newest(g) /\ gb.loops = g.loops
        /\ T(gb, else) = end /\ F(gb, else) = F(ga, else) /\ Breaks(gb, else) = Breaks(ga, else)
    <3>1. /\ Keeps(ga, gb, {else}) /\ Newest(gb) = Newest(ga) /\ gb.loops = ga.loops
          /\ T(gb, else) = end /\ F(gb, else) = F(ga, else)
          /\ Breaks(gb, else) = Breaks(ga, else)
      BY <2>3, ZenonT(40), ExitWhenTrueSet
    <3> QED BY <2>2, <3>1
  <2> HIDE DEF gb
  <2>5. /\ WellFormed(gb) /\ else \in 1..Newest(gb) /\ F(gb, else) = 0
        /\ Breaks(gb, else) = {} /\ First(gb, else) = end /\ Alike(ga, gb, q)
    BY <2>2, <2>3, <2>4 DEF Keeps, Alike, First
  <2>6. Continues(gb, else, ir)
    BY <2>5, Spliced
  <2> HIDE DEF ir
  <2>7. Keeps(gb, m, {else}) /\ m.loops = g.loops
    BY <2>1, <2>4, <2>6 DEF Continues
  <2>8. Keeps(g, m, {q, else})
    <3>1. Keeps(g, gb, {q, else})
      BY <2>2, <2>4, KeepsOn
    <3> QED BY <2>7, <3>1, KeepsOn
  <2>9. Alike(gb, m, q) /\ Newest(g) <= Newest(m) /\ New(gb, m) = New(g, m)
    BY <2>4, <2>7 DEF Keeps, New
  <2>10. First(m, q) = else /\ Breaks(m, q) = {}
    BY <2>2, <2>5, <2>9 DEF First, Alike
  <2>11. /\ Leads(m, R, else, end)
         /\ \A x \in {else} \union New(gb, m) : \A l \in Breaks(m, x) :
              Lands(m, R, x, l, end, LoopEnds(g))
    <3>1. LoopEnds(gb) \subseteq LoopEnds(g) \union {end}
      BY <2>4 DEF LoopEnds
    <3>2. \A x \in {else} \union New(gb, ir.g) : x \in R
      BY <2>1, <2>9
    <3> HIDE DEF R
    <3>3. /\ Leads(ir.g, R, else, end)
          /\ \A x \in {else} \union New(gb, ir.g) : \A l \in Breaks(ir.g, x) :
               Lands(ir.g, R, x, l, end, LoopEnds(g))
      BY <2>5, <2>6, <3>1, <3>2, BodyThere
    <3> QED BY <2>1, <3>3
  <2>12. Leads(m, R, q, end)
    BY <2>10, <2>11, LeadsFrom
  <2>13. \A x \in R : \A l \in Breaks(m, x) : Lands(m, R, x, l, end, LoopEnds(g))
    BY <2>9, <2>10, <2>11
  <2> QED BY <2>7, <2>8, <2>12, <2>13 DEF Otherwise
<1> QED BY <1>1, <1>2

LEMMA IfMade ==
  ASSUME NEW n \in 1..Depth, NEW lower, Lowers(lower, n - 1),
         NEW s, s.cond \in Expressions[n - 1], s.then \in Seq(Statements[n - 1]),
         s.else \in Seq(Statements[n - 1]),
         NEW g0, WellFormed(g0)
  PROVE  Encloses(g0, IfBlocks(lower, g0, s))
<1> DEFINE cond == Newest(g0) + 1
           then == cond + 1
           else == cond + 2
           end == cond + 3
           ga == NewBlocks(g0, 4)
           gb == SetExitWhenTrue(ga, cond, then)
           g1 == SetExitWhenTrue(gb, then, end)
           blocks == WithExits(GetBasicBlock(lower, g1, s.cond), then, else)
           c == IF IsBlocks(s.cond)
                THEN [g |-> blocks.g, block |-> blocks.begin]
                ELSE GetIR(lower, g1, cond, s.cond)
           h == c.g
           q == c.block
           body == Splice(lower, h, then, s.then)
           k == body.g
           m == IF s.else = <<>> THEN SetExitWhenFalse(k, q, end)
                ELSE Splice(lower, SetExitWhenTrue(SetExitWhenFalse(k, q, else), else, end),
                            else, s.else).g
           chain == [g |-> m, begin |-> q, end |-> end]
           N == Newest(g0) + 4
           Q == New(g0, m) \ {end}
           Four == {cond, then, else, end}
<1>0. Newest(g0) \in Nat
  BY GraphType DEF WellFormed
<1>e. IfBlocks(lower, g0, s) = chain
  BY Zenon DEF IfBlocks, chain, m, k, body, q, h, c, blocks, g1, gb, ga, end, else, then, cond
<1>c. chain.g = m /\ chain.begin = q /\ chain.end = end
  OBVIOUS
<1> HIDE DEF chain, m, k, body, q, h, c, blocks
<1>p. n - 1 \in 0..Depth
  BY DepthAssumption
<1>b. /\ N \in Nat /\ Newest(g0) < N
      /\ cond \in (Newest(g0) + 1)..N /\ then \in (Newest(g0) + 1)..N
      /\ else \in (Newest(g0) + 1)..N /\ end \in (Newest(g0) + 1)..N
      /\ cond # then /\ cond # else /\ cond # end
      /\ then # else /\ then # end /\ else # end
  BY SMTT(30), <1>0
<1>d. \A x \in (Newest(g0) + 1)..N : x \in Four
  BY SMTT(30), <1>0
<1> HIDE DEF cond, then, else, end
<1>a. /\ N \in Nat /\ Newest(g0) < N
      /\ \A x \in Four : x \in (Newest(g0) + 1)..N /\ x \in 1..N /\ x # 0
      /\ cond # then /\ cond # else /\ cond # end
      /\ then # else /\ then # end /\ else # end
      /\ \A x \in (Newest(g0) + 1)..N : x \in Four
  <2> HIDE DEF N
  <2> QED BY <1>0, <1>b, <1>d
\* The four blocks.
<1>1. /\ Keeps(g0, ga, {}) /\ Newest(ga) = N /\ ga.loops = g0.loops
      /\ \A x \in Four : T(ga, x) = 0 /\ F(ga, x) = 0 /\ Breaks(ga, x) = {}
  <2>1. /\ Keeps(g0, ga, {}) /\ Newest(ga) = Newest(g0) + 4 /\ ga.loops = g0.loops
        /\ \A x \in (Newest(g0) + 1)..(Newest(g0) + 4) :
             T(ga, x) = 0 /\ F(ga, x) = 0 /\ Breaks(ga, x) = {}
    BY BlocksMade
  <2> QED BY <1>a, <2>1
<1> HIDE DEF ga, N
<1>2. /\ Keeps(ga, gb, {cond}) /\ Newest(gb) = N /\ gb.loops = g0.loops
      /\ T(gb, cond) = then /\ F(gb, cond) = F(ga, cond) /\ Breaks(gb, cond) = Breaks(ga, cond)
  <2>1. WellFormed(ga) /\ cond \in 1..Newest(ga) /\ then \in 0..Newest(ga)
    BY <1>a, <1>1 DEF Keeps
  <2>2. /\ Keeps(ga, gb, {cond}) /\ Newest(gb) = Newest(ga) /\ gb.loops = ga.loops
        /\ T(gb, cond) = then /\ F(gb, cond) = F(ga, cond)
        /\ Breaks(gb, cond) = Breaks(ga, cond)
    BY <2>1, ZenonT(40), ExitWhenTrueSet
  <2> QED BY <1>1, <2>2
<1> HIDE DEF gb
<1>3. /\ Keeps(gb, g1, {then}) /\ Newest(g1) = N /\ g1.loops = g0.loops
      /\ T(g1, then) = end /\ F(g1, then) = F(gb, then) /\ Breaks(g1, then) = Breaks(gb, then)
  <2>1. WellFormed(gb) /\ then \in 1..Newest(gb) /\ end \in 0..Newest(gb)
    BY <1>a, <1>2 DEF Keeps
  <2> QED BY <1>2, <2>1, ExitWhenTrueSet
<1> HIDE DEF g1
<1>4. Keeps(g0, g1, {})
  <2>1. Keeps(g0, gb, {})
    BY <1>0, <1>a, <1>1, <1>2, KeepsOn
  <2> QED BY <1>0, <1>a, <1>3, <2>1, KeepsOn
<1>5. /\ Breaks(g1, cond) = {}
      /\ T(g1, then) = end /\ F(g1, then) = 0 /\ Breaks(g1, then) = {}
      /\ T(g1, else) = 0 /\ F(g1, else) = 0 /\ Breaks(g1, else) = {}
      /\ T(g1, end) = 0 /\ F(g1, end) = 0 /\ Breaks(g1, end) = {}
  <2>1. Alike(ga, gb, then) /\ Alike(ga, gb, else) /\ Alike(ga, gb, end)
    BY <1>a, <1>1, <1>2 DEF Keeps
  <2>2. Alike(gb, g1, cond) /\ Alike(gb, g1, else) /\ Alike(gb, g1, end)
    BY <1>a, <1>2, <1>3 DEF Keeps
  <2> QED BY <1>1, <1>2, <1>3, <2>1, <2>2 DEF Alike
\* The condition.
<1> DEFINE R == {cond} \union New(g1, h)
<1>6. WellFormed(g1) /\ cond \in 1..Newest(g1) /\ then \in 0..Newest(g1) /\ else \in 0..Newest(g1)
  BY <1>a, <1>3 DEF Keeps
<1>7. /\ Keeps(g1, h, {cond}) /\ h.loops = g0.loops /\ q \in R
      /\ \A x \in R : Breaks(h, x) = {}
  <2>1. CASE IsBlocks(s.cond)
    <3>1. Decides(g1, GetBasicBlock(lower, g1, s.cond))
      BY <1>p, <1>6, <2>1, GotBlocks
    <3>2. Operand(g1, blocks.g, New(g1, blocks.g), blocks.begin, blocks.end, then, else)
      BY <1>6, <3>1, OperandOfBlocks DEF blocks
    <3>3. h = blocks.g /\ q = blocks.begin
      BY <2>1 DEF h, q, c
    <3>4. /\ Keeps(g1, h, New(g1, h)) /\ h.loops = g1.loops /\ q \in New(g1, h)
          /\ \A x \in New(g1, h) : Breaks(h, x) = {}
      BY <3>2, <3>3 DEF Operand
    <3>5. \A x \in 1..Newest(g1) : x \notin New(g1, h)
      BY <1>a, <1>3 DEF New
    <3>6. Keeps(g1, h, {}) /\ Keeps(g1, h, {cond}) /\ Alike(g1, h, cond)
      BY <1>6, <3>4, <3>5 DEF Keeps
    <3> QED BY <1>3, <1>5, <3>4, <3>6 DEF Alike
  <2>2. CASE ~ IsBlocks(s.cond)
    <3>1. Evaluates(g1, cond, GetIR(lower, g1, cond, s.cond))
      BY <1>p, <1>6, GotIR
    <3>2. c = GetIR(lower, g1, cond, s.cond)
      BY <2>2 DEF c
    <3>3. Evaluates(g1, cond, c)
      BY <3>1, <3>2
    <3> QED BY <1>3, <1>5, <3>3 DEF Evaluates, Continues, h, q
  <2> QED BY <2>1, <2>2
<1>8. /\ WellFormed(h) /\ Newest(h) \in Nat /\ N <= Newest(h)
      /\ Alike(g1, h, then) /\ Alike(g1, h, else) /\ Alike(g1, h, end)
  BY <1>a, <1>3, <1>7 DEF Keeps
<1>9. q \in (Newest(g0) + 1)..Newest(h) /\ q \in 1..Newest(h) /\ q \notin {then, else, end}
  BY <1>0, <1>a, <1>3, <1>7, <1>8 DEF New
\* The branches.
<1>10. Continues(h, then, body)
  <2>1. then \in 1..Newest(h) /\ F(h, then) = 0
    BY <1>a, <1>5, <1>8 DEF Alike
  <2> QED BY <1>8, <2>1, Spliced DEF body
<1>11. /\ Keeps(h, k, {then}) /\ k.loops = g0.loops /\ WellFormed(k)
       /\ Newest(k) \in Nat /\ Newest(h) <= Newest(k)
       /\ Alike(h, k, else) /\ Alike(h, k, end) /\ Alike(h, k, q)
  <2>1. Keeps(h, k, {then}) /\ k.loops = g0.loops
    BY <1>7, <1>10 DEF Continues, k
  <2> QED BY <1>a, <1>8, <1>9, <2>1 DEF Keeps
<1> DEFINE S == {q, else} \union New(k, m)
<1>12. /\ Keeps(k, m, {q, else}) /\ m.loops = k.loops
       /\ Leads(m, S, q, end)
       /\ \A x \in S : \A l \in Breaks(m, x) : Lands(m, S, x, l, end, LoopEnds(k))
  <2>1. /\ q \in 1..Newest(k) /\ else \in 1..Newest(k) /\ end \in 1..Newest(k)
        /\ q # else /\ q # end /\ else # end
    BY <1>a, <1>8, <1>9, <1>11
  <2>2. /\ T(k, else) = 0 /\ F(k, else) = 0 /\ Breaks(k, else) = {} /\ Breaks(k, q) = {}
    BY <1>5, <1>7, <1>8, <1>11 DEF Alike
  <2>3. m = OtherBranch(lower, k, q, else, end, s.else)
    BY DEF m, OtherBranch
  <2>4. WellFormed(k) /\ s.else \in Seq(Statements[n - 1])
    BY <1>11
  <2>5. Otherwise(k, m, q, else, end)
    BY <2>1, <2>2, <2>3, <2>4, ElseMade
  <2> QED BY <2>5 DEF Otherwise
<1>13. /\ Newest(m) \in Nat /\ Newest(k) <= Newest(m) /\ Alike(k, m, end)
       /\ \A x \in R : x # q => Alike(k, m, x)
  <2>1. \A x \in R : x \in 1..Newest(k) /\ x # else
    BY <1>0, <1>a, <1>3, <1>8, <1>11 DEF New
  <2>2. end \in 1..Newest(k)
    BY <1>a, <1>8, <1>11
  <2> QED BY <1>9, <1>12, <1>a, <2>1, <2>2 DEF Keeps
<1>14. Keeps(g0, m, {})
  <2>1. Keeps(g0, h, {})
    BY <1>0, <1>a, <1>4, <1>7, KeepsOn
  <2>2. Keeps(g0, k, {})
    BY <1>0, <1>a, <1>11, <2>1, KeepsOn
  <2> QED BY SMTT(30), <1>0, <1>a, <1>9, <1>12, <2>2, KeepsOn
<1>15. /\ \A x \in {then} \union New(h, k) : x \in Q /\ x \notin {q, else}
       /\ \A x \in S : x \in Q
       /\ LoopEnds(k) = LoopEnds(g0) /\ LoopEnds(h) = LoopEnds(g0)
  <2>1. LoopEnds(k) = LoopEnds(g0) /\ LoopEnds(h) = LoopEnds(g0)
    BY <1>7, <1>11 DEF LoopEnds
  <2>2. \A x \in {then} \union New(h, k) : x \in Q /\ x \notin {q, else}
    BY <1>0, <1>a, <1>8, <1>9, <1>11, <1>13 DEF New
  <2>3. \A x \in S : x \in Q
    BY SMTT(30), <1>0, <1>a, <1>8, <1>9, <1>11, <1>13 DEF New
  <2> QED BY <2>1, <2>2, <2>3
<1>16. \A x \in {then} \union New(h, k) : \A l \in Breaks(m, x) :
         Lands(m, Q, x, l, end, LoopEnds(g0))
  <2>1. then \in 1..Newest(h) /\ Breaks(h, then) = {} /\ First(h, then) = end
    BY <1>a, <1>5, <1>8 DEF Alike, First
  <2>2. Leads(m, Q, First(h, then), end)
    BY <2>1, LeadsHere
  <2>3. \A x \in {then} \union New(h, body.g) : x \notin {q, else} /\ x \in Q
    BY <1>15 DEF k
  <2>4. Keeps(body.g, m, {q, else}) /\ LoopEnds(h) \subseteq LoopEnds(g0) \union {end}
    BY <1>12, <1>15 DEF k
  <2> HIDE DEF Q
  <2> QED BY <1>10, <2>1, <2>2, <2>3, <2>4, BodyLater DEF k
<1>17. Leads(m, Q, q, end) /\ \A x \in S : \A l \in Breaks(m, x) :
         Lands(m, Q, x, l, end, LoopEnds(g0))
  <2>1. \A x, y : Leads(m, S, x, y) => Leads(m, Q, x, y)
    BY <1>15 DEF Leads
  <2> HIDE DEF Q, S
  <2> QED BY <1>12, <1>15, <2>1 DEF Lands
<1>18. T(m, end) = 0 /\ F(m, end) = 0 /\ Breaks(m, end) = {}
  BY <1>5, <1>8, <1>11, <1>13 DEF Alike
<1>19. \A x \in R : x # q => Breaks(m, x) = {}
  <2>1. \A x \in R : x \in 1..Newest(h) /\ x # then
    BY <1>0, <1>a, <1>3, <1>8 DEF New
  <2> QED BY <1>7, <1>11, <1>13, <2>1 DEF Keeps, Alike
<1>20. ASSUME NEW x \in New(g0, m), NEW l \in Breaks(m, x)
       PROVE  Lands(m, Q, x, l, end, LoopEnds(g0))
  <2>1. x \in R \/ x \in {then} \union New(h, k) \/ x \in S \/ x = end
    <3>1. x \in (Newest(g0) + 1)..Newest(m)
      BY DEF New
    <3> QED BY <1>0, <1>a, <1>3, <1>8, <1>11, <1>13, <3>1 DEF New
  <2>2. x \in R => x = q
    BY <1>19, <1>20
  <2>3. q \in S
    OBVIOUS
  <2> HIDE DEF S, R, Q
  <2> QED BY <1>16, <1>17, <1>18, <1>20, <2>1, <2>2, <2>3
<1>21. q \in New(g0, m) /\ end \in New(g0, m)
  BY <1>0, <1>a, <1>8, <1>9, <1>11, <1>13 DEF New
<1>22. Encloses(g0, chain)
  BY <1>c, <1>11, <1>12, <1>14, <1>17, <1>18, <1>20, <1>21 DEF Encloses
<1> QED BY <1>e, <1>22

-----------------------------------------------------------------------------
(* Whole trees *)

LEMMA ExpressionLowered ==
  ASSUME NEW n \in 1..Depth, NEW lower, Lowers(lower, n - 1),
         NEW e \in Expressions[n], NEW g, WellFormed(g), NEW b
  PROVE  /\ e.is \in {"and", "or"} => Decides(g, LowerNode(lower, g, b, e))
         /\ e.is \notin {"and", "or"} /\ b \in 1..Newest(g) =>
              Evaluates(g, b, LowerNode(lower, g, b, e))
<1>1. CASE e.is = "atom" /\ e.name \in Names
  <2>1. LowerNode(lower, g, b, e) = EvaluateName(g, b, e.name)
    BY <1>1 DEF LowerNode
  <2> QED BY <1>1, <2>1, NameEvaluated
<1>2. CASE e.is = "not" /\ e.of \in Expressions[n - 1]
  <2>1. LowerNode(lower, g, b, e) = Negate(GetIR(lower, g, b, e.of))
    BY <1>2 DEF LowerNode
  <2>2. ASSUME b \in 1..Newest(g)
        PROVE  Evaluates(g, b, Negate(GetIR(lower, g, b, e.of)))
    <3>1. Evaluates(g, b, GetIR(lower, g, b, e.of))
      BY <1>2, <2>2, GotIR
    <3> QED BY <2>2, <3>1, Negated
  <2> QED BY <1>2, <2>1, <2>2
<1>3. CASE e.is \in {"and", "or"}
  <2>1. LowerNode(lower, g, b, e) = LogicalBlocks(lower, g, e)
    BY <1>3 DEF LowerNode
  <2> QED BY <1>3, <2>1, LogicalMade
<1> QED BY <1>1, <1>2, <1>3, ExpressionParts

LEMMA StatementLowered ==
  ASSUME NEW n \in 1..Depth, NEW lower, Lowers(lower, n - 1),
         NEW s \in Statements[n], NEW g, WellFormed(g), NEW b
  PROVE  /\ IsBlocks(s) => Encloses(g, LowerNode(lower, g, b, s))
         /\ ~ IsBlocks(s) /\ b \in 1..Newest(g) => Continues(g, b, LowerNode(lower, g, b, s))
<1> DEFINE ir == LowerNode(lower, g, b, s)
<1>1. CASE s \in Expressions[n]
  <2>1. IsBlocks(s) <=> s.is \in {"and", "or"}
    BY <1>1, BlocksOfExpressions, DepthAssumption
  <2> QED BY <1>1, <2>1, ExpressionLowered DEF Decides, Evaluates
<1>2. CASE s.is = "break"
  <2>1. ir = [g |-> BreakInstruction(g, b), block |-> b] /\ ~ IsBlocks(s)
    BY <1>2 DEF LowerNode, IsBlocks
  <2> QED BY <2>1, BrokenOff
<1>3. CASE s.is = "return" /\ (s.value = <<>> \/ s.value[1] \in Expressions[n - 1])
  <2> DEFINE value == IF s.value = <<>> THEN [g |-> g, block |-> b]
                      ELSE GetIR(lower, g, b, s.value[1])
  <2>1. ir = ReturnValue(value) /\ ~ IsBlocks(s)
    BY <1>3 DEF LowerNode, IsBlocks
  <2>2. ASSUME b \in 1..Newest(g) PROVE Continues(g, b, value)
    <3>1. CASE s.value = <<>>
      <4>1. Continues(g, b, [g |-> g, block |-> b])
        BY <2>2, ContinuesHere
      <4> QED BY <3>1, <4>1
    <3>2. CASE s.value # <<>>
      <4>1. Evaluates(g, b, GetIR(lower, g, b, s.value[1]))
        BY <1>3, <2>2, <3>2, GotIR
      <4> QED BY <3>2, <4>1 DEF Evaluates
    <3> QED BY <3>1, <3>2
  <2> HIDE DEF value
  <2> QED BY <2>1, <2>2, ValueReturned
<1>4. CASE /\ s.is = "if" /\ s.cond \in Expressions[n - 1]
           /\ s.then \in Seq(Statements[n - 1]) /\ s.else \in Seq(Statements[n - 1])
  <2>1. ir = IfBlocks(lower, g, s) /\ IsBlocks(s)
    BY <1>4 DEF LowerNode, IsBlocks
  <2>2. Encloses(g, IfBlocks(lower, g, s))
    BY <1>4, IfMade
  <2> QED BY <2>1, <2>2
<1>5. CASE /\ s.is \in {"while", "do"} /\ s.cond \in Expressions[n - 1]
           /\ s.body \in Seq(Statements[n - 1])
  <2>1. CASE s.is = "while"
    <3>1. ir = WhileBlocks(lower, g, s) /\ IsBlocks(s)
      BY <2>1 DEF LowerNode, IsBlocks
    <3>2. Encloses(g, WhileBlocks(lower, g, s))
      BY <1>5, WhileMade
    <3> QED BY <3>1, <3>2
  <2>2. CASE s.is = "do"
    <3>1. ir = DoBlocks(lower, g, s) /\ IsBlocks(s)
      BY <2>2 DEF LowerNode, IsBlocks
    <3>2. Encloses(g, DoBlocks(lower, g, s))
      BY <1>5, DoMade
    <3> QED BY <3>1, <3>2
  <2> QED BY <1>5, <2>1, <2>2
<1>6. CASE /\ s.is = "for"
           /\ s.begin \in Expressions[n - 1] /\ s.end \in Expressions[n - 1]
           /\ s.step \in Expressions[n - 1] /\ s.body \in Seq(Statements[n - 1])
  <2>1. ir = ForBlocks(lower, g, s) /\ IsBlocks(s)
    BY <1>6 DEF LowerNode, IsBlocks
  <2>2. Encloses(g, ForBlocks(lower, g, s))
    BY <1>6, ForMade
  <2> QED BY <2>1, <2>2
<1> QED BY <1>1, <1>2, <1>3, <1>4, <1>5, <1>6, StatementParts

LEMMA EverythingLowered ==
  \A n \in 0..Depth : Lowers(Lowering[n], n)
<1> DEFINE P == {n \in Nat : n <= Depth => Lowers(Lowering[n], n)}
<1>1. 0 \in P
  BY ExpressionsAt, StatementsAt DEF Lowers
<1>2. ASSUME NEW n \in Nat, n \in P PROVE n + 1 \in P
  <2> SUFFICES ASSUME n + 1 <= Depth PROVE Lowers(Lowering[n + 1], n + 1)
    OBVIOUS
  <2> DEFINE l == n + 1
             lower == Lowering[n]
             all == Lowering[n + 1]
  <2>1. l \in 1..Depth /\ l \in 0..Depth /\ l - 1 = n
    BY DepthAssumption
  <2>2. Lowers(lower, l - 1)
    BY <1>2, <2>1, DepthAssumption
  <2>3. \A g \in Graphs, b \in Nat, s \in Statements[l] :
          all[<<g, b, s>>] = LowerNode(lower, g, b, s)
    <3>1. all = [call \in Graphs \X Nat \X Statements[l] |->
                   LowerNode(lower, call[1], call[2], call[3])]
      BY <2>1, LoweringAt
    <3> HIDE DEF all, lower, l
    <3> QED BY <3>1
  <2>4. Expressions[l] \subseteq Statements[l]
    BY <2>1, ExpressionsAreStatements
  <2> HIDE DEF l, lower, all
  <2>5. ASSUME NEW g \in Graphs, NEW e \in Expressions[l], WellFormed(g)
        PROVE  IF e.is \in {"and", "or"}
               THEN Decides(g, GetBasicBlock(all, g, e))
               ELSE \A b \in 1..Newest(g) : Evaluates(g, b, all[<<g, b, e>>])
    <3>1. \A b \in Nat : all[<<g, b, e>>] = LowerNode(lower, g, b, e)
      BY <2>3, <2>4
    <3>2. CASE e.is \in {"and", "or"}
      <4>1. Decides(g, LowerNode(lower, g, NoBlock, e))
        BY <2>1, <2>2, <2>5, <3>2, ExpressionLowered
      <4>2. GetBasicBlock(all, g, e) = LowerNode(lower, g, NoBlock, e)
        BY <3>1 DEF GetBasicBlock, NoBlock
      <4> QED BY <3>2, <4>1, <4>2
    <3>3. CASE e.is \notin {"and", "or"}
      <4> SUFFICES ASSUME NEW b \in 1..Newest(g)
                   PROVE  Evaluates(g, b, all[<<g, b, e>>])
        BY <3>3
      <4>1. Evaluates(g, b, LowerNode(lower, g, b, e))
        BY <2>1, <2>2, <2>5, <3>3, ExpressionLowered
      <4> QED BY <3>1, <4>1
    <3> QED BY <3>2, <3>3
  <2>6. ASSUME NEW g \in Graphs, NEW s \in Statements[l], WellFormed(g)
        PROVE  IF IsBlocks(s)
               THEN Encloses(g, GetBasicBlock(all, g, s))
               ELSE \A b \in 1..Newest(g) : Continues(g, b, all[<<g, b, s>>])
    <3>1. \A b \in Nat : all[<<g, b, s>>] = LowerNode(lower, g, b, s)
      BY <2>3
    <3>2. CASE IsBlocks(s)
      <4>1. Encloses(g, LowerNode(lower, g, NoBlock, s))
        BY <2>1, <2>2, <2>6, <3>2, StatementLowered
      <4>2. GetBasicBlock(all, g, s) = LowerNode(lower, g, NoBlock, s)
        BY <3>1 DEF GetBasicBlock, NoBlock
      <4> QED BY <3>2, <4>1, <4>2
    <3>3. CASE ~ IsBlocks(s)
      <4> SUFFICES ASSUME NEW b \in 1..Newest(g)
                   PROVE  Continues(g, b, all[<<g, b, s>>])
        BY <3>3
      <4>1. Continues(g, b, LowerNode(lower, g, b, s))
        BY <2>1, <2>2, <2>6, <3>3, StatementLowered
      <4> QED BY <3>1, <4>1
    <3> QED BY <3>2, <3>3
  <2>7. Lowers(all, l)
    BY <2>5, <2>6, Zenon DEF Lowers
  <2> QED BY <2>7 DEF all, l
<1> HIDE DEF P
<1>3. Nat \subseteq P
  BY <1>1, <1>2, Induction
<1> QED BY <1>3, DepthAssumption DEF P

(* What is emitted: whoever follows the first exits gets to the end of the   *)
(* function from its root, and from every break to where that jumps to.      *)
Emittable(g) ==
  LET inner == (1..Newest(g)) \ {EndBlock} IN
  /\ WellFormed(g)
  /\ RootBlock \in 1..Newest(g) /\ EndBlock \in 1..Newest(g)
  /\ T(g, EndBlock) = 0 /\ F(g, EndBlock) = 0
  /\ \E code \in Seq(Instructions) : Code(g, EndBlock) = Append(code, [is |-> "epilog"])
  /\ Leads(g, inner, RootBlock, EndBlock)
  /\ \A x \in 1..Newest(g) : \A l \in Breaks(g, x) : Leads(g, inner, x, l)

(* Of every function body, however deep its structures nest: the first exits *)
(* lead from its beginning to its end, and from each block with a break to   *)
(* the block that it jumps to.  They never close a circle on the way,        *)
(* although getBasicBlock of the structures sets exits before and after      *)
(* statements are spliced in, on whichever block is the last one by then.    *)
THEOREM FirstExitsLeadOut ==
  ASSUME NEW program \in Seq(Statements[Depth])
  PROVE  Emittable(FunctionBlocks(program))
<1> DEFINE g0 == EmptyGraph
           ga == NewBlocks(g0, 2)
           g1 == SetExitWhenTrue(ga, 1, 2)
           g2 == NewWhenTrueBlock(g1, 1)
           ir == Splice(Lowering[Depth], g2, 3, program)
           h == ir.g
           epilog == [is |-> "epilog"]
           m == AddInstruction(h, 2, epilog)
           Q == (1..Newest(m)) \ {2}
<1>0. WellFormed(g0) /\ Newest(g0) = 0 /\ LoopEnds(g0) = {}
  <2>1. <<>> \in Seq(BlockType) /\ <<>> \in Seq(Nat \ {NoBlock})
    OBVIOUS
  <2>2. g0 \in Graphs
    BY <2>1 DEF EmptyGraph, Graphs, BlockType
  <2> QED BY <2>2 DEF EmptyGraph, WellFormed, Newest, LoopEnds
<1> HIDE DEF g0
<1>1. /\ Keeps(g0, ga, {}) /\ Newest(ga) = 2 /\ ga.loops = g0.loops
      /\ \A x \in 1..2 : T(ga, x) = 0 /\ F(ga, x) = 0 /\ Breaks(ga, x) = {}
  <2>1. /\ Keeps(g0, ga, {}) /\ Newest(ga) = Newest(g0) + 2 /\ ga.loops = g0.loops
        /\ \A x \in (Newest(g0) + 1)..(Newest(g0) + 2) :
             T(ga, x) = 0 /\ F(ga, x) = 0 /\ Breaks(ga, x) = {}
    BY <1>0, BlocksMade
  <2> QED BY <1>0, <2>1
<1> HIDE DEF ga
<1>2. /\ Keeps(ga, g1, {1}) /\ Newest(g1) = 2 /\ g1.loops = g0.loops
      /\ T(g1, 1) = 2 /\ F(g1, 1) = 0 /\ Breaks(g1, 1) = {}
  <2>1. WellFormed(ga) /\ 1 \in 1..Newest(ga) /\ 2 \in 0..Newest(ga)
    BY <1>1 DEF Keeps
  <2>2. /\ Keeps(ga, g1, {1}) /\ Newest(g1) = Newest(ga) /\ g1.loops = ga.loops
        /\ T(g1, 1) = 2 /\ F(g1, 1) = F(ga, 1) /\ Breaks(g1, 1) = Breaks(ga, 1)
    BY <2>1, ExitWhenTrueSet
  <2> QED BY <1>1, <2>2
<1> HIDE DEF g1
<1>3. /\ Keeps(g1, g2, {1}) /\ Newest(g2) = 3 /\ g2.loops = g0.loops
      /\ T(g2, 1) = 3 /\ F(g2, 1) = 0 /\ Breaks(g2, 1) = {}
      /\ T(g2, 3) = 2 /\ F(g2, 3) = 0 /\ Breaks(g2, 3) = {}
  <2>1. WellFormed(g1) /\ 1 \in 1..Newest(g1)
    BY <1>2 DEF Keeps
  <2>2. /\ Keeps(g1, g2, {1}) /\ Newest(g2) = Newest(g1) + 1 /\ g2.loops = g1.loops
        /\ T(g2, 1) = Newest(g1) + 1 /\ F(g2, 1) = F(g1, 1) /\ Breaks(g2, 1) = Breaks(g1, 1)
        /\ T(g2, Newest(g1) + 1) = T(g1, 1) /\ F(g2, Newest(g1) + 1) = F(g1, 1)
        /\ Breaks(g2, Newest(g1) + 1) = {}
    BY <2>1, ChildMade
  <2> QED BY <1>2, <2>2
<1> HIDE DEF g2
<1>4. WellFormed(g2) /\ T(g2, 2) = 0 /\ F(g2, 2) = 0 /\ Breaks(g2, 2) = {}
  BY <1>1, <1>2, <1>3 DEF Keeps, Alike
<1>5. Continues(g2, 3, ir)
  <2>1. Lowers(Lowering[Depth], Depth)
    BY EverythingLowered, DepthAssumption
  <2>2. 3 \in 1..Newest(g2)
    BY <1>3
  <2> QED BY <1>3, <1>4, <2>1, <2>2, Spliced
<1> HIDE DEF ir
<1>6. /\ Keeps(g2, h, {3}) /\ WellFormed(h) /\ Newest(h) \in Nat /\ 3 <= Newest(h)
      /\ Alike(g2, h, 1) /\ Alike(g2, h, 2)
  <2>1. Keeps(g2, h, {3})
    BY <1>5 DEF Continues
  <2> QED BY <1>3, <2>1 DEF Keeps
<1>7. /\ Keeps(h, m, {2}) /\ Newest(m) = Newest(h)
      /\ T(m, 2) = 0 /\ F(m, 2) = 0 /\ Breaks(m, 2) = {}
      /\ Code(m, 2) = Append(Code(h, 2), epilog) /\ Code(h, 2) \in Seq(Instructions)
  <2>1. WellFormed(h) /\ 2 \in 1..Newest(h) /\ epilog \in Instructions /\ epilog.is # "jump"
    BY <1>6 DEF Instructions
  <2> HIDE DEF epilog
  <2>2. /\ Keeps(h, m, {2}) /\ Newest(m) = Newest(h)
        /\ T(m, 2) = T(h, 2) /\ F(m, 2) = F(h, 2)
        /\ Breaks(m, 2) = Breaks(h, 2) \union (IF epilog.is = "jump" THEN {epilog.to} ELSE {})
        /\ Code(m, 2) = Append(Code(h, 2), epilog)
    BY <2>1, ZenonT(40), InstructionAdded
  <2>3. Code(h, 2) \in Seq(Instructions)
    BY <2>1, GraphType DEF WellFormed
  <2> QED BY <1>4, <1>6, <2>1, <2>2, <2>3 DEF Alike
<1> HIDE DEF epilog, m
<1>8. WellFormed(m) /\ Alike(h, m, 1)
  BY <1>6, <1>7 DEF Keeps
<1>9. /\ Leads(m, Q, 3, 2)
      /\ \A x \in {3} \union New(g2, h) : \A l \in Breaks(m, x) : Lands(m, Q, x, l, 2, {})
  <2>1. 3 \in 1..Newest(g2) /\ First(g2, 3) = 2
    BY <1>3 DEF First
  <2>2. Leads(m, Q, First(g2, 3), 2)
    BY <2>1, LeadsHere
  <2>3. \A x \in {3} \union New(g2, h) : x \notin {2} /\ x \in Q
    BY <1>3, <1>6, <1>7 DEF New
  <2>4. LoopEnds(g2) \subseteq {} \union {2}
    BY <1>0, <1>3 DEF LoopEnds
  <2> HIDE DEF Q
  <2>5. Breaks(g2, 3) = {}
    BY <1>3
  <2> QED BY <1>5, <1>7, <2>1, <2>2, <2>3, <2>4, <2>5, BodyLater
<1>10. Leads(m, Q, 1, 2)
  <2>1. First(m, 1) = 3 /\ 1 \in Q
    BY <1>3, <1>6, <1>7, <1>8 DEF First, Alike
  <2> QED BY <1>9, <2>1, LeadsFrom
<1>11. ASSUME NEW x \in 1..Newest(m), NEW l \in Breaks(m, x) PROVE Leads(m, Q, x, l)
  <2>1. x = 1 \/ x = 2 \/ x \in {3} \union New(g2, h)
    BY <1>3, <1>6, <1>7 DEF New
  <2>2. x # 1
    BY <1>3, <1>6, <1>8, <1>11 DEF Alike
  <2>3. x # 2
    BY <1>7, <1>11
  <2>4. Lands(m, Q, x, l, 2, {})
    BY <1>9, <1>11, <2>1, <2>2, <2>3
  <2> QED BY <2>4 DEF Lands
<1>12. FunctionBlocks(program) = m
  <2>1. Newest(NewWhenTrueBlock(SetExitWhenTrue(NewBlocks(EmptyGraph, 2), 1, 2), 1)) = 3
    BY <1>3 DEF g2, g1, ga, g0
  <2> QED BY <2>1, Zenon DEF FunctionBlocks, Epilog, RootBlock, EndBlock, m, epilog, h, ir,
                              g2, g1, ga, g0
<1>13. Emittable(m)
  <2>1. 1 \in 1..Newest(m) /\ 2 \in 1..Newest(m)
    BY <1>6, <1>7
  <2>2. \E code \in Seq(Instructions) : Code(m, 2) = Append(code, [is |-> "epilog"])
    BY <1>7 DEF epilog
  <2> QED BY <1>7, <1>8, <1>10, <1>11, <2>1, <2>2 DEF Emittable, RootBlock, EndBlock
<1> QED BY <1>12, <1>13

-----------------------------------------------------------------------------
(* The order of emission *)

LEMMA OrderSteps ==
  ASSUME NEW blocks, Len(blocks) \in Nat
  PROVE  \E f : /\ f[0] = [call \in Nat \X Orders |-> call[2]]
                /\ \A n \in 1..Len(blocks) :
                     f[n] = [call \in Nat \X Orders |->
                               Visit(f[n - 1], blocks, call[1], call[2])]
                /\ EmissionOrder(blocks) =
                     Reverse(f[Len(blocks)][<<RootBlock, [visited |-> {}, done |-> <<>>]>>].done)
<1> DEFINE Value(n, below) == IF n = 0 THEN [call \in Nat \X Orders |-> call[2]]
                               ELSE [call \in Nat \X Orders |->
                                      Visit(below, blocks, call[1], call[2])]
           Upto(f, m) == f = [n \in 0..m |-> Value(n, f[n - 1])]
           P == {m \in Nat : \E f : Upto(f, m)}
<1>0. \A v, w : Value(0, v) = Value(0, w)
  BY DEF Value
<1> HIDE DEF Value
<1>1. 0 \in P
  <2> DEFINE f == [n \in 0..0 |-> Value(0, 0)]
  <2>1. \A n \in 0..0 : f[n] = Value(n, f[n - 1])
    BY <1>0
  <2>2. f = [n \in 0..0 |-> f[n]]
    OBVIOUS
  <2> HIDE DEF f
  <2>3. Upto(f, 0)
    BY <2>1, <2>2
  <2> QED BY <2>3
<1>2. ASSUME NEW m \in Nat, m \in P PROVE m + 1 \in P
  <2>1. PICK f : Upto(f, m)
    BY <1>2
  <2> DEFINE last == Value(m + 1, f[m])
             h == [n \in 0..(m + 1) |-> IF n = m + 1 THEN last ELSE f[n]]
  <2>2. \A n \in 0..m : f[n] = Value(n, f[n - 1])
    BY <2>1
  <2>3. ASSUME NEW n \in 0..(m + 1) PROVE h[n] = Value(n, h[n - 1])
    <3>1. CASE n = m + 1
      <4>1. n - 1 \in 0..(m + 1) /\ n - 1 = m /\ n - 1 # m + 1
        BY <3>1
      <4>2. h[n - 1] = f[m] /\ h[n] = last
        BY <3>1, <4>1
      <4> QED BY <3>1, <4>2
    <3>2. CASE n = 0
      <4>1. h[n] = f[n] /\ f[n] = Value(n, f[n - 1])
        BY <2>2, <3>2
      <4> QED BY <1>0, <3>2, <4>1
    <3>3. CASE n # m + 1 /\ n # 0
      <4>1. n \in 0..m /\ n - 1 \in 0..(m + 1) /\ n - 1 # m + 1
        BY <3>3
      <4>2. h[n] = f[n] /\ h[n - 1] = f[n - 1]
        BY <3>3, <4>1
      <4> QED BY <2>2, <4>1, <4>2
    <3> QED BY <3>1, <3>2, <3>3
  <2> HIDE DEF last
  <2>4. h = [n \in 0..(m + 1) |-> h[n]]
    OBVIOUS
  <2> HIDE DEF h
  <2>5. Upto(h, m + 1)
    BY <2>3, <2>4
  <2> QED BY <2>5
<1> HIDE DEF P
<1>3. Len(blocks) \in P
  BY <1>1, <1>2, Induction
<1>4. PICK f : Upto(f, Len(blocks))
  BY <1>3 DEF P
<1> DEFINE visit == CHOOSE e : Upto(e, Len(blocks))
<1>5. EmissionOrder(blocks) =
        Reverse(visit[Len(blocks)][<<RootBlock, [visited |-> {}, done |-> <<>>]>>].done)
  BY DEF EmissionOrder, Value
<1>6. Upto(visit, Len(blocks))
  BY <1>4
<1> HIDE DEF visit
<1>7. \A i \in 0..Len(blocks) : visit[i] = Value(i, visit[i - 1])
  BY <1>6
<1>8. visit[0] = [call \in Nat \X Orders |-> call[2]]
  <2>1. visit[0] = Value(0, visit[0 - 1])
    BY <1>7
  <2> QED BY <2>1, Zenon DEF Value
<1>9. ASSUME NEW i \in 1..Len(blocks)
      PROVE  visit[i] = [call \in Nat \X Orders |-> Visit(visit[i - 1], blocks, call[1], call[2])]
  <2>1. visit[i] = Value(i, visit[i - 1]) /\ i # 0
    BY <1>7
  <2> QED BY <2>1, Zenon DEF Value
<1> QED BY <1>5, <1>8, <1>9

Numbered(g, order) == order \in Orders /\ order.visited \subseteq 1..Newest(g)
Unvisited(g, order) == (1..Newest(g)) \ order.visited

(* A visit of block b adds what it can get to, and keeps what is there.      *)
Explores(g, b, order, after) ==
  /\ Numbered(g, after)
  /\ b = 0 \/ b \in order.visited => after = order
  /\ order.visited \subseteq after.visited
  /\ b # 0 => b \in after.visited
  /\ \A z \in after.visited \ order.visited :
       F(g, z) \in after.visited \union {0} /\ T(g, z) \in after.visited \union {0}
  /\ ToSet(after.done) = ToSet(order.done) \union (after.visited \ order.visited)
  /\ order.done # <<>> => after.done # <<>> /\ after.done[1] = order.done[1]

(* The block that is done first is the one that the first exits lead to.     *)
Finishes(g, b, order, after) ==
  \A end \in Unvisited(g, order) :
    /\ F(g, end) = 0 /\ T(g, end) = 0 /\ order.done = <<>>
    /\ Leads(g, Unvisited(g, order) \ {end}, b, end)
    => after.done # <<>> /\ after.done[1] = end

LEMMA ExploresOn ==
  ASSUME NEW g, NEW b, NEW c, NEW o, NEW p, NEW q, Explores(g, b, o, p), Explores(g, c, p, q)
  PROVE  /\ Numbered(g, q)
         /\ o.visited \subseteq q.visited /\ p.visited \subseteq q.visited
         /\ b # 0 => b \in q.visited
         /\ c # 0 => c \in q.visited
         /\ \A z \in q.visited \ o.visited :
              F(g, z) \in q.visited \union {0} /\ T(g, z) \in q.visited \union {0}
         /\ ToSet(q.done) = ToSet(o.done) \union (q.visited \ o.visited)
         /\ o.done # <<>> => q.done # <<>> /\ q.done[1] = o.done[1]
<1>1. /\ Numbered(g, p)
      /\ o.visited \subseteq p.visited
      /\ b # 0 => b \in p.visited
      /\ \A z \in p.visited \ o.visited :
           F(g, z) \in p.visited \union {0} /\ T(g, z) \in p.visited \union {0}
      /\ ToSet(p.done) = ToSet(o.done) \union (p.visited \ o.visited)
      /\ o.done # <<>> => p.done # <<>> /\ p.done[1] = o.done[1]
  BY DEF Explores
<1>2. /\ Numbered(g, q)
      /\ p.visited \subseteq q.visited
      /\ c # 0 => c \in q.visited
      /\ \A z \in q.visited \ p.visited :
           F(g, z) \in q.visited \union {0} /\ T(g, z) \in q.visited \union {0}
      /\ ToSet(q.done) = ToSet(p.done) \union (q.visited \ p.visited)
      /\ p.done # <<>> => q.done # <<>> /\ q.done[1] = p.done[1]
  BY DEF Explores
<1>3. o.visited \subseteq q.visited
  BY <1>1, <1>2
<1>4. ToSet(q.done) = ToSet(o.done) \union (q.visited \ o.visited)
  BY <1>1, <1>2
<1>5. ASSUME NEW z \in q.visited \ o.visited
      PROVE  F(g, z) \in q.visited \union {0} /\ T(g, z) \in q.visited \union {0}
  BY <1>1, <1>2
<1> QED BY <1>1, <1>2, <1>3, <1>4, <1>5

LEMMA DoneAppended ==
  ASSUME NEW done \in Seq(Nat), NEW b \in Nat
  PROVE  /\ Append(done, b) \in Seq(Nat) /\ Append(done, b) # <<>>
         /\ ToSet(Append(done, b)) = ToSet(done) \union {b}
         /\ done # <<>> => Append(done, b)[1] = done[1]
         /\ done = <<>> => Append(done, b)[1] = b
<1> DEFINE more == Append(done, b)
<1>1. /\ more \in Seq(Nat) /\ Len(more) = Len(done) + 1 /\ Len(done) \in Nat
      /\ DOMAIN more = 1..(Len(done) + 1) /\ DOMAIN done = 1..Len(done)
      /\ more[Len(done) + 1] = b
      /\ \A k \in 1..Len(done) : more[k] = done[k]
      /\ done # <<>> => 1 \in 1..Len(done)
      /\ done = <<>> => Len(done) = 0
  OBVIOUS
<1> HIDE DEF more
<1>2. \A x \in ToSet(more) : x \in ToSet(done) \union {b}
  <2> SUFFICES ASSUME NEW k \in DOMAIN more PROVE more[k] \in ToSet(done) \union {b}
    BY DEF ToSet
  <2>1. CASE k = Len(done) + 1
    BY <1>1, <2>1
  <2>2. CASE k # Len(done) + 1
    <3>1. k \in DOMAIN done /\ more[k] = done[k]
      BY <1>1, <2>2
    <3> QED BY <3>1 DEF ToSet
  <2> QED BY <2>1, <2>2
<1>3. \A x \in ToSet(done) : x \in ToSet(more)
  BY <1>1 DEF ToSet
<1>4. b \in ToSet(more)
  <2>1. Len(done) + 1 \in DOMAIN more
    BY <1>1
  <2> QED BY <1>1, <2>1 DEF ToSet
<1>5. more # <<>> /\ (done # <<>> => more[1] = done[1]) /\ (done = <<>> => more[1] = b)
  BY <1>1
<1> QED BY <1>1, <1>2, <1>3, <1>4, <1>5 DEF more

(* Who leaves a block on such a path does not come back to it.               *)
LEMMA LeadsAway ==
  ASSUME NEW g, WellFormed(g), NEW R, NEW b \in R, NEW end, end # b, end \notin R, end # 0,
         R \subseteq 1..Newest(g), Leads(g, R, b, end)
  PROVE  /\ Leads(g, R \ {b}, First(g, b), end)
         /\ First(g, b) \in R \union {end} /\ First(g, b) # b /\ First(g, b) # 0
<1> DEFINE c == First(g, b)
           Q == R \ {b}
<1>0. Newest(g) \in Nat /\ c \in Nat /\ b \in Nat /\ end \in Nat
  <2>1. Newest(g) \in Nat /\ b \in 1..Newest(g)
    BY GraphType DEF WellFormed
  <2>2. c \in Nat
    BY <2>1 DEF First, WellFormed
  <2>3. end \in Nat
    <3>1. \A z \in Nat \cap R : First(g, z) \in Nat
      BY <2>1 DEF First, WellFormed
    <3>2. Nat \in SUBSET Nat /\ b \in Nat
      BY <2>1
    <3> QED BY <3>1, <3>2 DEF Leads
  <2> QED BY <2>1, <2>2, <2>3
<1>1. Leads(g, Q, c, end)
  <2> SUFFICES ASSUME NEW S \in SUBSET Nat, c \in S, \A z \in S \cap Q : First(g, z) \in S
               PROVE  end \in S
    BY DEF Leads
  <2> DEFINE W == S \union {b}
  <2>1. W \in SUBSET Nat /\ b \in W /\ \A z \in W \cap R : First(g, z) \in W
    BY <1>0
  <2>2. end \in W
    BY <2>1 DEF Leads
  <2> QED BY <2>2
<1>2. c \notin Q => c = end
  <2>1. ASSUME c \notin Q PROVE end \in {c}
    <3>1. {c} \in SUBSET Nat /\ c \in {c} /\ \A z \in {c} \cap Q : First(g, z) \in {c}
      BY <1>0, <2>1
    <3> QED BY <1>1, <3>1 DEF Leads
  <2> QED BY <2>1
<1> QED BY <1>0, <1>1, <1>2

(* What the visits of depth n do when no more than n blocks are to come.     *)
Visits(g, visit, n) ==
  \A b \in 0..Newest(g), order \in Orders :
    Numbered(g, order) /\ Cardinality(Unvisited(g, order)) <= n =>
      /\ Explores(g, b, order, visit[<<b, order>>])
      /\ Finishes(g, b, order, visit[<<b, order>>])

LEMMA NothingToVisit ==
  ASSUME NEW g, WellFormed(g), NEW b \in 0..Newest(g), NEW order, Numbered(g, order),
         b = 0 \/ b \in order.visited
  PROVE  Explores(g, b, order, order) /\ Finishes(g, b, order, order)
<1>1. Explores(g, b, order, order)
  BY DEF Explores
<1>2. ASSUME NEW end \in Unvisited(g, order),
             Leads(g, Unvisited(g, order) \ {end}, b, end)
      PROVE  FALSE
  <2>1. b \in Nat /\ b \notin Unvisited(g, order)
    BY GraphType DEF Unvisited, WellFormed
  <2>2. {b} \in SUBSET Nat /\ \A z \in {b} \cap (Unvisited(g, order) \ {end}) : First(g, z) \in {b}
    BY <2>1
  <2>3. end \in {b}
    BY <1>2, <2>2 DEF Leads
  <2> QED BY <1>2, <2>1, <2>3
<1> QED BY <1>1, <1>2 DEF Finishes

LEMMA FewerUnvisited ==
  ASSUME NEW g, WellFormed(g), NEW order, Numbered(g, order),
         NEW after, Numbered(g, after), order.visited \subseteq after.visited
  PROVE  /\ Cardinality(Unvisited(g, order)) \in Nat
         /\ Cardinality(Unvisited(g, after)) <= Cardinality(Unvisited(g, order))
         /\ Cardinality(Unvisited(g, after)) \in Nat
         /\ \A b \in Unvisited(g, order) : b \in after.visited =>
              Cardinality(Unvisited(g, after)) <= Cardinality(Unvisited(g, order)) - 1
<1> DEFINE A == Unvisited(g, order)
           B == Unvisited(g, after)
<1>1. Newest(g) \in Nat
  BY GraphType DEF WellFormed
<1>2. IsFiniteSet(1..Newest(g))
  BY <1>1, FS_Interval
<1>3. A \subseteq 1..Newest(g) /\ B \subseteq A
  BY DEF Unvisited
<1>4. IsFiniteSet(A) /\ IsFiniteSet(B)
  BY <1>2, <1>3, FS_Subset
<1> HIDE DEF A, B
<1>5. Cardinality(A) \in Nat /\ Cardinality(B) \in Nat /\ Cardinality(B) <= Cardinality(A)
  BY <1>3, <1>4, FS_Subset, FS_CardinalityType
<1>6. ASSUME NEW b \in A, b \notin B PROVE Cardinality(B) <= Cardinality(A) - 1
  <2>1. B \subseteq A \ {b}
    BY <1>3, <1>6
  <2>2. IsFiniteSet(A \ {b}) /\ Cardinality(A \ {b}) = Cardinality(A) - 1
    BY <1>4, <1>6, FS_RemoveElement
  <2>3. Cardinality(B) <= Cardinality(A \ {b})
    BY <2>1, <2>2, FS_Subset
  <2> QED BY <2>2, <2>3
<1>7. \A b \in A : b \in after.visited => b \notin B
  BY DEF B, Unvisited
<1> QED BY <1>5, <1>6, <1>7 DEF A, B

LEMMA VisitStep ==
  ASSUME NEW g, WellFormed(g), NEW visit, NEW n \in Nat, Visits(g, visit, n),
         NEW b \in 0..Newest(g), NEW order \in Orders, Numbered(g, order),
         Cardinality(Unvisited(g, order)) <= n + 1
  PROVE  LET after == Visit(visit, g.blocks, b, order) IN
         Explores(g, b, order, after) /\ Finishes(g, b, order, after)
<1> DEFINE after == Visit(visit, g.blocks, b, order)
<1>1. CASE b = 0 \/ b \in order.visited
  <2>1. after = order
    BY <1>1 DEF Visit, NoBlock
  <2> HIDE DEF after
  <2>2. Explores(g, b, order, after) /\ Finishes(g, b, order, after)
    BY <1>1, <2>1, NothingToVisit
  <2> QED BY <2>2 DEF after
<1>2. CASE b # 0 /\ b \notin order.visited
  <2> DEFINE o == [order EXCEPT !.visited = order.visited \union {b}]
             p == visit[<<F(g, b), o>>]
             q == visit[<<T(g, b), p>>]
             r == [q EXCEPT !.done = Append(q.done, b)]
  <2>1. after = r
    <3>1. ~ (b = NoBlock \/ b \in order.visited)
      BY <1>2 DEF NoBlock
    <3>2. ExitsOf(g.blocks[b])[1] = F(g, b) /\ ExitsOf(g.blocks[b])[2] = T(g, b)
      BY DEF ExitsOf, F, T
    <3> QED BY <3>1, <3>2, Zenon DEF Visit, r, q, p, o
  <2> HIDE DEF after
  <2>2. /\ Newest(g) \in Nat /\ b \in 1..Newest(g) /\ b \in Nat
        /\ F(g, b) \in 0..Newest(g) /\ T(g, b) \in 0..Newest(g)
        /\ F(g, b) \in Nat /\ T(g, b) \in Nat
    BY <1>2, GraphType DEF WellFormed
  <2>3. /\ Numbered(g, o) /\ o \in Orders /\ o.visited = order.visited \union {b}
        /\ o.done = order.done
    BY <2>2 DEF Numbered, Orders
  <2> HIDE DEF o
  <2>4. Cardinality(Unvisited(g, o)) <= n
    <3>1. b \in Unvisited(g, order) /\ b \in o.visited /\ order.visited \subseteq o.visited
      BY <1>2, <2>2, <2>3 DEF Unvisited
    <3>2. /\ Cardinality(Unvisited(g, o)) <= Cardinality(Unvisited(g, order)) - 1
          /\ Cardinality(Unvisited(g, o)) \in Nat /\ Cardinality(Unvisited(g, order)) \in Nat
      BY <2>3, <3>1, FewerUnvisited
    <3> QED BY <3>2
  <2>5. Explores(g, F(g, b), o, p) /\ Finishes(g, F(g, b), o, p)
    BY <2>2, <2>3, <2>4 DEF Visits
  <2> HIDE DEF p
  <2>6. Numbered(g, p) /\ p \in Orders /\ o.visited \subseteq p.visited
    BY <2>5 DEF Explores, Numbered
  <2>7. Cardinality(Unvisited(g, p)) <= n
    <3>1. /\ Cardinality(Unvisited(g, p)) <= Cardinality(Unvisited(g, o))
          /\ Cardinality(Unvisited(g, p)) \in Nat /\ Cardinality(Unvisited(g, o)) \in Nat
      BY <2>3, <2>6, FewerUnvisited
    <3> QED BY <2>4, <3>1
  <2>8. Explores(g, T(g, b), p, q) /\ Finishes(g, T(g, b), p, q)
    BY <2>2, <2>6, <2>7 DEF Visits
  <2> HIDE DEF q
  <2>9. /\ Numbered(g, q)
        /\ o.visited \subseteq q.visited
        /\ F(g, b) # 0 => F(g, b) \in q.visited
        /\ T(g, b) # 0 => T(g, b) \in q.visited
        /\ \A z \in q.visited \ o.visited :
             F(g, z) \in q.visited \union {0} /\ T(g, z) \in q.visited \union {0}
        /\ ToSet(q.done) = ToSet(o.done) \union (q.visited \ o.visited)
        /\ o.done # <<>> => q.done # <<>> /\ q.done[1] = o.done[1]
    BY <2>5, <2>8, ExploresOn
  <2>10. /\ r \in Orders /\ Numbered(g, r) /\ r.visited = q.visited
         /\ r.done = Append(q.done, b) /\ q.done \in Seq(Nat)
         /\ q.visited \in SUBSET Nat
    <3> DEFINE done == Append(q.done, b)
    <3>1. q.done \in Seq(Nat) /\ q.visited \in SUBSET Nat /\ q \in Orders
      BY <2>9 DEF Numbered, Orders
    <3>2. done \in Seq(Nat)
      BY <2>2, <3>1
    <3>3. r = [q EXCEPT !.done = done]
      OBVIOUS
    <3> HIDE DEF done, r
    <3>4. r \in Orders /\ r.visited = q.visited /\ r.done = done
      BY <3>1, <3>2, <3>3 DEF Orders
    <3> QED BY <2>9, <3>1, <3>4 DEF Numbered, done
  <2> HIDE DEF r
  <2>11. /\ r.done # <<>> /\ ToSet(r.done) = ToSet(q.done) \union {b}
         /\ q.done # <<>> => r.done[1] = q.done[1]
         /\ q.done = <<>> => r.done[1] = b
    <3> DEFINE done == Append(q.done, b)
    <3>1. q.done \in Seq(Nat) /\ b \in Nat /\ r.done = done
      BY <2>2, <2>10
    <3>2. /\ done # <<>> /\ ToSet(done) = ToSet(q.done) \union {b}
          /\ q.done # <<>> => done[1] = q.done[1]
          /\ q.done = <<>> => done[1] = b
      BY <3>1, DoneAppended
    <3> HIDE DEF done
    <3> QED BY <3>1, <3>2
  <2>12. Explores(g, b, order, r)
    <3>1. ToSet(r.done) = ToSet(order.done) \union (r.visited \ order.visited)
      <4>1. q.visited \ order.visited = (q.visited \ o.visited) \union {b}
        BY <1>2, <2>3, <2>9
      <4> QED BY <2>3, <2>9, <2>10, <2>11, <4>1
    <3>2. ASSUME NEW z \in r.visited \ order.visited
          PROVE  F(g, z) \in r.visited \union {0} /\ T(g, z) \in r.visited \union {0}
      <4>1. CASE z = b
        BY <2>9, <2>10, <4>1
      <4>2. CASE z # b
        BY <2>3, <2>9, <2>10, <4>2
      <4> QED BY <4>1, <4>2
    <3>3. order.visited \subseteq r.visited /\ b \in r.visited
      BY <2>3, <2>9, <2>10
    <3>4. order.done # <<>> => r.done # <<>> /\ r.done[1] = order.done[1]
      BY <2>3, <2>9, <2>11
    <3> QED BY <1>2, <2>10, <3>1, <3>2, <3>3, <3>4 DEF Explores
  <2>13. ASSUME NEW end \in Unvisited(g, order),
                F(g, end) = 0, T(g, end) = 0, order.done = <<>>,
                Leads(g, Unvisited(g, order) \ {end}, b, end)
         PROVE  r.done # <<>> /\ r.done[1] = end
    <3>1. CASE b = end
      <4>1. p = o /\ q = p
        BY <2>5, <2>8, <2>13, <3>1 DEF Explores
      <4> QED BY <2>3, <2>11, <2>13, <3>1, <4>1
    <3>2. CASE b # end
      <4> DEFINE R == Unvisited(g, order) \ {end}
                 c == First(g, b)
      <4>1. b \in R /\ end \notin R /\ end # 0 /\ R \subseteq 1..Newest(g)
        BY <1>2, <2>2, <2>13, <3>2 DEF Unvisited
      <4>2. R \ {b} = Unvisited(g, o) \ {end} /\ end \in Unvisited(g, o)
        BY <2>3, <2>13, <3>2 DEF Unvisited
      <4>3. Leads(g, Unvisited(g, o) \ {end}, c, end) /\ c # 0
        <5> HIDE DEF R
        <5>1. Leads(g, R, b, end)
          BY <2>13 DEF R
        <5>2. Leads(g, R \ {b}, First(g, b), end) /\ First(g, b) # 0
          BY <3>2, <4>1, <5>1, LeadsAway
        <5> QED BY <4>2, <5>2
      <4>4. CASE F(g, b) # 0
        <5>1. c = F(g, b)
          BY <4>4 DEF First
        <5>2. p.done # <<>> /\ p.done[1] = end
          BY <2>3, <2>5, <2>13, <4>2, <4>3, <5>1 DEF Finishes
        <5>3. q.done # <<>> /\ q.done[1] = end
          BY <2>8, <5>2 DEF Explores
        <5> QED BY <2>11, <5>3
      <4>5. CASE F(g, b) = 0
        <5>1. c = T(g, b)
          BY <4>5 DEF First
        <5>2. p = o
          BY <2>5, <4>5 DEF Explores
        <5>3. q.done # <<>> /\ q.done[1] = end
          BY <2>3, <2>8, <2>13, <4>2, <4>3, <5>1, <5>2 DEF Finishes
        <5> QED BY <2>11, <5>3
      <4> QED BY <4>4, <4>5
    <3> QED BY <3>1, <3>2
  <2>14. Finishes(g, b, order, r)
    BY <2>13 DEF Finishes
  <2> QED BY <2>1, <2>12, <2>14 DEF after
<1> QED BY <1>1, <1>2

(* The blocks that are emitted have exits to emitted ones, and the end of    *)
(* the function comes last.                                                  *)
LEMMA Emitting ==
  ASSUME NEW g, Emittable(g)
  PROVE  LET order == EmissionOrder(g.blocks)
             R == ToSet(order)
         IN /\ order \in Seq(1..Newest(g)) /\ order # <<>> /\ Last(order) = EndBlock
            /\ RootBlock \in R
            /\ \A x \in R : F(g, x) \in R \union {0} /\ T(g, x) \in R \union {0}
            /\ \A x \in R : \A l \in Breaks(g, x) : l \in R
<1> DEFINE N == Newest(g)
           start == [visited |-> {}, done |-> <<>>]
<1>0. /\ WellFormed(g) /\ RootBlock \in 1..N /\ EndBlock \in 1..N
      /\ T(g, EndBlock) = 0 /\ F(g, EndBlock) = 0
      /\ Leads(g, (1..N) \ {EndBlock}, RootBlock, EndBlock)
      /\ \A x \in 1..N : \A l \in Breaks(g, x) : Leads(g, (1..N) \ {EndBlock}, x, l)
  BY DEF Emittable
<1>1. N \in Nat /\ Len(g.blocks) = N
  BY <1>0, GraphType DEF WellFormed, Newest
<1>2. PICK visit : /\ visit[0] = [call \in Nat \X Orders |-> call[2]]
                   /\ \A n \in 1..N :
                        visit[n] = [call \in Nat \X Orders |->
                                      Visit(visit[n - 1], g.blocks, call[1], call[2])]
                   /\ EmissionOrder(g.blocks) = Reverse(visit[N][<<RootBlock, start>>].done)
  <2>1. Len(g.blocks) \in Nat
    BY <1>1
  <2>2. \E f : /\ f[0] = [call \in Nat \X Orders |-> call[2]]
               /\ \A n \in 1..Len(g.blocks) :
                    f[n] = [call \in Nat \X Orders |->
                              Visit(f[n - 1], g.blocks, call[1], call[2])]
               /\ EmissionOrder(g.blocks) = Reverse(f[Len(g.blocks)][<<RootBlock, start>>].done)
    BY <2>1, OrderSteps
  <2> HIDE DEF N, start
  <2> QED BY <1>1, <2>2, Zenon
<1> DEFINE P == {n \in Nat : n <= N => Visits(g, visit[n], n)}
<1>3. 0 \in P
  <2> SUFFICES ASSUME NEW b \in 0..N, NEW order \in Orders, Numbered(g, order),
                      Cardinality(Unvisited(g, order)) <= 0
               PROVE  /\ Explores(g, b, order, visit[0][<<b, order>>])
                      /\ Finishes(g, b, order, visit[0][<<b, order>>])
    BY DEF Visits
  <2>1. b \in Nat /\ visit[0][<<b, order>>] = order
    BY <1>1, <1>2
  <2>2. IsFiniteSet(Unvisited(g, order))
    <3>1. IsFiniteSet(1..N)
      BY <1>1, FS_Interval
    <3>2. Unvisited(g, order) \subseteq 1..N
      BY DEF Unvisited
    <3> QED BY <3>1, <3>2, FS_Subset
  <2>3. Unvisited(g, order) = {}
    BY <2>2, FS_EmptySet, FS_CardinalityType
  <2>4. b = 0 \/ b \in order.visited
    BY <1>1, <2>3 DEF Unvisited
  <2> QED BY <1>0, <2>1, <2>4, NothingToVisit
<1>4. ASSUME NEW n \in Nat, n \in P PROVE n + 1 \in P
  <2> SUFFICES ASSUME n + 1 <= N,
                      NEW b \in 0..N, NEW order \in Orders, Numbered(g, order),
                      Cardinality(Unvisited(g, order)) <= n + 1
               PROVE  /\ Explores(g, b, order, visit[n + 1][<<b, order>>])
                      /\ Finishes(g, b, order, visit[n + 1][<<b, order>>])
    BY DEF Visits
  <2>1. Visits(g, visit[n], n)
    BY <1>1, <1>4
  <2>2. n + 1 \in 1..N /\ (n + 1) - 1 = n /\ b \in Nat
    BY <1>1
  <2>3. visit[n + 1] = [call \in Nat \X Orders |-> Visit(visit[n], g.blocks, call[1], call[2])]
    BY <1>2, <2>2
  <2>4. visit[n + 1][<<b, order>>] = Visit(visit[n], g.blocks, b, order)
    BY <2>2, <2>3
  <2> QED BY <1>0, <2>1, <2>4, VisitStep
<1> HIDE DEF P
<1>5. Visits(g, visit[N], N)
  <2>1. N \in P
    BY <1>1, <1>3, <1>4, Induction
  <2> QED BY <1>1, <2>1 DEF P
<1> DEFINE after == visit[N][<<RootBlock, start>>]
<1>6. /\ start \in Orders /\ Numbered(g, start) /\ Unvisited(g, start) = 1..N
      /\ Cardinality(Unvisited(g, start)) <= N /\ start.visited = {} /\ start.done = <<>>
  <2>1. <<>> \in Seq(Nat) /\ {} \in SUBSET Nat
    OBVIOUS
  <2>2. start \in Orders /\ start.visited = {} /\ start.done = <<>>
    BY <2>1 DEF Orders
  <2>3. Cardinality(1..N) = N
    BY <1>1, FS_Interval
  <2> QED BY <1>1, <2>2, <2>3 DEF Numbered, Unvisited
<1> HIDE DEF start
<1>7. Explores(g, RootBlock, start, after) /\ Finishes(g, RootBlock, start, after)
  <2>1. RootBlock \in 0..N
    BY <1>0
  <2> QED BY <1>5, <1>6, <2>1 DEF Visits
<1> HIDE DEF after
<1>8. /\ after.done \in Seq(Nat) /\ after.visited \subseteq 1..N
      /\ ToSet(after.done) = after.visited /\ RootBlock \in after.visited
      /\ \A z \in after.visited :
           F(g, z) \in after.visited \union {0} /\ T(g, z) \in after.visited \union {0}
  <2>1. ToSet(<<>>) = {}
    BY DEF ToSet
  <2>2. RootBlock # 0
    BY <1>0
  <2> QED BY <1>6, <1>7, <2>1, <2>2 DEF Explores, Numbered, Orders
<1>9. after.done # <<>> /\ after.done[1] = EndBlock
  <2>1. EndBlock \in Unvisited(g, start)
    BY <1>0, <1>6
  <2>2. Leads(g, Unvisited(g, start) \ {EndBlock}, RootBlock, EndBlock)
    BY <1>0, <1>6
  <2> QED BY <1>0, <1>6, <1>7, <2>1, <2>2 DEF Finishes
<1> DEFINE done == after.done
           order == Reverse(done)
<1>10. /\ order \in Seq(1..N) /\ order # <<>> /\ Last(order) = EndBlock
       /\ ToSet(order) = after.visited
  <2> HIDE DEF done
  <2>1. done \in Seq(Nat) /\ done # <<>> /\ ToSet(done) = after.visited /\ done[1] = EndBlock
    BY <1>8, <1>9 DEF done
  <2>2. /\ Len(done) \in Nat /\ Len(done) >= 1 /\ DOMAIN done = 1..Len(done)
    BY <2>1
  <2>3. order = [k \in 1..Len(done) |-> done[Len(done) - k + 1]]
    BY DEF Reverse
  <2>4. \A k \in 1..Len(done) : done[k] \in ToSet(done)
    BY <2>2 DEF ToSet
  <2> HIDE DEF order
  <2>5. \A k \in 1..Len(done) : order[k] \in 1..N /\ order[k] \in ToSet(done)
    <3> SUFFICES ASSUME NEW k \in 1..Len(done) PROVE order[k] \in 1..N /\ order[k] \in ToSet(done)
      OBVIOUS
    <3>1. Len(done) - k + 1 \in 1..Len(done)
      BY <2>2
    <3>2. order[k] = done[Len(done) - k + 1]
      BY <2>3
    <3> QED BY <1>8, <2>1, <2>4, <3>1, <3>2
  <2>6. order \in Seq(1..N) /\ Len(order) = Len(done) /\ DOMAIN order = 1..Len(done)
    <3>1. order \in [1..Len(done) -> 1..N]
      BY <2>3, <2>5
    <3>2. order \in Seq(1..N)
      BY <2>2, <2>3, <2>5, IsASeq
    <3>3. DOMAIN order = 1..Len(done)
      BY <2>3
    <3> QED BY <2>2, <3>2, <3>3
  <2>7. order # <<>> /\ Last(order) = EndBlock
    <3>1. order[Len(done)] = done[1]
      BY <2>2, <2>3
    <3> QED BY <2>1, <2>2, <2>6, <3>1 DEF Last
  <2>8. \A x \in ToSet(order) : x \in ToSet(done)
    BY <2>5, <2>6 DEF ToSet
  <2>9. \A x \in ToSet(done) : x \in ToSet(order)
    <3> SUFFICES ASSUME NEW k \in DOMAIN done PROVE done[k] \in ToSet(order)
      BY DEF ToSet
    <3>1. Len(done) - k + 1 \in DOMAIN order /\ order[Len(done) - k + 1] = done[k]
      BY <2>2, <2>3, <2>6
    <3> QED BY <3>1 DEF ToSet
  <2> QED BY <2>1, <2>6, <2>7, <2>8, <2>9
<1>11. EmissionOrder(g.blocks) = order
  BY <1>2 DEF after
<1>12. ASSUME NEW x \in after.visited, NEW l \in Breaks(g, x) PROVE l \in after.visited
  <2>1. x \in 1..N /\ Leads(g, (1..N) \ {EndBlock}, x, l)
    BY <1>0, <1>8, <1>12
  <2> DEFINE S == after.visited \union {0}
  <2>2. S \in SUBSET Nat /\ x \in S /\ \A z \in S \cap ((1..N) \ {EndBlock}) : First(g, z) \in S
    BY <1>8 DEF First
  <2>3. l \in S
    BY <2>1, <2>2 DEF Leads
  <2>4. l # 0
    <3>1. Code(g, x) \in Seq(Instructions)
      BY <1>0, <2>1, GraphType DEF WellFormed
    <3>2. PICK k \in DOMAIN Code(g, x) : Code(g, x)[k].is = "jump" /\ Code(g, x)[k].to = l
      BY <1>12 DEF Breaks, BreaksOf
    <3>3. Code(g, x)[k] \in Instructions
      BY <3>1, <3>2
    <3> QED BY <3>2, <3>3 DEF Instructions, NoBlock
  <2> QED BY <2>3, <2>4
<1> HIDE DEF order
<1> QED BY <1>8, <1>10, <1>11, <1>12

-----------------------------------------------------------------------------
(* The code that is emitted *)

LEMMA FlattenSteps ==
  ASSUME NEW s, Len(s) \in Nat \ {0}
  PROVE  \E f : /\ f[1] = s[1]
                /\ \A i \in 1..Len(s) : i # 1 => f[i] = f[i - 1] \o s[i]
                /\ FlattenSeq(s) = f[Len(s)]
<1> DEFINE Value(n, below) == IF n <= 1 THEN s[n] ELSE below \o s[n]
           Upto(f, m) == f = [n \in 0..m |-> Value(n, f[n - 1])]
           P == {m \in Nat : \E f : Upto(f, m)}
<1>0. \A v, w : Value(0, v) = Value(0, w)
  BY DEF Value
<1> HIDE DEF Value
<1>1. 0 \in P
  <2> DEFINE f == [n \in 0..0 |-> Value(0, 0)]
  <2>1. \A n \in 0..0 : f[n] = Value(n, f[n - 1])
    BY <1>0
  <2>2. f = [n \in 0..0 |-> f[n]]
    OBVIOUS
  <2> HIDE DEF f
  <2>3. Upto(f, 0)
    BY <2>1, <2>2
  <2> QED BY <2>3
<1>2. ASSUME NEW m \in Nat, m \in P PROVE m + 1 \in P
  <2>1. PICK f : Upto(f, m)
    BY <1>2
  <2> DEFINE last == Value(m + 1, f[m])
             h == [n \in 0..(m + 1) |-> IF n = m + 1 THEN last ELSE f[n]]
  <2>2. \A n \in 0..m : f[n] = Value(n, f[n - 1])
    BY <2>1
  <2>3. ASSUME NEW n \in 0..(m + 1) PROVE h[n] = Value(n, h[n - 1])
    <3>1. CASE n = m + 1
      <4>1. n - 1 \in 0..(m + 1) /\ n - 1 = m /\ n - 1 # m + 1
        BY <3>1
      <4>2. h[n - 1] = f[m] /\ h[n] = last
        BY <3>1, <4>1
      <4> QED BY <3>1, <4>2
    <3>2. CASE n = 0
      <4>1. h[n] = f[n] /\ f[n] = Value(n, f[n - 1])
        BY <2>2, <3>2
      <4> QED BY <1>0, <3>2, <4>1
    <3>3. CASE n # m + 1 /\ n # 0
      <4>1. n \in 0..m /\ n - 1 \in 0..(m + 1) /\ n - 1 # m + 1
        BY <3>3
      <4>2. h[n] = f[n] /\ h[n - 1] = f[n - 1]
        BY <3>3, <4>1
      <4> QED BY <2>2, <4>1, <4>2
    <3> QED BY <3>1, <3>2, <3>3
  <2> HIDE DEF last
  <2>4. h = [n \in 0..(m + 1) |-> h[n]]
    OBVIOUS
  <2> HIDE DEF h
  <2>5. Upto(h, m + 1)
    BY <2>3, <2>4
  <2> QED BY <2>5
<1> HIDE DEF P
<1>3. Len(s) \in P
  BY <1>1, <1>2, Induction
<1>4. PICK f : Upto(f, Len(s))
  BY <1>3 DEF P
<1> DEFINE Flat(g) == g = [i \in 1..Len(s) |-> IF i = 1 THEN s[i] ELSE g[i - 1] \o s[i]]
           g == [i \in 1..Len(s) |-> f[i]]
<1>5. Flat(g)
  <2>1. ASSUME NEW i \in 1..Len(s) PROVE g[i] = IF i = 1 THEN s[i] ELSE g[i - 1] \o s[i]
    <3>1. f[i] = Value(i, f[i - 1])
      BY <1>4
    <3>2. CASE i = 1
      BY <3>1, <3>2 DEF Value
    <3>3. CASE i # 1
      <4>1. i - 1 \in 1..Len(s) /\ ~ (i <= 1)
        BY <3>3
      <4>2. g[i - 1] = f[i - 1] /\ g[i] = f[i]
        BY <4>1
      <4>3. f[i] = f[i - 1] \o s[i]
        BY <3>1, <4>1 DEF Value
      <4> QED BY <3>3, <4>2, <4>3
    <3> QED BY <3>2, <3>3
  <2>2. g = [i \in 1..Len(s) |-> g[i]]
    OBVIOUS
  <2> HIDE DEF g
  <2> QED BY <2>1, <2>2
<1> DEFINE flatten == CHOOSE e : Flat(e)
<1>6. FlattenSeq(s) = flatten[Len(s)]
  BY DEF FlattenSeq
<1>7. Flat(flatten)
  <2> HIDE DEF Flat, g
  <2> QED BY <1>5
<1> HIDE DEF flatten
<1>8. flatten[1] = s[1] /\ \A i \in 1..Len(s) : i # 1 => flatten[i] = flatten[i - 1] \o s[i]
  <2>1. \A i \in 1..Len(s) : flatten[i] = IF i = 1 THEN s[i] ELSE flatten[i - 1] \o s[i]
    BY <1>7
  <2>2. 1 \in 1..Len(s)
    OBVIOUS
  <2> QED BY <2>1, <2>2
<1> QED BY <1>6, <1>8

LEMMA Concatenated ==
  ASSUME NEW S, NEW p \in Seq(S), NEW q \in Seq(S)
  PROVE  /\ p \o q \in Seq(S) /\ ToSet(p \o q) = ToSet(p) \union ToSet(q)
         /\ q # <<>> => p \o q # <<>> /\ Last(p \o q) = Last(q)
<1> DEFINE r == p \o q
           n == Len(p)
           m == Len(q)
<1>1. /\ r \in Seq(S) /\ n \in Nat /\ m \in Nat /\ Len(r) = n + m
      /\ DOMAIN r = 1..(n + m) /\ DOMAIN p = 1..n /\ DOMAIN q = 1..m
      /\ \A k \in 1..n : r[k] = p[k]
      /\ \A k \in 1..m : r[n + k] = q[k]
      /\ q # <<>> => m # 0
  OBVIOUS
<1> HIDE DEF r, n, m
<1>2. ASSUME NEW k \in DOMAIN r PROVE r[k] \in ToSet(p) \union ToSet(q)
  <2>1. CASE k <= n
    <3>1. k \in DOMAIN p /\ r[k] = p[k]
      BY <1>1, <2>1
    <3> QED BY <3>1 DEF ToSet
  <2>2. CASE ~ (k <= n)
    <3>1. k - n \in DOMAIN q /\ r[n + (k - n)] = q[k - n] /\ n + (k - n) = k
      BY <1>1, <2>2
    <3> QED BY <3>1 DEF ToSet
  <2> QED BY <2>1, <2>2
<1>3. ASSUME NEW k \in DOMAIN p PROVE p[k] \in ToSet(r)
  <2>1. k \in DOMAIN r /\ r[k] = p[k]
    BY <1>1
  <2> QED BY <2>1 DEF ToSet
<1>4. ASSUME NEW k \in DOMAIN q PROVE q[k] \in ToSet(r)
  <2>1. n + k \in DOMAIN r /\ r[n + k] = q[k]
    BY <1>1
  <2> QED BY <2>1 DEF ToSet
<1>5. ToSet(r) = ToSet(p) \union ToSet(q)
  <2>1. ToSet(r) \subseteq ToSet(p) \union ToSet(q)
    BY <1>2 DEF ToSet
  <2>2. ToSet(p) \subseteq ToSet(r)
    BY <1>3 DEF ToSet
  <2>3. ToSet(q) \subseteq ToSet(r)
    BY <1>4 DEF ToSet
  <2> QED BY <2>1, <2>2, <2>3
<1>6. ASSUME q # <<>> PROVE r # <<>> /\ Last(r) = Last(q)
  <2>1. m \in 1..m /\ r[n + m] = q[m] /\ n + m # 0
    BY <1>1, <1>6
  <2>2. Last(r) = r[n + m] /\ Last(q) = q[m]
    BY <1>1 DEF Last, m
  <2> QED BY <1>1, <2>1, <2>2
<1> QED BY <1>1, <1>5, <1>6 DEF r

(* What a sequence of sequences flattens to has what those have, and ends as *)
(* the last of them.                                                         *)
LEMMA Flattened ==
  ASSUME NEW S, NEW s \in Seq(Seq(S)), s # <<>>, \A i \in DOMAIN s : s[i] # <<>>
  PROVE  /\ FlattenSeq(s) \in Seq(S) /\ FlattenSeq(s) # <<>>
         /\ Last(FlattenSeq(s)) = Last(Last(s))
         /\ \A i \in DOMAIN s : ToSet(s[i]) \subseteq ToSet(FlattenSeq(s))
<1> DEFINE n == Len(s)
<1>1. /\ n \in Nat \ {0} /\ DOMAIN s = 1..n /\ Last(s) = s[n]
      /\ \A i \in 1..n : s[i] \in Seq(S)
  BY DEF Last
<1>2. \A i \in 1..n : s[i] # <<>>
  BY <1>1
<1>3. PICK f : /\ f[1] = s[1]
               /\ \A i \in 1..n : i # 1 => f[i] = f[i - 1] \o s[i]
               /\ FlattenSeq(s) = f[n]
  BY <1>1, FlattenSteps
<1> HIDE DEF n
<1> DEFINE Flat(i) == /\ f[i] \in Seq(S) /\ f[i] # <<>> /\ Last(f[i]) = Last(s[i])
                      /\ \A j \in 1..i : ToSet(s[j]) \subseteq ToSet(f[i])
           P == {m \in Nat : m + 1 <= n => Flat(m + 1)}
<1>4. 0 \in P
  <2>1. Flat(1)
    BY <1>1, <1>2, <1>3
  <2> HIDE DEF Flat
  <2> QED BY <2>1
<1>5. ASSUME NEW m \in Nat, m \in P PROVE m + 1 \in P
  <2> DEFINE i == m + 1
             k == i + 1
  <2> SUFFICES ASSUME k <= n PROVE Flat(k)
    OBVIOUS
  <2>1. k \in 1..n /\ k # 1 /\ k - 1 = i /\ \A j \in 1..k : j \in 1..i \/ j = k
    BY <1>1
  <2>2. Flat(i)
    <3> HIDE DEF Flat
    <3> QED BY <1>1, <1>5
  <2>3. f[k] = f[i] \o s[k]
    BY <1>3, <2>1
  <2>4. f[i] \in Seq(S) /\ s[k] \in Seq(S) /\ s[k] # <<>>
    BY <1>1, <1>2, <2>1, <2>2
  <2> HIDE DEF i, k
  <2>5. /\ f[k] \in Seq(S) /\ ToSet(f[k]) = ToSet(f[i]) \union ToSet(s[k])
        /\ f[k] # <<>> /\ Last(f[k]) = Last(s[k])
    BY <2>3, <2>4, Concatenated
  <2>6. \A j \in 1..k : ToSet(s[j]) \subseteq ToSet(f[k])
    BY <2>1, <2>2, <2>5
  <2> QED BY <2>5, <2>6
<1> HIDE DEF P, Flat
<1>6. n - 1 \in P /\ (n - 1) + 1 = n
  BY SMTT(30), <1>1, <1>4, <1>5, Induction
<1>7. Flat(n)
  BY <1>1, <1>6 DEF P
<1> QED BY <1>1, <1>3, <1>7 DEF Flat

TestedValues(g) == {Last(Code(g, x)).into : x \in 1..Newest(g)}

(* What the blocks of g are emitted as, if the labels are those of R.        *)
Emissions(g, R) ==
  {s \in Instructions
         \union [is : {"label"}, of : Nat]
         \union [is : {"test"}, from : TestedValues(g), to : Nat] :
     s.is \in {"jump", "test"} => s.to \in R}

LEMMA JumpsEmitted ==
  ASSUME NEW g \in Graphs, NEW x \in 1..Newest(g), NEW R,
         T(g, x) \in R \union {0}, F(g, x) \in R \union {0}
  PROVE  /\ Jumps(g.blocks[x]) \in Seq(Emissions(g, R))
         /\ T(g, x) = 0 /\ F(g, x) = 0 => Jumps(g.blocks[x]) = <<>>
<1> DEFINE test == [is |-> "test", from |-> Last(Code(g, x)).into, to |-> F(g, x)]
           unless == [is |-> "jump", to |-> F(g, x)]
           always == [is |-> "jump", to |-> T(g, x)]
           S == Emissions(g, R)
<1>1. T(g, x) \in Nat /\ F(g, x) \in Nat /\ Last(Code(g, x)).into \in TestedValues(g)
  BY GraphType DEF TestedValues
<1>2. F(g, x) # 0 => test \in S
  <2> SUFFICES ASSUME F(g, x) # 0 PROVE test \in S
    OBVIOUS
  <2>1. test \in [is : {"test"}, from : TestedValues(g), to : Nat] /\ test.to = F(g, x)
    BY <1>1
  <2> HIDE DEF test
  <2> QED BY <2>1 DEF Emissions
<1>3. F(g, x) # 0 => unless \in S
  <2> SUFFICES ASSUME F(g, x) # 0 PROVE unless \in S
    OBVIOUS
  <2>1. unless \in Instructions /\ unless.to = F(g, x)
    BY <1>1 DEF Instructions, NoBlock
  <2> HIDE DEF unless
  <2> QED BY <2>1 DEF Emissions
<1>4. T(g, x) # 0 => always \in S
  <2> SUFFICES ASSUME T(g, x) # 0 PROVE always \in S
    OBVIOUS
  <2>1. always \in Instructions /\ always.to = T(g, x)
    BY <1>1 DEF Instructions, NoBlock
  <2> HIDE DEF always
  <2> QED BY <2>1 DEF Emissions
<1> DEFINE first == IF Code(g, x) # <<>> THEN <<test>> ELSE <<unless>>
<1>5. Jumps(g.blocks[x]) =
        IF F(g, x) = 0 THEN (IF T(g, x) = 0 THEN <<>> ELSE <<always>>)
        ELSE IF Code(g, x) = <<>> \/ T(g, x) = 0 THEN first
        ELSE first \o <<always>>
  BY Zenon DEF Jumps, T, F, Code
<1> HIDE DEF test, unless, always, S
<1>6. F(g, x) # 0 => first \in Seq(S)
  BY <1>2, <1>3
<1>7. T(g, x) # 0 => <<always>> \in Seq(S)
  BY <1>4
<1> HIDE DEF first
<1>8. F(g, x) # 0 /\ T(g, x) # 0 => first \o <<always>> \in Seq(S)
  BY <1>6, <1>7
<1>9. <<>> \in Seq(S)
  OBVIOUS
<1> QED BY <1>5, <1>6, <1>7, <1>8, <1>9 DEF S

(* The code of one block, with its label before it and the jumps after it.   *)
Part(g, x) == <<Label(x)>> \o Code(g, x) \o Jumps(g.blocks[x])

LEMMA PartEmitted ==
  ASSUME NEW g \in Graphs, NEW x \in 1..Newest(g), NEW R,
         T(g, x) \in R \union {0}, F(g, x) \in R \union {0}, Breaks(g, x) \subseteq R
  PROVE  Part(g, x) \in Seq(Emissions(g, R)) /\ Part(g, x) # <<>>
         /\ Label(x) \in ToSet(Part(g, x))
<1> DEFINE S == Emissions(g, R)
           label == <<Label(x)>>
           code == Code(g, x)
           jumps == Jumps(g.blocks[x])
<1>1. Newest(g) \in Nat /\ x \in Nat /\ code \in Seq(Instructions)
  BY GraphType
<1>2. label \in Seq(S) /\ label # <<>> /\ Label(x) \in ToSet(label)
  <2>1. Label(x) \in S
    BY <1>1 DEF Label, Emissions
  <2>2. 1 \in DOMAIN label /\ label[1] = Label(x)
    OBVIOUS
  <2> HIDE DEF S
  <2> QED BY <2>1, <2>2 DEF ToSet
<1>3. code \in Seq(S)
  <2>1. ASSUME NEW k \in DOMAIN code PROVE code[k] \in S
    <3>1. code[k] \in Instructions
      BY <1>1
    <3>2. ASSUME code[k].is = "jump" PROVE code[k].to \in R
      <4>1. code[k].to \in Nat
        BY <3>1, <3>2 DEF Instructions
      <4>2. code[k].to \in Breaks(g, x)
        BY <3>2, <4>1 DEF Breaks, BreaksOf
      <4> QED BY <4>2
    <3>3. code[k].is # "test"
      BY <3>1 DEF Instructions
    <3> HIDE DEF code
    <3> QED BY <3>1, <3>2, <3>3 DEF Emissions
  <2>2. Len(code) \in Nat /\ code = [k \in 1..Len(code) |-> code[k]] /\ DOMAIN code = 1..Len(code)
    BY <1>1
  <2> HIDE DEF S, code
  <2> QED BY <2>1, <2>2, IsASeq
<1>4. jumps \in Seq(S)
  BY JumpsEmitted
<1> HIDE DEF S, code, jumps, label
<1>5. label \o code \in Seq(S) /\ ToSet(label \o code) = ToSet(label) \union ToSet(code)
  BY <1>2, <1>3, Concatenated
<1> DEFINE front == label \o code
<1> HIDE DEF front
<1>6. front \o jumps \in Seq(S) /\ ToSet(front \o jumps) = ToSet(front) \union ToSet(jumps)
  <2>1. front \in Seq(S)
    BY <1>5 DEF front
  <2> QED BY <1>4, <2>1, Concatenated
<1>7. Part(g, x) = front \o jumps
  BY Zenon DEF Part, front, label, code, jumps
<1>8. Label(x) \in ToSet(front \o jumps)
  BY <1>2, <1>5, <1>6 DEF front
<1>9. front \o jumps # <<>>
  BY <1>8 DEF ToSet
<1> QED BY <1>6, <1>7, <1>8, <1>9 DEF S

(* The code of the function ends in its epilog, and has the label of every   *)
(* block that is jumped to.                                                  *)
LEMMA CodeEmitted ==
  ASSUME NEW g, Emittable(g)
  PROVE  LET R == ToSet(EmissionOrder(g.blocks))
             code == Emit(g.blocks)
         IN /\ code \in Seq(Emissions(g, R)) /\ code # <<>> /\ Last(code).is = "epilog"
            /\ EndBlock \in R /\ RootBlock \in R
            /\ \A x \in R : Label(x) \in ToSet(code)
<1> DEFINE order == EmissionOrder(g.blocks)
           R == ToSet(order)
           N == Newest(g)
           S == Emissions(g, R)
           parts == [i \in DOMAIN order |-> Part(g, order[i])]
<1>1. /\ order \in Seq(1..N) /\ order # <<>> /\ Last(order) = EndBlock
      /\ RootBlock \in R
      /\ \A x \in R : F(g, x) \in R \union {0} /\ T(g, x) \in R \union {0}
      /\ \A x \in R : \A l \in Breaks(g, x) : l \in R
  BY Emitting
<1>2. g \in Graphs /\ T(g, EndBlock) = 0 /\ F(g, EndBlock) = 0 /\ EndBlock \in 1..N
  BY DEF Emittable, WellFormed
<1> HIDE DEF order, N
<1>3. /\ Len(order) \in Nat /\ Len(order) >= 1 /\ DOMAIN order = 1..Len(order)
      /\ \A i \in DOMAIN order : order[i] \in 1..N /\ order[i] \in R
      /\ order[Len(order)] = EndBlock /\ EndBlock \in R
  <2>1. Len(order) \in Nat /\ Len(order) >= 1 /\ DOMAIN order = 1..Len(order)
    BY <1>1
  <2>2. \A i \in DOMAIN order : order[i] \in 1..N
    <3> HIDE DEF R
    <3> QED BY <1>1, <2>1, ElementOfSeq
  <2>3. \A i \in DOMAIN order : order[i] \in R
    BY DEF ToSet
  <2>4. order[Len(order)] = EndBlock
    BY <1>1 DEF Last
  <2> HIDE DEF R
  <2>5. Len(order) \in DOMAIN order
    BY <2>1
  <2> QED BY <2>1, <2>2, <2>3, <2>4, <2>5
<1>4. R \subseteq 1..N
  BY <1>3 DEF ToSet
<1> HIDE DEF R
<1>5. ASSUME NEW x \in R
      PROVE  Part(g, x) \in Seq(S) /\ Part(g, x) # <<>> /\ Label(x) \in ToSet(Part(g, x))
  <2>1. x \in 1..N /\ T(g, x) \in R \union {0} /\ F(g, x) \in R \union {0}
        /\ Breaks(g, x) \subseteq R
    BY <1>1, <1>4
  <2> QED BY <1>2, <2>1, PartEmitted DEF N
<1> HIDE DEF S
<1>6. /\ parts \in Seq(Seq(S)) /\ parts # <<>> /\ DOMAIN parts = 1..Len(order)
      /\ Len(parts) = Len(order)
      /\ \A i \in DOMAIN parts : parts[i] = Part(g, order[i]) /\ parts[i] # <<>>
  <2>1. parts = [i \in 1..Len(order) |-> Part(g, order[i])]
    BY <1>3
  <2>2. \A i \in 1..Len(order) : Part(g, order[i]) \in Seq(S) /\ Part(g, order[i]) # <<>>
    BY <1>3, <1>5
  <2> HIDE DEF parts
  <2>3. parts \in Seq(Seq(S))
    BY <1>3, <2>1, <2>2, IsASeq
  <2>4. DOMAIN parts = 1..Len(order)
    BY <2>1
  <2>5. Len(parts) = Len(order)
    BY <1>3, <2>3, <2>4
  <2>6. parts # <<>>
    BY <1>3, <2>3, <2>5
  <2> QED BY <2>1, <2>2, <2>3, <2>4, <2>5, <2>6
<1>7. Emit(g.blocks) = FlattenSeq(parts)
  BY Zenon DEF Emit, parts, Part, order, Code
<1> HIDE DEF parts
<1>8. /\ FlattenSeq(parts) \in Seq(S) /\ FlattenSeq(parts) # <<>>
      /\ Last(FlattenSeq(parts)) = Last(Last(parts))
      /\ \A i \in DOMAIN parts : ToSet(parts[i]) \subseteq ToSet(FlattenSeq(parts))
  BY <1>6, Flattened
<1>9. Last(Last(parts)).is = "epilog"
  <2>1. Last(parts) = Part(g, EndBlock)
    BY <1>3, <1>6 DEF Last
  <2>2. PICK before \in Seq(Instructions) : Code(g, EndBlock) = Append(before, [is |-> "epilog"])
    BY DEF Emittable
  <2>3. Jumps(g.blocks[EndBlock]) = <<>>
    BY <1>2, JumpsEmitted DEF N
  <2> DEFINE code == Code(g, EndBlock)
             All == Instructions \union {Label(EndBlock)}
             label == <<Label(EndBlock)>>
  <2>4. code \in Seq(All) /\ code # <<>> /\ Last(code) = [is |-> "epilog"] /\ label \in Seq(All)
    <3>1. [is |-> "epilog"] \in Instructions
      BY DEF Instructions
    <3> DEFINE epilog == [is |-> "epilog"]
    <3> HIDE DEF epilog
    <3>2. before \in Seq(All) /\ epilog \in All
      BY <3>1 DEF epilog
    <3>3. code = Append(before, epilog)
      BY <2>2 DEF epilog
    <3> HIDE DEF All, code
    <3>4. Len(code) = Len(before) + 1 /\ code[Len(before) + 1] = epilog /\ code \in Seq(All)
      BY <3>2, <3>3
    <3>5. code # <<>> /\ Last(code) = epilog
      BY <3>2, <3>4 DEF Last
    <3>6. label \in Seq(All)
      BY DEF All
    <3> QED BY <3>4, <3>5, <3>6 DEF epilog
  <2> HIDE DEF code, All, label
  <2>5. label \o code \in Seq(All) /\ Last(label \o code) = Last(code)
    BY <2>4, Concatenated
  <2>6. Part(g, EndBlock) = (label \o code) \o <<>>
    BY <2>3, Zenon DEF Part, label, code
  <2>7. (label \o code) \o <<>> = label \o code
    BY <2>5, ConcatEmptySeq
  <2> QED BY <2>1, <2>4, <2>5, <2>6, <2>7
<1>10. ASSUME NEW x \in R PROVE Label(x) \in ToSet(FlattenSeq(parts))
  <2>1. PICK i \in DOMAIN order : order[i] = x
    BY DEF R, ToSet
  <2>2. i \in DOMAIN parts /\ parts[i] = Part(g, x)
    BY <1>3, <1>6, <2>1
  <2> QED BY <1>5, <1>8, <2>2
<1> QED BY <1>1, <1>3, <1>7, <1>8, <1>9, <1>10 DEF S, R, order

-----------------------------------------------------------------------------
(* The execution *)

(* Of the code: it ends in the epilog, loads truth values, and its jumps     *)
(* land.  The first part is what keeps control in it.                        *)
CodeEnds ==
  /\ Len(listing) \in Nat /\ Len(listing) >= 1 /\ DOMAIN listing = 1..Len(listing)
  /\ listing[Len(listing)].is = "epilog"

TruthsAreLoaded ==
  \A i \in DOMAIN listing : listing[i].is = "const" => listing[i].value \in {"true", "false"}

IInv ==
  /\ CodeEnds
  /\ TruthsAreLoaded
  /\ JumpsLand
  /\ pc \in 0..Len(listing)
  /\ memory \in [DOMAIN memory -> Values]

(* The code that any body is emitted as.                                     *)
LEMMA CodeMade ==
  ASSUME NEW program \in Programs,
         listing = Emit(FunctionBlocks(program).blocks)
  PROVE  CodeEnds /\ TruthsAreLoaded /\ JumpsLand
<1> DEFINE g == FunctionBlocks(program)
           R == ToSet(EmissionOrder(g.blocks))
           S == Emissions(g, R)
<1>1. Emittable(g)
  BY ProgramsAssumption, FirstExitsLeadOut
<1> HIDE DEF g
<1>2. /\ listing \in Seq(S) /\ listing # <<>> /\ Last(listing).is = "epilog"
      /\ EndBlock \in R
      /\ \A x \in R : Label(x) \in ToSet(listing)
  BY <1>1, CodeEmitted DEF g
<1> HIDE DEF R, S
<1>3. /\ Len(listing) \in Nat /\ Len(listing) >= 1 /\ DOMAIN listing = 1..Len(listing)
      /\ \A i \in DOMAIN listing : listing[i] \in S
  BY <1>2
<1>4. CodeEnds
  BY <1>2, <1>3 DEF CodeEnds, Last
<1>5. TruthsAreLoaded
  <2> SUFFICES ASSUME NEW s \in S, s.is = "const" PROVE s.value \in {"true", "false"}
    BY <1>3 DEF TruthsAreLoaded
  <2>1. s \in Instructions
    BY DEF S, Emissions
  <2> QED BY <2>1 DEF Instructions
<1>6. \A x \in R : Emitted(x)
  BY <1>2 DEF Emitted, ToSet
<1>7. JumpsLand
  <2>1. \A s \in S : s.is \in {"jump", "test"} => s.to \in R
    BY DEF S, Emissions
  <2> QED BY <1>2, <1>3, <1>6, <2>1 DEF JumpsLand
<1> QED BY <1>4, <1>5, <1>7

LEMMA LandsThere ==
  ASSUME NEW b, CodeEnds, Emitted(b)
  PROVE  Position(b) \in 0..Len(listing)
<1>1. Position(b) \in DOMAIN listing
  BY DEF Emitted, Position
<1> QED BY <1>1 DEF CodeEnds

(* Before the epilog there is a next instruction.                            *)
LEMMA GoesOn ==
  ASSUME IInv, Running, Instruction.is # "epilog"
  PROVE  pc \in DOMAIN listing /\ pc + 1 \in 0..Len(listing)
<1> DEFINE n == Len(listing)
<1>1. /\ Len(listing) \in Nat /\ DOMAIN listing = 1..Len(listing) /\ pc \in 0..Len(listing)
      /\ listing[Len(listing)].is = "epilog"
  BY DEF IInv, CodeEnds
<1>2. pc # 0 /\ pc # Len(listing)
  BY <1>1 DEF Running, Instruction
<1>3. n \in Nat /\ DOMAIN listing = 1..n /\ pc \in 0..n /\ pc # 0 /\ pc # n
  BY <1>1, <1>2
<1> HIDE DEF n
<1>4. pc \in 1..n /\ pc + 1 \in 0..n
  BY <1>3
<1> QED BY <1>3, <1>4 DEF n

LEMMA Written ==
  ASSUME NEW t, NEW v \in Values, memory \in [DOMAIN memory -> Values],
         memory' = [memory EXCEPT ![t] = v]
  PROVE  memory' \in [DOMAIN memory' -> Values]
OBVIOUS

LEMMA MachineStarts == Init => IInv
<1> SUFFICES ASSUME NEW program \in Programs, Starts(program) PROVE IInv
  BY DEF Init
<1>1. /\ listing = Emit(FunctionBlocks(program).blocks) /\ pc = 1
      /\ memory = [t \in 1..FunctionBlocks(program).temporaries |-> "unset"]
  BY Zenon DEF Starts
<1>2. CodeEnds /\ TruthsAreLoaded /\ JumpsLand
  BY <1>1, CodeMade
<1>3. pc \in 0..Len(listing)
  BY <1>1, <1>2 DEF CodeEnds
<1>4. memory \in [DOMAIN memory -> Values]
  BY <1>1 DEF Values
<1> QED BY <1>2, <1>3, <1>4 DEF IInv

LEMMA MachineSteps == IInv /\ [Next]_vars => IInv'
<1> SUFFICES ASSUME IInv, [Next]_vars PROVE IInv'
  OBVIOUS
<1>1. /\ CodeEnds /\ TruthsAreLoaded /\ JumpsLand /\ pc \in 0..Len(listing)
      /\ memory \in [DOMAIN memory -> Values]
  BY DEF IInv
<1>2. ASSUME UNCHANGED listing,
             pc' \in 0..Len(listing), memory' \in [DOMAIN memory' -> Values]
      PROVE  IInv'
  <2>1. CodeEnds' /\ TruthsAreLoaded' /\ JumpsLand'
    BY <1>1, <1>2 DEF CodeEnds, TruthsAreLoaded, JumpsLand, Emitted
  <2> QED BY <1>2, <2>1 DEF IInv
<1>3. ASSUME EvaluateAtom PROVE IInv'
  <2>1. PICK value \in BOOLEAN : Write(Instruction.into, value)
    BY <1>3 DEF EvaluateAtom
  <2>2. memory' \in [DOMAIN memory' -> Values]
    <3>1. (IF value THEN "true" ELSE "false") \in Values
      BY DEF Values
    <3> QED BY <1>1, <2>1, <3>1, Written DEF Write
  <2>3. pc' \in 0..Len(listing)
    BY <1>3, GoesOn DEF EvaluateAtom
  <2> QED BY <1>2, <1>3, <2>2, <2>3 DEF EvaluateAtom
<1>4. ASSUME LoadConst PROVE IInv'
  <2>1. pc \in DOMAIN listing /\ pc + 1 \in 0..Len(listing)
    BY <1>4, GoesOn DEF LoadConst
  <2>2. Instruction.value \in Values
    BY <1>1, <1>4, <2>1 DEF LoadConst, TruthsAreLoaded, Instruction, Values
  <2>3. memory' \in [DOMAIN memory' -> Values]
    BY <1>1, <1>4, <2>2, Written DEF LoadConst
  <2> QED BY <1>2, <1>4, <2>1, <2>3 DEF LoadConst
<1>5. ASSUME CompareWithZero PROVE IInv'
  <2>1. PICK value \in Read(Instruction.from) : Write(Instruction.into, ~ value)
    BY <1>5 DEF CompareWithZero
  <2>2. memory' \in [DOMAIN memory' -> Values]
    <3>1. (IF ~ value THEN "true" ELSE "false") \in Values
      BY DEF Values
    <3> QED BY <1>1, <2>1, <3>1, Written DEF Write
  <2>3. pc' \in 0..Len(listing)
    BY <1>5, GoesOn DEF CompareWithZero
  <2> QED BY <1>2, <1>5, <2>2, <2>3 DEF CompareWithZero
<1>6. ASSUME Pass PROVE IInv'
  <2>1. pc' \in 0..Len(listing)
    BY <1>6, GoesOn DEF Pass
  <2> QED BY <1>1, <1>2, <1>6, <2>1 DEF Pass
<1>7. ASSUME Jump PROVE IInv'
  <2>1. pc' \in 0..Len(listing)
    BY <1>1, <1>7, LandsThere DEF Jump, JumpTo
  <2> QED BY <1>1, <1>2, <1>7, <2>1 DEF Jump
<1>8. ASSUME Test PROVE IInv'
  <2>1. PICK value \in Read(Instruction.from) :
          IF value THEN pc' = pc + 1 ELSE JumpTo(Instruction.to)
    BY <1>8 DEF Test
  <2>2. pc' \in 0..Len(listing)
    <3>1. pc + 1 \in 0..Len(listing)
      BY <1>8, GoesOn DEF Test
    <3>2. JumpTo(Instruction.to) => pc' \in 0..Len(listing)
      BY <1>1, LandsThere DEF JumpTo
    <3> QED BY <2>1, <3>1, <3>2
  <2> QED BY <1>1, <1>2, <1>8, <2>2 DEF Test
<1>9. ASSUME ReturnToCaller PROVE IInv'
  <2>1. pc' \in 0..Len(listing)
    BY <1>1, <1>9 DEF ReturnToCaller, CodeEnds
  <2> QED BY <1>1, <1>2, <1>9, <2>1 DEF ReturnToCaller
<1>10. ASSUME UNCHANGED vars PROVE IInv'
  BY <1>1, <1>2, <1>10 DEF vars
<1> QED BY <1>3, <1>4, <1>5, <1>6, <1>7, <1>8, <1>9, <1>10 DEF Next

(* For every function that Caramel accepts: control stays at instructions of *)
(* the function until its epilog returns, whatever its expressions evaluate  *)
(* to, and never falls into the code that comes next.  The end block has to  *)
(* come last in the depth-first order of X86_64CFGVisitor for that, for all  *)
(* the control structures of src/ast and for however deep they are nested.   *)
THEOREM ControlStaysInside == Spec => []TypeOK
<1>1. Spec => []IInv
  BY MachineStarts, MachineSteps, PTL DEF Spec
<1>2. IInv => TypeOK
  BY DEF IInv, TypeOK
<1> QED BY <1>1, <1>2, PTL

(* For every function that Caramel accepts: no jump that                     *)
(* X86_64BasicBlockVisitor emits, and no break and no return, goes to a      *)
(* label that is not emitted, although blocks that no exit leads to are      *)
(* left out and breaks name the blocks that they go to themselves.           *)
THEOREM EveryJumpLands == Spec => []JumpsLand
<1>1. Spec => []IInv
  BY MachineStarts, MachineSteps, PTL DEF Spec
<1>2. IInv => JumpsLand
  BY DEF IInv
<1> QED BY <1>1, <1>2, PTL

=============================================================================

------------------------- MODULE CallSequenceProofs -------------------------
(***************************************************************************)
(* Proofs about CallSequence, for any number of argument registers, of     *)
(* arguments and of calls, of programs that are Careful; and that it       *)
(* implements Calls: every step of the machine is, seen through Mapped, a  *)
(* step of the promise or changes nothing.                                 *)
(***************************************************************************)
EXTENDS CallSequence, SequenceTheorems, WellFoundedInduction, TLAPS

(* The parts of the state that the types are about.                          *)
LEMMA Typed ==
  ASSUME TypeOK
  PROVE  /\ Depth \in Nat /\ Depth > 0 /\ Depth \in 1..Depth
         /\ Len(stack) \in Nat
         /\ Inner = calls[Depth] /\ Inner \in Records
         /\ \A j \in 1..Depth :
              /\ calls[j] \in Records
              /\ calls[j].arity \in Nat /\ calls[j].left \in Nat
              /\ calls[j].floor \in Nat /\ calls[j].base \in Nat
              /\ calls[j].library \in BOOLEAN
              /\ calls[j].values \in Seq(Int)
              /\ calls[j].left <= calls[j].arity
              /\ Len(calls[j].values) = calls[j].arity
         /\ \A h \in 1..Len(stack) : stack[h] \in Int
         /\ \A r \in Registers : regs[r] \in Int
<1>1. calls \in Seq(Records) /\ stack \in Seq(Int) /\ regs \in [Registers -> Int] /\ Depth > 0
  BY DEF TypeOK
<1>2. Depth \in Nat /\ Len(stack) \in Nat
  BY <1>1, LenProperties DEF Depth
<1>3. \A j \in 1..Depth : calls[j] \in Records
  BY <1>1, ElementOfSeq DEF Depth
<1>4. \A h \in 1..Len(stack) : stack[h] \in Int
  BY <1>1, ElementOfSeq
<1>5. Inner = calls[Depth] /\ Inner \in Records
  BY <1>1, <1>2, <1>3 DEF Inner
<1>6. \A j \in 1..Depth :
        /\ calls[j].arity \in Nat /\ calls[j].left \in Nat
        /\ calls[j].floor \in Nat /\ calls[j].base \in Nat
        /\ calls[j].library \in BOOLEAN /\ calls[j].values \in Seq(Int)
  BY <1>3 DEF Records
<1>7. \A j \in 1..Depth :
        calls[j].left <= calls[j].arity /\ Len(calls[j].values) = calls[j].arity
  BY DEF TypeOK
<1>. QED  BY <1>1, <1>2, <1>3, <1>4, <1>5, <1>6, <1>7

-----------------------------------------------------------------------------
(* What each action does to the calls and the words on the stack *)

Pushes(w) ==
  /\ Len(stack') = Len(stack) + 1
  /\ \A h \in 1..Len(stack) : stack'[h] = stack[h]
  /\ stack'[Len(stack) + 1] = w
  /\ stack' \in Seq(Int)

LEMMA AppendPushes ==
  ASSUME TypeOK, NEW w \in Int, stack' = Append(stack, w)
  PROVE  Pushes(w)
  BY AppendProperties DEF Pushes, TypeOK

(* The innermost call becomes c, and the others stay.                        *)
Becomes(c) ==
  /\ Depth' = Depth
  /\ calls' \in Seq(Records)
  /\ calls'[Depth] = c
  /\ \A j \in 1..Depth : j # Depth => calls'[j] = calls[j]

LEMMA ExceptBecomes ==
  ASSUME TypeOK, NEW c \in Records, calls' = [calls EXCEPT ![Depth] = c]
  PROVE  Becomes(c)
<1>1. calls \in Seq(Records) /\ Depth \in 1..Len(calls)
  BY Typed DEF TypeOK, Depth
<1>. QED  BY <1>1, ExceptSeq DEF Becomes, Depth

(* The call begun: one more, after the others.                               *)
LEMMA BeginCallFacts ==
  ASSUME TypeOK, NEW n \in 0..MaxArity, NEW library \in BOOLEAN, BeginCall(n, library)
  PROVE  /\ Begun(n, library, Len(stack)) \in Records
         /\ calls' \in Seq(Records)
         /\ Depth' = Depth + 1
         /\ \A j \in 1..Depth : calls'[j] = calls[j]
         /\ calls'[Depth + 1] = Begun(n, library, Len(stack))
         /\ Len(Begun(n, library, Len(stack)).values) = n
<1>1. [i \in 1..n |-> 0] \in Seq(Int) /\ Len([i \in 1..n |-> 0]) = n
  BY IsASeq
<1>2. Begun(n, library, Len(stack)) \in Records
  BY <1>1, Typed DEF Begun, Records
<1>3. calls \in Seq(Records) /\ calls' = Append(calls, Begun(n, library, Len(stack)))
  BY DEF TypeOK, BeginCall
<1>. QED  BY <1>1, <1>2, <1>3, AppendProperties DEF Depth, Begun

(* The call whose next argument is passed.                                   *)
LEMMA CallParameterFacts ==
  ASSUME TypeOK, NEW v \in Values, CallParameter(v)
  PROVE  LET i == calls[Depth].left - 1 IN
         /\ i \in Nat /\ i < calls[Depth].arity
         /\ Becomes([calls[Depth] EXCEPT !.left = i, !.values = [@ EXCEPT ![i + 1] = v]])
         /\ [calls[Depth] EXCEPT !.left = i, !.values = [@ EXCEPT ![i + 1] = v]] \in Records
         /\ Len(calls'[Depth].values) = calls[Depth].arity
         /\ \A k \in 1..calls[Depth].arity :
              calls'[Depth].values[k] = IF k = i + 1 THEN v ELSE calls[Depth].values[k]
         /\ Pushes(IF i < ArgRegisters THEN regs[i] ELSE v)
         /\ regs' \in [Registers -> Int]
         /\ \A r \in Registers : regs'[r] = IF r = i THEN v ELSE regs[r]
<1>. DEFINE i == calls[Depth].left - 1
            c == [calls[Depth] EXCEPT !.left = i, !.values = [@ EXCEPT ![i + 1] = v]]
<1>1. i \in Nat /\ i < calls[Depth].arity /\ v \in Int
  BY Typed, WordsAssumption DEF CallParameter
<1>2. /\ [calls[Depth].values EXCEPT ![i + 1] = v] \in Seq(Int)
      /\ Len([calls[Depth].values EXCEPT ![i + 1] = v]) = calls[Depth].arity
      /\ \A k \in 1..calls[Depth].arity :
           [calls[Depth].values EXCEPT ![i + 1] = v][k]
             = IF k = i + 1 THEN v ELSE calls[Depth].values[k]
  <2>1. /\ calls[Depth].values \in Seq(Int) /\ Len(calls[Depth].values) = calls[Depth].arity
        /\ i + 1 \in 1..Len(calls[Depth].values)
    BY SMTT(60), <1>1, Typed
  <2>. QED  BY <1>1, <2>1, ExceptSeq
<1>3. c.values = [calls[Depth].values EXCEPT ![i + 1] = v] /\ c \in Records
  <2>1. calls[Depth] \in Records /\ i \in 0..MaxArity
    BY <1>1, Typed, BoundsAssumption DEF Records
  <2>2. \A w \in Seq(Int) :
          /\ [calls[Depth] EXCEPT !.left = i, !.values = w] \in Records
          /\ [calls[Depth] EXCEPT !.left = i, !.values = w].values = w
    BY <2>1 DEF Records
  <2>. QED  BY <1>2, <2>2
<1>4. calls' = [calls EXCEPT ![Depth] = c]
  BY Typed DEF CallParameter
<1>5. Becomes(c)
  BY <1>3, <1>4, ExceptBecomes
<1>6. stack' = Append(stack, IF i < ArgRegisters THEN regs[i] ELSE v)
  BY Typed DEF CallParameter
<1>7. (IF i < ArgRegisters THEN regs[i] ELSE v) \in Int
  BY <1>1, Typed, RegistersAssumption DEF Registers
<1>8. Pushes(IF i < ArgRegisters THEN regs[i] ELSE v)
  BY <1>6, <1>7, AppendPushes
<1>9. /\ regs' \in [Registers -> Int]
      /\ \A r \in Registers : regs'[r] = IF r = i THEN v ELSE regs[r]
  <2>1. regs' = IF i < ArgRegisters THEN [regs EXCEPT ![i] = v] ELSE regs
    BY Typed DEF CallParameter
  <2>2. regs \in [Registers -> Int]
    BY DEF TypeOK
  <2>3. i < ArgRegisters <=> i \in Registers
    BY <1>1, RegistersAssumption DEF Registers
  <2>. QED  BY <1>1, <2>1, <2>2, <2>3
<1>10. calls'[Depth] = c
  BY <1>5 DEF Becomes
<1>. QED  BY <1>1, <1>2, <1>3, <1>5, <1>8, <1>9, <1>10

(* The function entered.                                                     *)
LEMMA FunctionCallFacts ==
  ASSUME TypeOK, FunctionCall
  PROVE  /\ Becomes([calls[Depth] EXCEPT !.base = Len(stack) + 2])
         /\ [calls[Depth] EXCEPT !.base = Len(stack) + 2] \in Records
         /\ Saves(Depth) \in Nat /\ Saves(Depth) <= ArgRegisters
         /\ Saves(Depth) <= calls[Depth].arity
         /\ stack' \in Seq(Int)
         /\ Len(stack') = Len(stack) + 2 + Saves(Depth)
         /\ \A h \in 1..Len(stack) : stack'[h] = stack[h]
         /\ stack'[Len(stack) + 1] = Site(Depth)
         /\ stack'[Len(stack) + 2] = rbp
         /\ \A i \in 0..(Saves(Depth) - 1) : stack'[Len(stack) + 3 + i] = regs[i]
<1>. DEFINE c == [calls[Depth] EXCEPT !.base = Len(stack) + 2]
            n == Saves(Depth)
            slots == Slots(calls[Depth].arity)
<1>0. Len(stack) \in Nat /\ calls[Depth].arity \in Nat
  BY Typed
<1>1. c \in Records
  <2>1. calls[Depth] \in Records /\ Len(stack) + 2 \in Nat
    BY Typed
  <2>. QED  BY <2>1 DEF Records
<1>2. calls' = [calls EXCEPT ![Depth] = c]
  BY Typed DEF FunctionCall
<1>3. Becomes(c)
  BY <1>1, <1>2, ExceptBecomes
<1>4. n \in Nat /\ n <= ArgRegisters /\ n <= calls[Depth].arity
  BY <1>0, RegistersAssumption DEF Saves, Smaller
<1>5. slots \in Seq(Int) /\ Len(slots) = n /\ \A i \in 1..n : slots[i] = regs[i - 1]
  <2>1. slots = [i \in 1..n |-> regs[i - 1]]
    BY DEF Slots, Saves
  <2>2. \A i \in 1..n : i - 1 \in Registers
    BY <1>4, RegistersAssumption DEF Registers
  <2>3. \A i \in 1..n : regs[i - 1] \in Int
    BY <2>2, Typed
  <2>. QED  BY <1>4, <2>1, <2>3, IsASeq
<1>6. /\ <<Site(Depth), rbp>> \in Seq(Int) /\ Len(<<Site(Depth), rbp>>) = 2
      /\ <<Site(Depth), rbp>>[1] = Site(Depth) /\ <<Site(Depth), rbp>>[2] = rbp
  BY Typed DEF Site, TypeOK
<1>. DEFINE st == stack \o <<Site(Depth), rbp>>
<1>7. /\ st \in Seq(Int) /\ Len(st) = Len(stack) + 2
      /\ \A h \in 1..(Len(stack) + 2) : st[h] =
           IF h <= Len(stack) THEN stack[h] ELSE <<Site(Depth), rbp>>[h - Len(stack)]
  BY <1>6, ConcatProperties DEF TypeOK
<1>8. stack' = st \o slots
  BY Typed DEF FunctionCall
<1>. HIDE DEF st, slots, n
<1>9. /\ stack' \in Seq(Int) /\ Len(stack') = Len(st) + n
      /\ \A h \in 1..(Len(st) + n) :
           stack'[h] = IF h <= Len(st) THEN st[h] ELSE slots[h - Len(st)]
  BY <1>5, <1>7, <1>8, ConcatProperties
<1>10. \A h \in 1..Len(stack) : stack'[h] = stack[h]
  <2>. SUFFICES ASSUME NEW h \in 1..Len(stack) PROVE stack'[h] = stack[h]
    OBVIOUS
  <2>1. h \in 1..(Len(st) + n) /\ h <= Len(st)
    BY <1>4, <1>7, <1>0
  <2>2. stack'[h] = st[h]
    BY <1>9, <2>1
  <2>3. h \in 1..(Len(stack) + 2) /\ h <= Len(stack)
    BY <1>0
  <2>4. st[h] = stack[h]
    BY <1>7, <2>3
  <2>. QED  BY <2>2, <2>4
<1>11. stack'[Len(stack) + 1] = Site(Depth) /\ stack'[Len(stack) + 2] = rbp
  <2>1. stack'[Len(stack) + 1] = st[Len(stack) + 1] /\ stack'[Len(stack) + 2] = st[Len(stack) + 2]
    BY SMTT(60), <1>4, <1>7, <1>9, <1>0
  <2>2. st[Len(stack) + 1] = <<Site(Depth), rbp>>[1] /\ st[Len(stack) + 2] = <<Site(Depth), rbp>>[2]
    BY <1>7, <1>0
  <2>. QED  BY <1>6, <2>1, <2>2
<1>12. \A i \in 0..(n - 1) : stack'[Len(stack) + 3 + i] = regs[i]
  <2>. SUFFICES ASSUME NEW i \in 0..(n - 1) PROVE stack'[Len(stack) + 3 + i] = regs[i]
    OBVIOUS
  <2>0. /\ Len(stack) + 3 + i \in 1..(Len(st) + n) /\ ~ (Len(stack) + 3 + i <= Len(st))
        /\ Len(stack) + 3 + i - Len(st) = i + 1
    BY <1>4, <1>7, <1>0
  <2>1. stack'[Len(stack) + 3 + i] = slots[i + 1]
    BY <1>9, <2>0
  <2>2. slots[i + 1] = regs[i]
    BY <1>4, <1>5
  <2>. QED  BY <2>1, <2>2
<1>. QED  BY <1>1, <1>3, <1>4, <1>7, <1>9, <1>10, <1>11, <1>12 DEF n

-----------------------------------------------------------------------------
(* The end of a call *)

(* The innermost call goes, with the words pushed since it was begun, and    *)
(* leaves in its registers what it saved.                                    *)
Pops ==
  /\ Depth > 1 /\ Depth' = Depth - 1
  /\ calls' \in Seq(Records)
  /\ \A j \in 1..(Depth - 1) : calls'[j] = calls[j]
  /\ stack' \in Seq(Int) /\ Len(stack') = calls[Depth].floor
  /\ calls[Depth].floor <= Len(stack)
  /\ \A h \in 1..calls[Depth].floor : stack'[h] = stack[h]
  /\ saved = FALSE /\ saved' = FALSE
  /\ calls[Depth].left = 0
  /\ regs' \in [Registers -> Int]
  /\ \A r \in Registers :
       IF r < calls[Depth].arity
       THEN regs'[r] = stack[Cell(Depth, r)]
       ELSE \/ regs'[r] = regs[r]
            \/ \A j \in 1..(Depth - 1) :
                 Passed(j, r) /\ ~Active(j) => \E m \in (j + 1)..(Depth - 1) : Passed(m, r)
  /\ rbp' = IF Active(Depth) THEN stack[calls[Depth].base] ELSE rbp

LEMMA ShorterFacts ==
  ASSUME TypeOK, NEW h \in 0..Len(stack), Depth > 1,
         stack' = SubSeq(stack, 1, h), calls' = SubSeq(calls, 1, Depth - 1)
  PROVE  /\ Depth' = Depth - 1
         /\ calls' \in Seq(Records)
         /\ \A j \in 1..(Depth - 1) : calls'[j] = calls[j]
         /\ stack' \in Seq(Int) /\ Len(stack') = h
         /\ \A k \in 1..h : stack'[k] = stack[k]
<1>1. \A j \in 1..(Depth - 1) : calls[j] \in Records
  BY Typed
<1>2. \A k \in 1..h : stack[k] \in Int
  BY Typed
<1>3. h \in Int /\ Depth - 1 \in Int
  BY Typed
<1>4. /\ calls' \in Seq(Records) /\ Len(calls') = Depth - 1
      /\ \A j \in 1..(Depth - 1) : calls'[j] = calls[1 + j - 1]
  BY <1>1, <1>3, Typed, SubSeqProperties
<1>5. /\ stack' \in Seq(Int) /\ Len(stack') = h
      /\ \A k \in 1..h : stack'[k] = stack[1 + k - 1]
  BY <1>2, <1>3, Typed, SubSeqProperties
<1>. QED  BY <1>3, <1>4, <1>5 DEF Depth

LEMMA ReturnPops ==
  ASSUME IInv, Return
  PROVE  Pops
<1>0. TypeOK /\ Stacked /\ Balanced /\ BasesChained /\ LibraryCalls
  BY DEF IInv
<1>1. /\ ~saved /\ Active(Depth) /\ Depth > 1
      /\ rbp' = stack[rbp]
      /\ regs' = Popped(calls[Depth].arity, rbp - 2)
      /\ stack' = SubSeq(stack, 1, rbp - 2 - calls[Depth].arity)
      /\ calls' = SubSeq(calls, 1, Depth - 1) /\ saved' = saved
  BY <1>0, Typed DEF Return
<1>2. rbp = calls[Depth].base
  BY SMTT(60), <1>1, <1>0, Typed DEF BasesChained
<1>3. /\ calls[Depth].base = calls[Depth].floor + calls[Depth].arity + 2
      /\ calls[Depth].left = 0
  BY <1>1, <1>0, Typed DEF Balanced
<1>4. calls[Depth].base <= Len(stack)
  <2>1. calls[Depth].base + Saves(Depth) <= Top /\ Top = Len(stack)
    BY <1>1, <1>0, Typed DEF Stacked, Height, Top
  <2>2. Saves(Depth) \in Nat
    BY <1>0, Typed, RegistersAssumption DEF Saves, Smaller
  <2>. QED  BY <2>1, <2>2, <1>0, Typed
<1>5. rbp - 2 - calls[Depth].arity = calls[Depth].floor
  BY <1>2, <1>3, <1>0, Typed
<1>6. calls[Depth].floor \in 0..Len(stack)
  BY <1>3, <1>4, <1>0, Typed
<1>7. /\ Depth' = Depth - 1
      /\ calls' \in Seq(Records)
      /\ \A j \in 1..(Depth - 1) : calls'[j] = calls[j]
      /\ stack' \in Seq(Int) /\ Len(stack') = calls[Depth].floor
      /\ \A k \in 1..calls[Depth].floor : stack'[k] = stack[k]
  BY <1>0, <1>1, <1>5, <1>6, ShorterFacts
<1>8. \A r \in Registers : regs'[r] =
        IF r < calls[Depth].arity THEN stack[Cell(Depth, r)] ELSE regs[r]
  <2>1. \A r \in Registers :
          /\ r \in Nat
          /\ r < Smaller(ArgRegisters, calls[Depth].arity) <=> r < calls[Depth].arity
    BY <1>0, Typed, RegistersAssumption DEF Smaller, Registers
  <2>2. \A r \in Registers : rbp - 2 - r = Cell(Depth, r)
    BY SMTT(60), <1>2, <1>3, <2>1, <1>0, Typed DEF Cell
  <2>. QED  BY <1>1, <2>1, <2>2 DEF Popped
<1>9. regs' \in [Registers -> Int]
  <2>1. \A r \in Registers : r < calls[Depth].arity => Cell(Depth, r) \in 1..Len(stack)
    <3>1. /\ calls[Depth].floor \in Nat /\ calls[Depth].arity \in Nat /\ Len(stack) \in Nat
          /\ calls[Depth].floor + calls[Depth].arity + 2 <= Len(stack)
      BY <1>0, <1>3, <1>4, Typed
    <3>2. \A r \in Registers : r \in Nat
      BY RegistersAssumption DEF Registers
    <3>. QED  BY SMTT(60), <3>1, <3>2 DEF Cell
  <2>2. \A r \in Registers : regs'[r] \in Int
    BY <1>8, <2>1, <1>0, Typed
  <2>. QED  BY <1>1, <2>2 DEF Popped
<1>. QED  BY SMTT(60), <1>1, <1>2, <1>3, <1>6, <1>7, <1>8, <1>9, CarefulAssumption DEF Pops, TypeOK

LEMMA LibraryCallPops ==
  ASSUME IInv, WordsAssumption, NEW left \in [Registers -> Junk], LibraryCall(left)
  PROVE  Pops
<1>0. TypeOK /\ Stacked /\ Balanced /\ BasesChained /\ LibraryCalls
  BY DEF IInv
<1>1. /\ ~saved /\ ~Active(Depth) /\ calls[Depth].left = 0 /\ calls[Depth].library
      /\ regs' = [r \in Registers |->
                    IF r < Smaller(ArgRegisters, calls[Depth].arity)
                    THEN stack[Len(stack) - r] ELSE left[r]]
      /\ stack' = SubSeq(stack, 1, Len(stack) - calls[Depth].arity)
      /\ calls' = SubSeq(calls, 1, Depth - 1) /\ saved' = saved /\ rbp' = rbp
  BY <1>0, Typed DEF LibraryCall
<1>2. Depth > 1
  BY <1>1, <1>0, Typed DEF BasesChained
<1>3. Len(stack) = calls[Depth].floor + calls[Depth].arity
  BY <1>1, <1>0, Typed DEF Balanced, Top, Height
<1>4. calls[Depth].floor \in 0..Len(stack) /\ Len(stack) - calls[Depth].arity = calls[Depth].floor
  BY <1>3, <1>0, Typed
<1>5. /\ Depth' = Depth - 1
      /\ calls' \in Seq(Records)
      /\ \A j \in 1..(Depth - 1) : calls'[j] = calls[j]
      /\ stack' \in Seq(Int) /\ Len(stack') = calls[Depth].floor
      /\ \A k \in 1..calls[Depth].floor : stack'[k] = stack[k]
  BY <1>0, <1>1, <1>2, <1>4, ShorterFacts
<1>6. \A r \in Registers :
        /\ r \in Nat
        /\ r < Smaller(ArgRegisters, calls[Depth].arity) <=> r < calls[Depth].arity
        /\ Len(stack) - r = Cell(Depth, r)
  BY SMTT(60), <1>3, <1>0, Typed, RegistersAssumption DEF Smaller, Registers, Cell
<1>7. \A r \in Registers : regs'[r] =
        IF r < calls[Depth].arity THEN stack[Cell(Depth, r)] ELSE left[r]
  BY <1>1, <1>6
<1>8. regs' \in [Registers -> Int]
  <2>1. \A r \in Registers : r < calls[Depth].arity => Cell(Depth, r) \in 1..Len(stack)
    BY SMTT(60), <1>3, <1>6, <1>0, Typed DEF Cell
  <2>2. \A r \in Registers : left[r] \in Int
    OBVIOUS
  <2>3. \A r \in Registers : regs'[r] \in Int
    BY <1>7, <2>1, <2>2, <1>0, Typed
  <2>. QED  BY <1>1, <2>3
<1>9. \A r \in Registers : r >= calls[Depth].arity =>
        \A j \in 1..(Depth - 1) :
          Passed(j, r) /\ ~Active(j) => \E m \in (j + 1)..(Depth - 1) : Passed(m, r)
  BY <1>1, <1>0, Typed DEF LibraryCalls
<1>10. \A r \in Registers : ~ (r < calls[Depth].arity) => r >= calls[Depth].arity
  BY <1>6, <1>0, Typed
<1>. QED  BY <1>1, <1>2, <1>4, <1>5, <1>7, <1>8, <1>9, <1>10 DEF Pops, TypeOK

-----------------------------------------------------------------------------
(* The operators that use the argument registers *)

(* Calls and words stay, and so do the registers that hold an argument.      *)
Quiet ==
  /\ calls' = calls /\ rbp' = rbp
  /\ stack' \in Seq(Int) /\ regs' \in [Registers -> Int] /\ saved' \in BOOLEAN
  /\ Top' = Top /\ Top \in Nat /\ Top <= Len(stack)
  /\ \A h \in 1..Top : stack'[h] = stack[h]
  /\ \A r \in Registers : Settled'[r] = Settled[r] \/ ~Live(r)
  /\ saved' => Len(stack') > 0 /\ (Active(Depth) \/ calls[Depth].left > 0)

LEMMA ClobberQuiet ==
  ASSUME TypeOK, Careful, NEW w \in Junk, Division(w) \/ ShiftOrCompare(w)
  PROVE  Quiet
<1>1. PICK r \in Registers :
        MayClobber(r) /\ regs' = [regs EXCEPT ![r] = w]
  BY RegistersAssumption DEF Division, ShiftOrCompare
<1>2. UNCHANGED <<stack, rbp, saved, calls>> /\ ~saved
  BY DEF Division, ShiftOrCompare, Evaluating
<1>3. ~Live(r) /\ w \in Int
  BY <1>1, WordsAssumption DEF MayClobber
<1>4. regs \in [Registers -> Int] /\ stack \in Seq(Int) /\ saved \in BOOLEAN
  BY DEF TypeOK
<1>5. Settled = regs /\ Settled' = regs' /\ Top = Len(stack) /\ Top' = Len(stack)
  BY <1>2 DEF Settled, Top
<1>6. \A q \in Registers : Settled'[q] = Settled[q] \/ ~Live(q)
  BY <1>1, <1>3, <1>4, <1>5
<1>7. Top' = Top /\ Top \in Nat /\ Top <= Len(stack)
  BY <1>5, Typed
<1>8. regs' \in [Registers -> Int]
  BY <1>1, <1>3, <1>4
<1>. QED  BY <1>2, <1>4, <1>6, <1>7, <1>8 DEF Quiet

LEMMA SaveDataQuiet ==
  ASSUME TypeOK, NEW w \in Junk, SaveData(w)
  PROVE  Quiet
<1>1. /\ ~saved /\ saved' = TRUE /\ rbp' = rbp /\ calls' = calls
      /\ stack' = Append(stack, regs[DataRegister])
      /\ regs' = [regs EXCEPT ![DataRegister] = w]
      /\ Active(Depth) \/ calls[Depth].left > 0
  BY Typed DEF SaveData, Evaluating
<1>2. regs \in [Registers -> Int] /\ DataRegister \in Registers /\ w \in Int
  BY RegistersAssumption, WordsAssumption DEF TypeOK
<1>3. Pushes(regs[DataRegister])
  BY <1>1, <1>2, AppendPushes
<1>4. Len(stack') \in 1..Len(stack') /\ Len(stack') = Len(stack) + 1 /\ Len(stack) \in Nat
  BY <1>3, Typed DEF Pushes
<1>5. Word(Len(stack))' = regs[DataRegister]
  BY <1>3, <1>4 DEF Word, Pushes
<1>6. Settled' = [regs' EXCEPT ![DataRegister] = regs[DataRegister]] /\ Settled = regs
  BY <1>1, <1>5 DEF Settled
<1>7. \A r \in Registers : Settled'[r] = Settled[r]
  BY <1>1, <1>2, <1>6
<1>8. Top = Len(stack) /\ Top' = Len(stack') - 1
  BY <1>1 DEF Top
<1>. QED  BY <1>1, <1>2, <1>3, <1>4, <1>7, <1>8 DEF Quiet, Pushes

LEMMA RestoreDataQuiet ==
  ASSUME TypeOK, SavedInside, RestoreData
  PROVE  Quiet
<1>1. /\ saved /\ saved' = FALSE /\ rbp' = rbp /\ calls' = calls
      /\ stack' = SubSeq(stack, 1, Len(stack) - 1)
      /\ regs' = [regs EXCEPT ![DataRegister] = stack[Len(stack)]]
  BY DEF RestoreData
<1>2. regs \in [Registers -> Int] /\ DataRegister \in Registers
  BY RegistersAssumption DEF TypeOK
<1>3. Len(stack) > 0 /\ Len(stack) \in Nat
  BY <1>1, Typed DEF SavedInside
<1>4. Word(Len(stack)) = stack[Len(stack)] /\ stack[Len(stack)] \in Int
  BY <1>3, Typed DEF Word
<1>5. Settled = [regs EXCEPT ![DataRegister] = stack[Len(stack)]] /\ Settled' = regs'
  BY <1>1, <1>4 DEF Settled
<1>6. \A k \in 1..(Len(stack) - 1) : stack[k] \in Int
  BY <1>3, Typed
<1>7. /\ stack' \in Seq(Int) /\ Len(stack') = Len(stack) - 1
      /\ \A k \in 1..(Len(stack) - 1) : stack'[k] = stack[k]
  <2>. DEFINE n == Len(stack) - 1
  <2>0. n \in Nat
    BY <1>3
  <2>2. \A k \in 1..n : stack[k] \in Int
    BY <1>6
  <2>3. stack' = SubSeq(stack, 1, n)
    BY <1>1
  <2>. HIDE DEF n
  <2>1. n \in Int /\ n - 1 + 1 = n /\ (1 <= n \/ n = 0) /\ \A k \in 1..n : 1 + k - 1 = k
    BY <2>0
  <2>4. /\ SubSeq(stack, 1, n) \in Seq(Int)
        /\ Len(SubSeq(stack, 1, n)) = IF 1 <= n THEN n - 1 + 1 ELSE 0
        /\ \A k \in 1..(n - 1 + 1) : SubSeq(stack, 1, n)[k] = stack[1 + k - 1]
    BY <2>1, <2>2, SubSeqProperties
  <2>5. /\ stack' \in Seq(Int) /\ Len(stack') = n
        /\ \A k \in 1..n : stack'[k] = stack[k]
    BY <2>1, <2>3, <2>4
  <2>. QED  BY <2>5 DEF n
<1>8. Top = Len(stack) - 1 /\ Top' = Len(stack')
  BY <1>1 DEF Top
<1>9. /\ regs' \in [Registers -> Int]
      /\ \A r \in Registers : Settled'[r] = Settled[r]
  BY <1>1, <1>2, <1>4, <1>5
<1>10. Top \in Nat /\ Top <= Len(stack) /\ Top' = Top
  BY <1>3, <1>7, <1>8
<1>11. \A h \in 1..Top : stack'[h] = stack[h]
  BY <1>7, <1>8
<1>. QED  BY <1>1, <1>7, <1>9, <1>10, <1>11 DEF Quiet

-----------------------------------------------------------------------------
(* The access to a local array *)

(* One word more on the stack, which the pending calls stand on.             *)
Leaks ==
  /\ Depth' = Depth /\ calls' \in Seq(Records)
  /\ \A j \in 1..Depth :
       /\ calls'[j].arity = calls[j].arity /\ calls'[j].left = calls[j].left
       /\ calls'[j].library = calls[j].library /\ calls'[j].values = calls[j].values
       /\ calls'[j].base = calls[j].base
       /\ calls'[j].floor = IF j \in Pending THEN calls[j].floor + 1 ELSE calls[j].floor
  /\ \A j \in Pending : calls[j].left = calls[j].arity
  /\ saved = FALSE /\ saved' = FALSE /\ rbp' = rbp /\ regs' = regs
  /\ Len(stack') = Len(stack) + 1
  /\ \A h \in 1..Len(stack) : stack'[h] = stack[h]
  /\ stack' \in Seq(Int)

LEMMA LocalArrayAccessLeaks ==
  ASSUME TypeOK, Careful, LocalArrayAccess
  PROVE  Leaks
<1>1. /\ ~saved /\ saved' = saved /\ rbp' = rbp /\ regs' = regs
      /\ stack' = Append(stack, regs[DataRegister])
      /\ calls' = [j \in 1..Depth |->
                     IF j \in Pending THEN [calls[j] EXCEPT !.floor = @ + 1] ELSE calls[j]]
      /\ \A j \in Pending : calls[j].left = calls[j].arity
  BY DEF LocalArrayAccess, Evaluating
<1>2. Pushes(regs[DataRegister])
  BY <1>1, RegistersAssumption, AppendPushes DEF TypeOK
<1>3. \A j \in 1..Depth : calls[j] \in Records /\ calls[j].floor + 1 \in Nat
  BY Typed
<1>4. \A j \in 1..Depth :
        (IF j \in Pending THEN [calls[j] EXCEPT !.floor = @ + 1] ELSE calls[j]) \in Records
  BY <1>3 DEF Records
<1>5. calls' \in Seq(Records) /\ Len(calls') = Depth
  <2>. DEFINE f == [j \in 1..Depth |->
                     IF j \in Pending THEN [calls[j] EXCEPT !.floor = @ + 1] ELSE calls[j]]
  <2>1. Depth \in Nat /\ calls' = f
    BY <1>1, Typed
  <2>2. f \in [1..Depth -> Records]
    BY <1>4
  <2>. HIDE DEF f
  <2>3. f \in Seq(Records) /\ Len(f) = Depth
    BY <2>1, <2>2 
  <2>. QED  BY <2>1, <2>3
<1>6. \A j \in 1..Depth : calls'[j] =
        IF j \in Pending THEN [calls[j] EXCEPT !.floor = @ + 1] ELSE calls[j]
  BY <1>1
<1>7. \A j \in 1..Depth :
        /\ calls'[j].arity = calls[j].arity /\ calls'[j].left = calls[j].left
        /\ calls'[j].library = calls[j].library /\ calls'[j].values = calls[j].values
        /\ calls'[j].base = calls[j].base
        /\ calls'[j].floor = IF j \in Pending THEN calls[j].floor + 1 ELSE calls[j].floor
  BY <1>3, <1>6 DEF Records
<1>. QED  BY <1>1, <1>2, <1>5, <1>7 DEF Leaks, Pushes, Depth

-----------------------------------------------------------------------------
(* The words of a call lie below the height it has brought the stack to.     *)
LEMMA WordsBelow ==
  ASSUME TypeOK, Balanced
  PROVE  \A k \in 1..Depth :
           /\ Height(k) \in Nat /\ Saves(k) \in Nat
           /\ Saves(k) <= ArgRegisters /\ Saves(k) <= calls[k].arity
           /\ \A i \in Nat : Passed(k, i) => Cell(k, i) \in 1..Height(k)
           /\ Active(k) => calls[k].base - 1 \in 1..Height(k) /\ calls[k].base \in 1..Height(k)
           /\ Active(k) => \A i \in 0..(Saves(k) - 1) : calls[k].base + 1 + i \in 1..Height(k)
<1>. SUFFICES ASSUME NEW k \in 1..Depth
              PROVE
           /\ Height(k) \in Nat /\ Saves(k) \in Nat
           /\ Saves(k) <= ArgRegisters /\ Saves(k) <= calls[k].arity
           /\ \A i \in Nat : Passed(k, i) => Cell(k, i) \in 1..Height(k)
           /\ Active(k) => calls[k].base - 1 \in 1..Height(k) /\ calls[k].base \in 1..Height(k)
           /\ Active(k) => \A i \in 0..(Saves(k) - 1) : calls[k].base + 1 + i \in 1..Height(k)
  OBVIOUS
<1>1. /\ calls[k].arity \in Nat /\ calls[k].left \in Nat /\ calls[k].left <= calls[k].arity
      /\ calls[k].floor \in Nat /\ calls[k].base \in Nat
  BY Typed
<1>2. Saves(k) \in Nat /\ Saves(k) <= ArgRegisters /\ Saves(k) <= calls[k].arity
  BY <1>1, RegistersAssumption DEF Saves, Smaller
<1>3. CASE Active(k)
  <2>1. calls[k].base = calls[k].floor + calls[k].arity + 2 /\ Height(k) = calls[k].base + Saves(k)
    BY <1>3 DEF Balanced, Height
  <2>. QED  BY <1>1, <1>2, <2>1 DEF Passed, Cell
<1>4. CASE ~Active(k)
  <2>1. Height(k) = calls[k].floor + calls[k].arity - calls[k].left
    BY <1>4 DEF Height
  <2>. QED  BY <1>1, <1>2, <1>4, <2>1 DEF Passed, Cell
<1>. QED  BY <1>3, <1>4

-----------------------------------------------------------------------------
(* The steps that leave the calls alone *)

LEMMA QuietKeeps ==
  ASSUME IInv, Quiet
  PROVE  IInv'
<1>1. /\ TypeOK /\ Stacked /\ Balanced /\ BasesChained /\ WaitInRegisters /\ WaitInCells
      /\ PushedKept /\ SlotsKept /\ LibraryCalls
  BY DEF IInv
<1>2. /\ calls' = calls /\ rbp' = rbp /\ Top' = Top /\ Depth' = Depth
      /\ \A h \in 1..Top : stack'[h] = stack[h]
  BY DEF Quiet, Depth
<1>3. /\ \A j : Active(j)' = Active(j) /\ Height(j)' = Height(j) /\ Saves(j)' = Saves(j)
      /\ \A j, i : /\ Passed(j, i)' = Passed(j, i) /\ Cell(j, i)' = Cell(j, i)
                   /\ Value(j, i)' = Value(j, i)
  BY <1>2 DEF Active, Height, Saves, Passed, Cell, Value
<1>4. TypeOK'
  BY <1>1, <1>2 DEF Quiet, TypeOK
<1>5. Stacked' /\ Balanced'
  BY <1>1, <1>2, <1>3 DEF Stacked, Balanced
<1>6. \A k \in 1..Depth : Height(k) <= Top /\ Height(k) \in Nat /\ Top \in Nat
  BY <1>1, WordsBelow DEF Stacked, Quiet
<1>7. /\ \A k \in 1..Depth, i \in Nat : Passed(k, i) => stack'[Cell(k, i)] = stack[Cell(k, i)]
      /\ \A k \in 1..Depth : Active(k) =>
           /\ stack'[calls[k].base - 1] = stack[calls[k].base - 1]
           /\ stack'[calls[k].base] = stack[calls[k].base]
           /\ \A i \in 0..(Saves(k) - 1) :
                stack'[calls[k].base + 1 + i] = stack[calls[k].base + 1 + i]
  <2>1. \A k \in 1..Depth : \A h \in 1..Height(k) : stack'[h] = stack[h]
    BY <1>2, <1>6
  <2>. QED  BY <1>1, <2>1, WordsBelow
<1>8. BasesChained'
  <2>1. 1 \in 1..Depth
    BY <1>1, Typed
  <2>. QED  BY <1>1, <1>2, <1>3, <1>7, <2>1 DEF BasesChained, Site
<1>9. WaitInRegisters'
  <2>1. \A r \in Registers : Settled'[r] = Settled[r] \/ ~Live(r)
    BY DEF Quiet
  <2>. QED  BY <1>1, <1>2, <1>3, <2>1 DEF WaitInRegisters, Live
<1>10. \A i \in Registers : i \in Nat
  BY RegistersAssumption DEF Registers
<1>11. WaitInCells'
  BY <1>1, <1>2, <1>3, <1>7, <1>10 DEF WaitInCells
<1>12. PushedKept'
  <2>1. \A j \in 1..Depth : \A i \in 0..(calls[j].arity - 1) : i \in Nat
    OBVIOUS
  <2>. QED  BY <1>1, <1>2, <1>3, <1>7, <2>1 DEF PushedKept
<1>13. SlotsKept'
  BY <1>1, <1>2, <1>3, <1>7 DEF SlotsKept
<1>14. SavedInside'
  BY <1>2, Typed, <1>1 DEF Quiet, SavedInside, Inner, Active
<1>15. LibraryCalls'
  BY <1>1, <1>2, <1>3 DEF LibraryCalls
<1>. QED  BY <1>4, <1>5, <1>8, <1>9, <1>11, <1>12, <1>13, <1>14, <1>15 DEF IInv

-----------------------------------------------------------------------------
(* A call begun *)

LEMMA BeginCallKeeps ==
  ASSUME IInv, Careful, NEW n \in 0..MaxArity, NEW library \in BOOLEAN, BeginCall(n, library)
  PROVE  IInv'
<1>1. /\ TypeOK /\ Stacked /\ Balanced /\ BasesChained /\ WaitInRegisters /\ WaitInCells
      /\ PushedKept /\ SlotsKept /\ LibraryCalls
  BY DEF IInv
<1>0. PICK d \in Nat : d = Depth + 1
  BY <1>1, Typed
<1>. DEFINE c == Begun(n, library, Len(stack))
<1>2. /\ calls' \in Seq(Records) /\ Depth' = d
      /\ \A j \in 1..Depth : calls'[j] = calls[j]
      /\ calls'[d] = c /\ c \in Records /\ Len(c.values) = n
  BY <1>0, <1>1, BeginCallFacts
<1>3. /\ regs' = regs /\ stack' = stack /\ rbp' = rbp /\ saved' = saved /\ ~saved
      /\ library => n <= ArgRegisters /\ \A r \in Registers : r >= n => ~Live(r)
      /\ Active(Depth) \/ calls[Depth].left > 0
  BY <1>1, Typed DEF BeginCall, Evaluating, MayClobber
<1>4. Depth \in Nat /\ Depth > 0 /\ d \in 1..d /\ 1..d = (1..Depth) \union {d}
  BY <1>0, <1>1, Typed
<1>5. /\ c.arity = n /\ c.left = n /\ c.floor = Len(stack) /\ c.base = 0 /\ c.library = library
      /\ n \in Nat
  BY BoundsAssumption DEF Begun
<1>6. /\ Settled' = Settled /\ Top' = Top /\ Top = Len(stack)
  BY <1>3 DEF Settled, Top, Word
<1>. HIDE DEF c
<1>7. /\ \A j \in 1..Depth :
           /\ Active(j)' = Active(j) /\ Height(j)' = Height(j) /\ Saves(j)' = Saves(j)
           /\ \A i : /\ Passed(j, i)' = Passed(j, i) /\ Cell(j, i)' = Cell(j, i)
                     /\ Value(j, i)' = Value(j, i)
      /\ ~Active(d)' /\ Height(d)' = Len(stack) /\ \A i \in Int : ~Passed(d, i)'
  <2>1. \A j \in 1..Depth :
           /\ Active(j)' = Active(j) /\ Height(j)' = Height(j) /\ Saves(j)' = Saves(j)
           /\ \A i : /\ Passed(j, i)' = Passed(j, i) /\ Cell(j, i)' = Cell(j, i)
                     /\ Value(j, i)' = Value(j, i)
    BY <1>2 DEF Active, Height, Saves, Passed, Cell, Value
  <2>2. ~Active(d)' /\ \A i \in Int : ~Passed(d, i)'
    BY <1>2, <1>5 DEF Active, Passed
  <2>3. Height(d)' = Len(stack)
    BY <1>1, <1>2, <1>5, <2>2, Typed DEF Height
  <2>. QED  BY <2>1, <2>2, <2>3
<1>r. \A i \in Registers : i \in Int
  BY RegistersAssumption DEF Registers
<1>8. TypeOK'
  <2>1. \A j \in 1..d : calls'[j].left <= calls'[j].arity /\ Len(calls'[j].values) = calls'[j].arity
    <3>1. \A j \in 1..Depth :
            calls[j].left <= calls[j].arity /\ Len(calls[j].values) = calls[j].arity
      BY <1>1, Typed
    <3>2. calls'[d].left <= calls'[d].arity /\ Len(calls'[d].values) = calls'[d].arity
      BY <1>2, <1>5
    <3>3. \A j \in 1..d : j \in 1..Depth \/ j = d
      BY <1>4
    <3>. QED  BY <1>2, <3>1, <3>2, <3>3
  <2>. QED  BY <1>1, <1>2, <1>3, <1>4, <2>1 DEF TypeOK
<1>9. Stacked'
  <2>1. \A j \in 1..Depth : Height(j)' <= Top
    BY <1>1, <1>7 DEF Stacked
  <2>2. \A j, k \in 1..d : j < k => Height(j)' <= calls'[k].floor
    <3>. SUFFICES ASSUME NEW j \in 1..d, NEW k \in 1..d, j < k
                  PROVE  Height(j)' <= calls'[k].floor
      OBVIOUS
    <3>1. j \in 1..Depth
      BY <1>0, <1>4
    <3>2. CASE k \in 1..Depth
      BY <1>1, <1>2, <1>7, <3>1, <3>2 DEF Stacked
    <3>3. CASE k = d
      BY <1>2, <1>5, <1>6, <2>1, <3>1, <3>3
    <3>. QED  BY <1>4, <3>2, <3>3
  <2>3. \A j \in 1..d : Height(j)' <= Top'
    <3>1. Len(stack) \in Nat
      BY <1>1, Typed
    <3>2. \A j \in 1..d : j \in 1..Depth \/ j = d
      BY <1>4
    <3>3. Height(d)' <= Top'
      BY <1>6, <1>7, <3>1
    <3>. QED  BY <1>6, <2>1, <3>2, <3>3
  <2>. QED  BY <1>2, <2>2, <2>3 DEF Stacked
<1>10. Balanced'
  <2>1. \A j \in 1..(d - 1) : ~Active(j)' => calls'[j + 1].floor = Height(j)'
    <3>. SUFFICES ASSUME NEW j \in 1..(d - 1), ~Active(j)'
                  PROVE  calls'[j + 1].floor = Height(j)'
      OBVIOUS
    <3>1. j \in 1..Depth /\ (j = Depth \/ (j \in 1..(Depth - 1) /\ j + 1 \in 1..Depth))
      BY <1>0, <1>4
    <3>2. CASE j = Depth
      BY <1>0, <1>1, <1>2, <1>5, <1>6, <1>7, <3>1, <3>2 DEF Balanced
    <3>3. CASE j \in 1..(Depth - 1) /\ j + 1 \in 1..Depth
      BY <1>1, <1>2, <1>7, <3>1, <3>3 DEF Balanced
    <3>. QED  BY <3>1, <3>2, <3>3
  <2>2. ~Active(d)' => Top' = Height(d)'
    BY <1>6, <1>7
  <2>3. \A j \in 1..d : Active(j)' =>
          calls'[j].base = calls'[j].floor + calls'[j].arity + 2 /\ calls'[j].left = 0
    BY <1>1, <1>2, <1>4, <1>7 DEF Balanced
  <2>. QED  BY <1>2, <2>1, <2>2, <2>3 DEF Balanced
<1>11. BasesChained'
  <2>1. 1 \in 1..Depth
    BY <1>4
  <2>2. Active(1)' /\ calls'[1].base = 2 /\ calls'[1].arity = 0 /\ stack'[2] = 0
    BY <1>1, <1>2, <1>3, <1>7, <2>1 DEF BasesChained
  <2>3. \A j \in 1..d : Active(j)' => stack'[calls'[j].base - 1] = Site(j)
    BY <1>1, <1>2, <1>3, <1>4, <1>7 DEF BasesChained, Site
  <2>4. \A j \in 1..d :
          (Active(j)' /\ \A k \in (j + 1)..d : ~Active(k)') => rbp' = calls'[j].base
    <3>. SUFFICES ASSUME NEW j \in 1..d, Active(j)', \A k \in (j + 1)..d : ~Active(k)'
                  PROVE  rbp' = calls'[j].base
      OBVIOUS
    <3>1. j \in 1..Depth
      BY <1>4, <1>7, <1>r
    <3>2. \A k \in (j + 1)..Depth : k \in (j + 1)..d /\ k \in 1..Depth
      BY <1>0, <1>4, <3>1
    <3>. QED  BY <1>1, <1>2, <1>3, <1>7, <3>1, <3>2 DEF BasesChained
  <2>5. \A j, k \in 1..d :
          (j < k /\ Active(j)' /\ Active(k)' /\ \A m \in (j + 1)..(k - 1) : ~Active(m)')
             => stack'[calls'[k].base] = calls'[j].base
    <3>. SUFFICES ASSUME NEW j \in 1..d, NEW k \in 1..d, j < k, Active(j)', Active(k)',
                         \A m \in (j + 1)..(k - 1) : ~Active(m)'
                  PROVE  stack'[calls'[k].base] = calls'[j].base
      OBVIOUS
    <3>1. j \in 1..Depth /\ k \in 1..Depth
      BY <1>4, <1>7, <1>r
    <3>2. \A m \in (j + 1)..(k - 1) : m \in 1..Depth
      BY <1>4, <3>1
    <3>. QED  BY SMTT(60), <1>1, <1>2, <1>3, <1>7, <3>1, <3>2 DEF BasesChained
  <2>. QED  BY <1>2, <2>2, <2>3, <2>4, <2>5 DEF BasesChained, Site
<1>12. WaitInRegisters'
  <2>. SUFFICES ASSUME NEW j \in 1..d, NEW i \in Registers, Passed(j, i)', ~Active(j)',
                       \A k \in (j + 1)..d : ~Passed(k, i)'
                PROVE  Settled'[i] = Value(j, i)'
    BY <1>2 DEF WaitInRegisters
  <2>1. j \in 1..Depth
    BY <1>4, <1>7, <1>r
  <2>2. \A k \in (j + 1)..Depth : k \in (j + 1)..d /\ k \in 1..Depth
    BY <1>0, <1>4, <2>1
  <2>. QED  BY <1>1, <1>6, <1>7, <2>1, <2>2 DEF WaitInRegisters
<1>13. WaitInCells'
  <2>. SUFFICES ASSUME NEW j \in 1..d, NEW k \in 1..d, NEW i \in Registers,
                       j < k, Passed(j, i)', ~Active(j)', Passed(k, i)',
                       \A m \in (j + 1)..(k - 1) : ~Passed(m, i)'
                PROVE  stack'[Cell(k, i)'] = Value(j, i)'
    BY <1>2 DEF WaitInCells
  <2>1. j \in 1..Depth /\ k \in 1..Depth
    BY <1>4, <1>7, <1>r
  <2>2. \A m \in (j + 1)..(k - 1) : m \in 1..Depth
    BY <1>4, <2>1
  <2>. QED  BY <1>1, <1>3, <1>7, <2>1, <2>2 DEF WaitInCells
<1>14. PushedKept'
  <2>. SUFFICES ASSUME NEW j \in 1..d, NEW i \in 0..(calls'[j].arity - 1),
                       i >= ArgRegisters, Passed(j, i)'
                PROVE  stack'[Cell(j, i)'] = Value(j, i)'
    BY <1>2 DEF PushedKept
  <2>1. i \in Int
    OBVIOUS
  <2>2. j \in 1..Depth
    BY <1>4, <1>7, <2>1
  <2>. QED  BY <1>1, <1>2, <1>3, <1>7, <2>2 DEF PushedKept
<1>15. SlotsKept'
  BY <1>1, <1>2, <1>3, <1>4, <1>7 DEF SlotsKept
<1>16. SavedInside'
  BY <1>3 DEF SavedInside
<1>17. LibraryCalls'
  <2>. SUFFICES ASSUME NEW k \in 1..d, calls'[k].library
                PROVE  /\ ~Active(k)' /\ calls'[k].arity <= ArgRegisters
                       /\ \A r \in Registers : r >= calls'[k].arity =>
                            \A j \in 1..(k - 1) :
                              Passed(j, r)' /\ ~Active(j)' => \E m \in (j + 1)..(k - 1) : Passed(m, r)'
    BY <1>2 DEF LibraryCalls
  <2>1. CASE k \in 1..Depth
    <3>1. \A j \in 1..(k - 1) : j \in 1..Depth /\ \A m \in (j + 1)..(k - 1) : m \in 1..Depth
      BY <1>4, <2>1
    <3>. QED  BY <1>1, <1>2, <1>7, <2>1, <3>1 DEF LibraryCalls
  <2>2. CASE k = d
    <3>1. library /\ k - 1 = Depth
      BY <1>0, <1>2, <1>4, <1>5, <2>2
    <3>2. \A r \in Registers : r >= n =>
            \A j \in 1..Depth :
              Passed(j, r) /\ ~Active(j) => \E m \in (j + 1)..Depth : Passed(m, r)
      BY <1>3, <3>1 DEF Live
    <3>3. \A j \in 1..Depth : \A m \in (j + 1)..Depth : m \in 1..Depth
      BY <1>4
    <3>. QED  BY <1>2, <1>3, <1>5, <1>7, <2>2, <3>1, <3>2, <3>3
  <2>. QED  BY <1>4, <2>1, <2>2
<1>. QED  BY <1>8, <1>9, <1>10, <1>11, <1>12, <1>13, <1>14, <1>15, <1>16, <1>17 DEF IInv

-----------------------------------------------------------------------------
(* A call over *)

LEMMA PopsKeeps ==
  ASSUME IInv, Pops
  PROVE  IInv'
<1>1. /\ TypeOK /\ Stacked /\ Balanced /\ BasesChained /\ WaitInRegisters /\ WaitInCells
      /\ PushedKept /\ SlotsKept /\ LibraryCalls
  BY DEF IInv
<1>0. PICK d \in Nat : d = Depth /\ d > 1
  BY <1>1, Typed DEF Pops
<1>. DEFINE h == calls[d].floor
<1>2. /\ Depth' = d - 1 /\ calls' \in Seq(Records)
      /\ \A j \in 1..(d - 1) : calls'[j] = calls[j]
      /\ stack' \in Seq(Int) /\ Len(stack') = h
      /\ \A k \in 1..h : stack'[k] = stack[k]
      /\ saved = FALSE /\ saved' = FALSE /\ regs' \in [Registers -> Int]
  BY <1>0 DEF Pops
<1>3. \A j \in 1..(d - 1) : j \in 1..Depth /\ j < d
  BY <1>0
<1>4. d \in 1..Depth /\ d - 1 \in 1..(d - 1) /\ h \in Nat
  BY <1>0, <1>1, Typed
<1>5. \A j \in 1..(d - 1) :
        /\ Active(j)' = Active(j) /\ Height(j)' = Height(j) /\ Saves(j)' = Saves(j)
        /\ \A i : /\ Passed(j, i)' = Passed(j, i) /\ Cell(j, i)' = Cell(j, i)
                  /\ Value(j, i)' = Value(j, i)
  BY <1>2 DEF Active, Height, Saves, Passed, Cell, Value
<1>6. /\ Top' = h /\ Settled' = regs' /\ Settled = regs
  BY <1>2 DEF Top, Settled
<1>7. \A j \in 1..(d - 1) : Height(j) <= h /\ Height(j) \in Nat
  BY <1>1, <1>3, <1>4, WordsBelow DEF Stacked
<1>8. \A j \in 1..(d - 1) : \A k \in 1..Height(j) : stack'[k] = stack[k]
  BY <1>2, <1>4, <1>7
<1>r. \A i \in Registers : i \in Nat
  BY RegistersAssumption DEF Registers
<1>9. /\ \A k \in 1..(d - 1) : \A i \in Nat :
           Passed(k, i) => stack'[Cell(k, i)] = stack[Cell(k, i)]
      /\ \A k \in 1..(d - 1) : Active(k) =>
           /\ stack'[calls[k].base - 1] = stack[calls[k].base - 1]
           /\ stack'[calls[k].base] = stack[calls[k].base]
           /\ \A i \in 0..(Saves(k) - 1) :
                stack'[calls[k].base + 1 + i] = stack[calls[k].base + 1 + i]
  BY <1>1, <1>3, <1>8, WordsBelow
<1>10. TypeOK'
  <2>1. \A j \in 1..(d - 1) :
          calls'[j].left <= calls'[j].arity /\ Len(calls'[j].values) = calls'[j].arity
    BY <1>1, <1>2, <1>3, Typed
  <2>2. rbp' \in Int
    <3>1. CASE ~Active(d)
      BY <1>0, <1>1, <3>1 DEF Pops, TypeOK
    <3>2. CASE Active(d)
      <4>1. rbp' = stack[calls[d].base]
        BY <1>0, <3>2 DEF Pops
      <4>2. Height(d) <= Top /\ Top <= Len(stack) /\ Height(d) \in Nat
        BY <1>1, <1>2, <1>4, WordsBelow, Typed DEF Stacked, Top
      <4>3. calls[d].base \in 1..Height(d) /\ Len(stack) \in Nat
        BY <1>1, <1>4, <3>2, WordsBelow, Typed
      <4>4. Top \in Int
        BY <4>3, <1>2 DEF Top
      <4>5. calls[d].base \in 1..Len(stack)
        BY <4>2, <4>3, <4>4
      <4>. QED  BY <1>1, <4>1, <4>5, Typed
    <3>. QED  BY <3>1, <3>2
  <2>3. Depth' > 0
    BY <1>0, <1>2
  <2>. QED  BY <1>2, <2>1, <2>2, <2>3 DEF TypeOK
<1>11. Stacked'
  <2>1. \A j, k \in 1..(d - 1) : j < k => Height(j)' <= calls'[k].floor
    BY <1>1, <1>2, <1>3, <1>5 DEF Stacked
  <2>2. \A j \in 1..(d - 1) : Height(j)' <= Top'
    BY <1>5, <1>6, <1>7
  <2>. QED  BY <1>2, <2>1, <2>2 DEF Stacked
<1>12. Balanced'
  <2>1. \A j \in 1..(d - 1) : ~Active(j) => calls[j + 1].floor = Height(j)
    BY <1>0, <1>1 DEF Balanced
  <2>2. \A j \in 1..(d - 2) : j \in 1..(d - 1) /\ j + 1 \in 1..(d - 1)
    BY <1>0
  <2>3. \A j \in 1..(d - 2) : ~Active(j)' => calls'[j + 1].floor = Height(j)'
    BY <1>2, <1>5, <2>1, <2>2
  <2>4. ~Active(d - 1) => h = Height(d - 1)
    <3>1. d - 1 + 1 = d
      BY <1>0
    <3>. QED  BY <1>4, <2>1, <3>1
  <2>5. ~Active(d - 1)' => Top' = Height(d - 1)'
    BY <1>4, <1>5, <1>6, <2>4
  <2>6. d - 1 - 1 = d - 2
    BY <1>0
  <2>7. \A j \in 1..(d - 1) : Active(j)' =>
          calls'[j].base = calls'[j].floor + calls'[j].arity + 2 /\ calls'[j].left = 0
    BY <1>1, <1>2, <1>3, <1>5 DEF Balanced
  <2>. QED  BY <1>2, <2>3, <2>5, <2>6, <2>7 DEF Balanced
<1>13. BasesChained'
  <2>1. 1 \in 1..(d - 1) /\ 1 \in 1..Depth /\ Height(1) >= 2
    <3>1. 1 \in 1..(d - 1) /\ 1 \in 1..Depth
      BY <1>0, <1>4
    <3>. QED  BY <1>1, <3>1, WordsBelow DEF BasesChained, Height
  <2>2. Active(1)' /\ calls'[1].base = 2 /\ calls'[1].arity = 0 /\ stack'[2] = 0
    BY <1>1, <1>2, <1>5, <1>9, <2>1 DEF BasesChained
  <2>3. \A j \in 1..(d - 1) : Active(j)' => stack'[calls'[j].base - 1] = Site(j)
    BY <1>1, <1>2, <1>3, <1>5, <1>9 DEF BasesChained, Site
  <2>4. \A j \in 1..(d - 1) :
          (Active(j)' /\ \A k \in (j + 1)..(d - 1) : ~Active(k)') => rbp' = calls'[j].base
    <3>. SUFFICES ASSUME NEW j \in 1..(d - 1), Active(j)', \A k \in (j + 1)..(d - 1) : ~Active(k)'
                  PROVE  rbp' = calls'[j].base
      OBVIOUS
    <3>1. j \in 1..Depth /\ j < d /\ Active(j)
      BY <1>3, <1>5
    <3>2. \A k \in (j + 1)..(d - 1) : ~Active(k)
      <4>1. \A k \in (j + 1)..(d - 1) : k \in 1..(d - 1)
        BY <1>0
      <4>. QED  BY <1>5, <4>1
    <3>3. CASE Active(d)
      <4>1. stack[calls[d].base] = calls[j].base
        BY <1>1, <1>4, <3>1, <3>2, <3>3 DEF BasesChained
      <4>. QED  BY <1>0, <1>2, <3>3, <4>1 DEF Pops
    <3>4. CASE ~Active(d)
      <4>1. \A k \in (j + 1)..Depth : k \in (j + 1)..(d - 1) \/ k = d
        BY <1>0
      <4>2. rbp = calls[j].base
        BY <1>1, <3>1, <3>2, <3>4, <4>1 DEF BasesChained
      <4>. QED  BY <1>0, <1>2, <3>4, <4>2 DEF Pops
    <3>. QED  BY <3>3, <3>4
  <2>5. \A j, k \in 1..(d - 1) :
          (j < k /\ Active(j)' /\ Active(k)' /\ \A m \in (j + 1)..(k - 1) : ~Active(m)')
             => stack'[calls'[k].base] = calls'[j].base
    <3>. SUFFICES ASSUME NEW j \in 1..(d - 1), NEW k \in 1..(d - 1), j < k,
                         Active(j)', Active(k)', \A m \in (j + 1)..(k - 1) : ~Active(m)'
                  PROVE  stack'[calls'[k].base] = calls'[j].base
      OBVIOUS
    <3>1. \A m \in (j + 1)..(k - 1) : m \in 1..(d - 1)
      BY <1>0
    <3>2. Active(j) /\ Active(k) /\ \A m \in (j + 1)..(k - 1) : ~Active(m)
      BY <1>5, <3>1
    <3>3. stack[calls[k].base] = calls[j].base
      BY <1>1, <1>3, <3>2 DEF BasesChained
    <3>. QED  BY <1>2, <1>9, <3>2, <3>3
  <2>. QED  BY <1>2, <2>2, <2>3, <2>4, <2>5 DEF BasesChained, Site
<1>14. WaitInRegisters'
  <2>. SUFFICES ASSUME NEW j \in 1..(d - 1), NEW i \in Registers, Passed(j, i)', ~Active(j)',
                       \A k \in (j + 1)..(d - 1) : ~Passed(k, i)'
                PROVE  regs'[i] = Value(j, i)'
    BY <1>2, <1>6 DEF WaitInRegisters
  <2>1. j \in 1..Depth /\ j < d /\ Passed(j, i) /\ ~Active(j) /\ Value(j, i)' = Value(j, i)
    BY <1>3, <1>5
  <2>2. \A k \in (j + 1)..(d - 1) : ~Passed(k, i)
    <3>1. \A k \in (j + 1)..(d - 1) : k \in 1..(d - 1)
      BY <1>0
    <3>. QED  BY <1>5, <3>1
  <2>3. /\ calls[d].left = 0 /\ calls[d].arity \in Nat /\ i \in Nat
        /\ IF i < calls[d].arity
           THEN regs'[i] = stack[Cell(d, i)]
           ELSE \/ regs'[i] = regs[i]
                \/ \A q \in 1..(d - 1) :
                     Passed(q, i) /\ ~Active(q) => \E m \in (q + 1)..(d - 1) : Passed(m, i)
    BY <1>0, <1>1, <1>4, <1>r, Typed DEF Pops
  <2>4. CASE i < calls[d].arity
    <3>1. Passed(d, i)
      BY <2>3, <2>4 DEF Passed
    <3>2. stack[Cell(d, i)] = Value(j, i)
      BY <1>1, <1>4, <2>1, <2>2, <3>1 DEF WaitInCells
    <3>. QED  BY <2>1, <2>3, <2>4, <3>2
  <2>5. CASE ~ (i < calls[d].arity)
    <3>1. ~Passed(d, i)
      BY <2>5 DEF Passed
    <3>2. \A k \in (j + 1)..Depth : k \in (j + 1)..(d - 1) \/ k = d
      BY <1>0
    <3>3. regs[i] = Value(j, i)
      BY <1>1, <1>6, <2>1, <2>2, <3>1, <3>2 DEF WaitInRegisters
    <3>4. regs'[i] = regs[i]
      BY <2>1, <2>2, <2>3, <2>5
    <3>. QED  BY <2>1, <3>3, <3>4
  <2>. QED  BY <2>4, <2>5
<1>15. WaitInCells'
  <2>. SUFFICES ASSUME NEW j \in 1..(d - 1), NEW k \in 1..(d - 1), NEW i \in Registers,
                       j < k, Passed(j, i)', ~Active(j)', Passed(k, i)',
                       \A m \in (j + 1)..(k - 1) : ~Passed(m, i)'
                PROVE  stack'[Cell(k, i)'] = Value(j, i)'
    BY <1>2 DEF WaitInCells
  <2>1. \A m \in (j + 1)..(k - 1) : m \in 1..(d - 1)
    BY <1>0
  <2>. QED  BY <1>1, <1>3, <1>5, <1>9, <1>r, <2>1 DEF WaitInCells
<1>16. PushedKept'
  <2>. SUFFICES ASSUME NEW j \in 1..(d - 1), NEW i \in 0..(calls'[j].arity - 1),
                       i >= ArgRegisters, Passed(j, i)'
                PROVE  stack'[Cell(j, i)'] = Value(j, i)'
    BY <1>2 DEF PushedKept
  <2>. QED  BY SMTT(60), <1>1, <1>2, <1>3, <1>5, <1>9 DEF PushedKept
<1>17. SlotsKept'
  <2>. SUFFICES ASSUME NEW j \in 1..(d - 1), Active(j)', NEW i \in 0..(Saves(j)' - 1)
                PROVE  stack'[calls'[j].base + 1 + i] = Value(j, i)'
    BY <1>2 DEF SlotsKept
  <2>1. i \in 0..(Saves(j) - 1) /\ Active(j)
    BY <1>5
  <2>2. stack[calls[j].base + 1 + i] = Value(j, i)
    BY <1>1, <1>3, <2>1 DEF SlotsKept
  <2>. QED  BY <1>2, <1>5, <1>9, <2>1, <2>2
<1>18. SavedInside'
  BY <1>2 DEF SavedInside
<1>19. LibraryCalls'
  <2>1. \A k \in 1..(d - 1) : \A j \in 1..(k - 1) :
          j \in 1..(d - 1) /\ \A m \in (j + 1)..(k - 1) : m \in 1..(d - 1)
    BY <1>0
  <2>. SUFFICES ASSUME NEW k \in 1..(d - 1), calls'[k].library
                PROVE  /\ ~Active(k)' /\ calls'[k].arity <= ArgRegisters
                       /\ \A r \in Registers : r >= calls'[k].arity =>
                            \A j \in 1..(k - 1) :
                              Passed(j, r)' /\ ~Active(j)' => \E m \in (j + 1)..(k - 1) : Passed(m, r)'
    BY <1>2 DEF LibraryCalls
  <2>2. calls[k].library /\ k \in 1..Depth
    BY <1>2, <1>3
  <2>3. /\ ~Active(k) /\ calls[k].arity <= ArgRegisters
        /\ \A r \in Registers : r >= calls[k].arity =>
             \A j \in 1..(k - 1) :
               Passed(j, r) /\ ~Active(j) => \E m \in (j + 1)..(k - 1) : Passed(m, r)
    BY <1>1, <2>2 DEF LibraryCalls
  <2>. QED  BY <1>2, <1>5, <2>1, <2>3
<1>. QED  BY <1>10, <1>11, <1>12, <1>13, <1>14, <1>15, <1>16, <1>17, <1>18, <1>19 DEF IInv

-----------------------------------------------------------------------------
(* An argument passed *)

LEMMA CallParameterKeeps ==
  ASSUME IInv, NEW v \in Values, CallParameter(v)
  PROVE  IInv'
<1>1. /\ TypeOK /\ Stacked /\ Balanced /\ BasesChained /\ WaitInRegisters /\ WaitInCells
      /\ PushedKept /\ SlotsKept /\ LibraryCalls
  BY DEF IInv
<1>0. PICK d \in Nat, p \in Nat : d = Depth /\ d > 0 /\ p = calls[d].left - 1 /\ p < calls[d].arity
  BY <1>1, CallParameterFacts, Typed
<1>. DEFINE w == IF p < ArgRegisters THEN regs[p] ELSE v
<1>2. /\ ~saved /\ saved' = FALSE /\ rbp' = rbp /\ ~Active(d)
  BY <1>0, <1>1 DEF CallParameter, TypeOK
<1>3. /\ Becomes([calls[d] EXCEPT !.left = p, !.values = [@ EXCEPT ![p + 1] = v]])
      /\ [calls[d] EXCEPT !.left = p, !.values = [@ EXCEPT ![p + 1] = v]] \in Records
      /\ Len(calls'[d].values) = calls[d].arity
      /\ \A k \in 1..calls[d].arity :
           calls'[d].values[k] = IF k = p + 1 THEN v ELSE calls[d].values[k]
      /\ Pushes(w) /\ regs' \in [Registers -> Int]
      /\ \A r \in Registers : regs'[r] = IF r = p THEN v ELSE regs[r]
  BY <1>0, <1>1, CallParameterFacts
<1>4. d \in 1..Depth /\ d \in 1..d /\ calls[d] \in Records /\ Len(stack) \in Nat
      /\ calls[d].left = p + 1 /\ calls[d].arity \in Nat /\ calls[d].floor \in Nat
  BY <1>0, <1>1, Typed
<1>5. /\ Depth' = d /\ calls' \in Seq(Records)
      /\ \A j \in 1..d : j # d => calls'[j] = calls[j]
      /\ calls'[d].arity = calls[d].arity /\ calls'[d].left = p
      /\ calls'[d].floor = calls[d].floor /\ calls'[d].base = calls[d].base
      /\ calls'[d].library = calls[d].library
  <2>1. calls'[d] = [calls[d] EXCEPT !.left = p, !.values = [@ EXCEPT ![p + 1] = v]]
    BY <1>0, <1>3 DEF Becomes
  <2>2. calls'[d].arity = calls[d].arity /\ calls'[d].left = p
        /\ calls'[d].floor = calls[d].floor /\ calls'[d].base = calls[d].base
        /\ calls'[d].library = calls[d].library
    BY <1>4, <2>1 DEF Records
  <2>. QED  BY <1>0, <1>3, <2>2 DEF Becomes
<1>6. /\ Len(stack') = Len(stack) + 1 /\ stack' \in Seq(Int)
      /\ \A h \in 1..Len(stack) : stack'[h] = stack[h]
      /\ stack'[Len(stack) + 1] = w
  BY <1>3 DEF Pushes
<1>. HIDE DEF w
<1>7. Top = Len(stack) /\ Top' = Len(stack) + 1 /\ Settled = regs /\ Settled' = regs'
  BY <1>2, <1>6 DEF Top, Settled
<1>8. /\ \A j \in 1..d :
           /\ Active(j)' = Active(j) /\ Saves(j)' = Saves(j)
           /\ \A i : Cell(j, i)' = Cell(j, i)
      /\ \A j \in 1..d : j # d =>
           /\ Height(j)' = Height(j)
           /\ \A i : Passed(j, i)' = Passed(j, i) /\ Value(j, i)' = Value(j, i)
  <2>1. \A j \in 1..d : j # d =>
           /\ Active(j)' = Active(j) /\ Saves(j)' = Saves(j) /\ Height(j)' = Height(j)
           /\ \A i : /\ Cell(j, i)' = Cell(j, i)
                     /\ Passed(j, i)' = Passed(j, i) /\ Value(j, i)' = Value(j, i)
    BY <1>5 DEF Active, Height, Saves, Passed, Cell, Value
  <2>2. /\ Active(d)' = Active(d) /\ Saves(d)' = Saves(d)
        /\ \A i : Cell(d, i)' = Cell(d, i)
    BY <1>5 DEF Active, Saves, Cell
  <2>. QED  BY <2>1, <2>2
<1>9. /\ Height(d) = calls[d].floor + calls[d].arity - (p + 1)
      /\ Height(d)' = calls[d].floor + calls[d].arity - p
      /\ Height(d) = Len(stack) /\ Height(d)' = Len(stack) + 1
  <2>1. Height(d) = calls[d].floor + calls[d].arity - (p + 1)
    BY <1>2, <1>4 DEF Height
  <2>2. Height(d)' = calls[d].floor + calls[d].arity - p
    BY <1>2, <1>5, <1>8, <1>4 DEF Height
  <2>3. Height(d) = Len(stack)
    BY <1>0, <1>1, <1>2, <1>7 DEF Balanced
  <2>. QED  BY <1>4, <2>1, <2>2, <2>3
<1>10. \A i \in Nat :
         /\ Passed(d, i)' <=> (Passed(d, i) \/ i = p)
         /\ ~Passed(d, p)
         /\ Passed(d, i) => Value(d, i)' = Value(d, i)
  <2>. SUFFICES ASSUME NEW i \in Nat
                PROVE  /\ Passed(d, i)' <=> (Passed(d, i) \/ i = p)
                       /\ ~Passed(d, p)
                       /\ Passed(d, i) => Value(d, i)' = Value(d, i)
    OBVIOUS
  <2>0. /\ Passed(d, i)' <=> (p <= i /\ i < calls[d].arity)
        /\ Passed(d, i) <=> (p + 1 <= i /\ i < calls[d].arity)
    BY <1>4, <1>5 DEF Passed
  <2>1. Passed(d, i)' <=> (Passed(d, i) \/ i = p)
    BY <1>0, <1>4, <2>0
  <2>2. ~Passed(d, p)
    BY <1>0, <1>4 DEF Passed
  <2>3. Passed(d, i) => i + 1 \in 1..calls[d].arity /\ i + 1 # p + 1
    BY <1>0, <1>4 DEF Passed
  <2>. QED  BY <1>3, <2>1, <2>2, <2>3 DEF Value
<1>11. Value(d, p)' = v
  <2>1. p + 1 \in 1..calls[d].arity
    BY <1>0, <1>4
  <2>. QED  BY <1>3, <2>1 DEF Value
<1>r. \A i \in Registers : i \in Nat /\ i < ArgRegisters
  BY RegistersAssumption DEF Registers
<1>s. \A j \in 1..d : j \in 1..Depth /\ j <= d
  BY <1>0
<1>12. \A j \in 1..d : \A h \in 1..Height(j) : stack'[h] = stack[h]
  <2>1. \A j \in 1..d : Height(j) <= Len(stack) /\ Height(j) \in Nat
    BY <1>1, <1>s, <1>7, WordsBelow DEF Stacked
  <2>. SUFFICES ASSUME NEW j \in 1..d, NEW h \in 1..Height(j) PROVE stack'[h] = stack[h]
    OBVIOUS
  <2>2. h \in 1..Len(stack)
    BY <1>4, <2>1
  <2>. QED  BY <1>6, <2>2
<1>13. /\ \A k \in 1..d : \A i \in Nat :
           Passed(k, i) => stack'[Cell(k, i)] = stack[Cell(k, i)]
       /\ \A k \in 1..d : Active(k) =>
            /\ stack'[calls[k].base - 1] = stack[calls[k].base - 1]
            /\ stack'[calls[k].base] = stack[calls[k].base]
            /\ \A i \in 0..(Saves(k) - 1) :
                 stack'[calls[k].base + 1 + i] = stack[calls[k].base + 1 + i]
  BY <1>1, <1>s, <1>12, WordsBelow
<1>14. stack'[Cell(d, p)] = w
  <2>1. Cell(d, p) = Len(stack) + 1
    BY <1>0, <1>4, <1>9 DEF Cell
  <2>. QED  BY <1>6, <2>1
<1>15. TypeOK'
  <2>1. \A j \in 1..d : calls'[j].left <= calls'[j].arity /\ Len(calls'[j].values) = calls'[j].arity
    <3>1. \A j \in 1..d : calls[j].left <= calls[j].arity /\ Len(calls[j].values) = calls[j].arity
      BY <1>0, <1>1, Typed
    <3>2. calls'[d].left <= calls'[d].arity /\ Len(calls'[d].values) = calls'[d].arity
      <4>1. calls'[d].arity = calls[d].arity /\ calls'[d].left = p
        BY <1>5
      <4>2. Len(calls'[d].values) = calls[d].arity
        BY <1>3
      <4>3. p <= calls[d].arity
        BY <1>0, <1>4
      <4>. QED  BY <4>1, <4>2, <4>3
    <3>. QED  BY <1>5, <3>1, <3>2
  <2>2. Depth' > 0 /\ rbp' \in Int
    BY <1>0, <1>1, <1>2, <1>5 DEF TypeOK
  <2>. QED  BY <1>2, <1>3, <1>5, <1>6, <2>1, <2>2 DEF TypeOK
<1>16. Stacked'
  <2>1. \A j, k \in 1..d : j < k => Height(j)' <= calls'[k].floor
    <3>. SUFFICES ASSUME NEW j \in 1..d, NEW k \in 1..d, j < k
                  PROVE  Height(j)' <= calls'[k].floor
      OBVIOUS
    <3>1. j # d /\ calls'[k].floor = calls[k].floor
      BY <1>5, <1>s
    <3>. QED  BY <1>1, <1>8, <1>s, <3>1 DEF Stacked
  <2>2. \A j \in 1..d : Height(j)' <= Top'
    <3>1. \A j \in 1..d : Height(j) \in Nat /\ Height(j) <= Len(stack)
      BY <1>1, <1>s, <1>7, WordsBelow DEF Stacked
    <3>. SUFFICES ASSUME NEW j \in 1..d PROVE Height(j)' <= Len(stack) + 1
      BY <1>7
    <3>2. CASE j = d
      <4>1. Height(j)' = Len(stack) + 1
        BY <1>9, <3>2
      <4>. QED  BY <1>4, <4>1
    <3>3. CASE j # d
      BY <1>4, <1>8, <3>1, <3>3
    <3>. QED  BY <3>2, <3>3
  <2>. QED  BY <1>5, <2>1, <2>2 DEF Stacked
<1>17. Balanced'
  <2>1. \A j \in 1..(d - 1) : ~Active(j)' => calls'[j + 1].floor = Height(j)'
    <3>. SUFFICES ASSUME NEW j \in 1..(d - 1), ~Active(j)'
                  PROVE  calls'[j + 1].floor = Height(j)'
      OBVIOUS
    <3>1. j \in 1..d /\ j # d /\ j + 1 \in 1..d /\ j \in 1..(Depth - 1)
      BY <1>0
    <3>2. calls'[j + 1].floor = calls[j + 1].floor
      BY <1>5, <3>1
    <3>. QED  BY <1>1, <1>8, <3>1, <3>2 DEF Balanced
  <2>2. Top' = Height(d)'
    BY <1>7, <1>9
  <2>3. \A j \in 1..d : Active(j)' =>
          calls'[j].base = calls'[j].floor + calls'[j].arity + 2 /\ calls'[j].left = 0
    BY <1>1, <1>2, <1>5, <1>8, <1>s DEF Balanced
  <2>. QED  BY <1>5, <2>1, <2>2, <2>3 DEF Balanced
<1>18. BasesChained'
  <2>0. \A j \in 1..d : calls'[j].base = calls[j].base /\ calls'[j].arity = calls[j].arity
    BY <1>5
  <2>1. 1 \in 1..d /\ 1 \in 1..Depth /\ Active(1) /\ stack'[2] = stack[2]
    <3>1. 1 \in 1..d /\ 1 \in 1..Depth /\ Active(1) /\ calls[1].base = 2
      BY <1>0, <1>1 DEF BasesChained
    <3>. QED  BY <1>13, <3>1
  <2>2. Active(1)' /\ calls'[1].base = 2 /\ calls'[1].arity = 0 /\ stack'[2] = 0
    BY <1>1, <1>8, <2>0, <2>1 DEF BasesChained
  <2>3. \A j \in 1..d : Active(j)' => stack'[calls'[j].base - 1] = Site(j)
    BY <1>1, <1>8, <1>13, <1>s, <2>0 DEF BasesChained, Site
  <2>4. \A j \in 1..d :
          (Active(j)' /\ \A k \in (j + 1)..d : ~Active(k)') => rbp' = calls'[j].base
    <3>1. \A j \in 1..d : \A k \in (j + 1)..d : k \in 1..d
      BY <1>0
    <3>. QED  BY <1>0, <1>1, <1>2, <1>8, <1>s, <2>0, <3>1 DEF BasesChained
  <2>5. \A j, k \in 1..d :
          (j < k /\ Active(j)' /\ Active(k)' /\ \A m \in (j + 1)..(k - 1) : ~Active(m)')
             => stack'[calls'[k].base] = calls'[j].base
    <3>. SUFFICES ASSUME NEW j \in 1..d, NEW k \in 1..d, j < k,
                         Active(j)', Active(k)', \A m \in (j + 1)..(k - 1) : ~Active(m)'
                  PROVE  stack'[calls'[k].base] = calls'[j].base
      OBVIOUS
    <3>1. \A m \in (j + 1)..(k - 1) : m \in 1..d
      BY <1>0
    <3>2. Active(j) /\ Active(k) /\ \A m \in (j + 1)..(k - 1) : ~Active(m)
      BY <1>8, <3>1
    <3>3. stack[calls[k].base] = calls[j].base
      BY <1>1, <1>s, <3>2 DEF BasesChained
    <3>. QED  BY <1>13, <2>0, <3>2, <3>3
  <2>. QED  BY <1>5, <2>2, <2>3, <2>4, <2>5 DEF BasesChained, Site
<1>19. WaitInRegisters'
  <2>. SUFFICES ASSUME NEW j \in 1..d, NEW i \in Registers, Passed(j, i)', ~Active(j)',
                       \A k \in (j + 1)..d : ~Passed(k, i)'
                PROVE  regs'[i] = Value(j, i)'
    BY <1>5, <1>7 DEF WaitInRegisters
  <2>1. CASE j = d /\ i = p
    BY <1>3, <1>11, <2>1
  <2>2. CASE j = d /\ i # p
    <3>1. Passed(d, i) /\ Value(d, i)' = Value(d, i) /\ regs'[i] = regs[i]
      BY <1>3, <1>10, <1>r, <2>2
    <3>2. \A k \in (d + 1)..Depth : ~Passed(k, i)
      BY <1>0
    <3>. QED  BY <1>1, <1>2, <1>4, <1>7, <2>2, <3>1, <3>2 DEF WaitInRegisters
  <2>3. CASE j # d
    <3>1. Passed(j, i) /\ ~Active(j) /\ Value(j, i)' = Value(j, i) /\ d \in (j + 1)..d
      BY <1>0, <1>8, <2>3
    <3>2. ~Passed(d, i) /\ i # p
      BY <1>10, <1>r, <3>1
    <3>3. \A k \in (j + 1)..Depth : ~Passed(k, i)
      <4>1. \A k \in (j + 1)..Depth : k \in 1..d /\ k \in (j + 1)..d
        BY <1>0
      <4>. QED  BY <1>8, <3>2, <4>1
    <3>4. regs[i] = Value(j, i)
      BY <1>1, <1>7, <1>s, <3>1, <3>3 DEF WaitInRegisters
    <3>. QED  BY <1>3, <3>1, <3>2, <3>4
  <2>. QED  BY <2>1, <2>2, <2>3
<1>20. WaitInCells'
  <2>. SUFFICES ASSUME NEW j \in 1..d, NEW k \in 1..d, NEW i \in Registers,
                       j < k, Passed(j, i)', ~Active(j)', Passed(k, i)',
                       \A m \in (j + 1)..(k - 1) : ~Passed(m, i)'
                PROVE  stack'[Cell(k, i)] = Value(j, i)'
    BY <1>5, <1>8 DEF WaitInCells
  <2>1. /\ j # d /\ Passed(j, i) /\ ~Active(j) /\ Value(j, i)' = Value(j, i) /\ i \in Nat
        /\ \A m \in (j + 1)..(k - 1) : ~Passed(m, i)
    <3>1. j # d /\ \A m \in (j + 1)..(k - 1) : m \in 1..d /\ m # d
      BY <1>0
    <3>. QED  BY <1>8, <1>r, <3>1
  <2>2. CASE Passed(k, i)
    <3>1. stack[Cell(k, i)] = Value(j, i)
      BY <1>1, <1>s, <2>1, <2>2 DEF WaitInCells
    <3>. QED  BY <1>13, <2>1, <2>2, <3>1
  <2>3. CASE ~Passed(k, i)
    <3>1. k = d /\ i = p
      BY <1>8, <1>10, <2>1, <2>3
    <3>2. \A m \in (j + 1)..Depth : ~Passed(m, i)
      <4>1. \A m \in (j + 1)..Depth : m \in (j + 1)..(k - 1) \/ m = d
        BY <1>0, <3>1
      <4>. QED  BY <2>1, <2>3, <3>1, <4>1
    <3>3. regs[i] = Value(j, i)
      BY <1>1, <1>7, <1>s, <2>1, <3>2 DEF WaitInRegisters
    <3>4. w = regs[i]
      BY <1>r, <3>1 DEF w
    <3>. QED  BY <1>14, <2>1, <3>1, <3>3, <3>4
  <2>. QED  BY <2>2, <2>3
<1>21. PushedKept'
  <2>. SUFFICES ASSUME NEW j \in 1..d, NEW i \in 0..(calls'[j].arity - 1),
                       i >= ArgRegisters, Passed(j, i)'
                PROVE  stack'[Cell(j, i)] = Value(j, i)'
    BY <1>5, <1>8 DEF PushedKept
  <2>1. i \in Nat /\ calls'[j].arity = calls[j].arity
    BY <1>5
  <2>2. CASE Passed(j, i)
    <3>1. stack[Cell(j, i)] = Value(j, i)
      BY <1>1, <1>s, <2>1, <2>2 DEF PushedKept
    <3>2. Value(j, i)' = Value(j, i)
      BY <1>8, <1>10, <2>1, <2>2
    <3>. QED  BY <1>13, <2>1, <2>2, <3>1, <3>2
  <2>3. CASE ~Passed(j, i)
    <3>1. j = d /\ i = p
      BY <1>8, <1>10, <2>1, <2>3
    <3>2. w = v
      BY <3>1, RegistersAssumption DEF w
    <3>. QED  BY <1>11, <1>14, <3>1, <3>2
  <2>. QED  BY <2>2, <2>3
<1>22. SlotsKept'
  <2>. SUFFICES ASSUME NEW j \in 1..d, Active(j)', NEW i \in 0..(Saves(j)' - 1)
                PROVE  stack'[calls'[j].base + 1 + i] = Value(j, i)'
    BY <1>5 DEF SlotsKept
  <2>1. i \in 0..(Saves(j) - 1) /\ Active(j) /\ j # d
    BY <1>2, <1>8
  <2>2. stack[calls[j].base + 1 + i] = Value(j, i)
    BY <1>1, <1>s, <2>1 DEF SlotsKept
  <2>. QED  BY <1>5, <1>8, <1>13, <2>1, <2>2
<1>23. SavedInside'
  BY <1>2 DEF SavedInside
<1>24. LibraryCalls'
  <2>. SUFFICES ASSUME NEW k \in 1..d, calls'[k].library
                PROVE  /\ ~Active(k)' /\ calls'[k].arity <= ArgRegisters
                       /\ \A r \in Registers : r >= calls'[k].arity =>
                            \A j \in 1..(k - 1) :
                              Passed(j, r)' /\ ~Active(j)' => \E m \in (j + 1)..(k - 1) : Passed(m, r)'
    BY <1>5 DEF LibraryCalls
  <2>1. \A j \in 1..(k - 1) :
          j \in 1..d /\ j # d /\ \A m \in (j + 1)..(k - 1) : m \in 1..d /\ m # d
    BY <1>0
  <2>2. calls[k].library /\ k \in 1..Depth /\ calls'[k].arity = calls[k].arity
    BY <1>5, <1>s
  <2>3. /\ ~Active(k) /\ calls[k].arity <= ArgRegisters
        /\ \A r \in Registers : r >= calls[k].arity =>
             \A j \in 1..(k - 1) :
               Passed(j, r) /\ ~Active(j) => \E m \in (j + 1)..(k - 1) : Passed(m, r)
    BY <1>1, <2>2 DEF LibraryCalls
  <2>. QED  BY <1>8, <2>1, <2>2, <2>3
<1>. QED  BY <1>15, <1>16, <1>17, <1>18, <1>19, <1>20, <1>21, <1>22, <1>23, <1>24 DEF IInv

-----------------------------------------------------------------------------
(* A function entered *)

LEMMA FunctionCallKeeps ==
  ASSUME IInv, FunctionCall
  PROVE  IInv'
<1>1. /\ TypeOK /\ Stacked /\ Balanced /\ BasesChained /\ WaitInRegisters /\ WaitInCells
      /\ PushedKept /\ SlotsKept /\ LibraryCalls
  BY DEF IInv
<1>0. PICK d \in Nat, len \in Nat : d = Depth /\ d > 0 /\ len = Len(stack)
  BY <1>1, Typed
<1>2. /\ ~saved /\ saved' = FALSE /\ ~Active(d) /\ calls[d].left = 0 /\ ~calls[d].library
      /\ regs' = regs /\ rbp' = len + 2
  <2>1. Inner = calls[d] /\ saved \in BOOLEAN
    BY <1>0, <1>1, Typed DEF TypeOK
  <2>. QED  BY <1>0, <2>1 DEF FunctionCall
<1>3. /\ Becomes([calls[d] EXCEPT !.base = len + 2])
      /\ Saves(d) \in Nat /\ Saves(d) <= ArgRegisters /\ Saves(d) <= calls[d].arity
      /\ stack' \in Seq(Int)
      /\ Len(stack') = len + 2 + Saves(d)
      /\ \A h \in 1..len : stack'[h] = stack[h]
      /\ stack'[len + 1] = Site(d)
      /\ stack'[len + 2] = rbp
      /\ \A i \in 0..(Saves(d) - 1) : stack'[len + 3 + i] = regs[i]
  BY <1>0, <1>1, FunctionCallFacts
<1>4. d \in 1..Depth /\ d \in 1..d /\ calls[d] \in Records
      /\ calls[d].arity \in Nat /\ calls[d].floor \in Nat
  BY <1>0, <1>1, Typed
<1>5. /\ Depth' = d /\ calls' \in Seq(Records)
      /\ \A j \in 1..d : j # d => calls'[j] = calls[j]
      /\ calls'[d].arity = calls[d].arity /\ calls'[d].left = calls[d].left
      /\ calls'[d].floor = calls[d].floor /\ calls'[d].base = len + 2
      /\ calls'[d].library = calls[d].library /\ calls'[d].values = calls[d].values
  <2>1. calls'[d] = [calls[d] EXCEPT !.base = len + 2]
    BY <1>0, <1>3 DEF Becomes
  <2>2. calls'[d].arity = calls[d].arity /\ calls'[d].left = calls[d].left
        /\ calls'[d].floor = calls[d].floor /\ calls'[d].base = len + 2
        /\ calls'[d].library = calls[d].library /\ calls'[d].values = calls[d].values
    BY <1>4, <2>1 DEF Records
  <2>. QED  BY <1>0, <1>3, <2>2 DEF Becomes
<1>6. Top = len /\ Top' = len + 2 + Saves(d) /\ Settled = regs /\ Settled' = regs
  BY <1>0, <1>2, <1>3 DEF Top, Settled
<1>7. /\ \A j \in 1..d :
           /\ Saves(j)' = Saves(j)
           /\ \A i : /\ Cell(j, i)' = Cell(j, i)
                     /\ Passed(j, i)' = Passed(j, i) /\ Value(j, i)' = Value(j, i)
      /\ \A j \in 1..d : j # d => Active(j)' = Active(j) /\ Height(j)' = Height(j)
      /\ Active(d)' /\ Height(d)' = len + 2 + Saves(d)
  <2>1. \A j \in 1..d : j # d =>
           /\ Active(j)' = Active(j) /\ Saves(j)' = Saves(j) /\ Height(j)' = Height(j)
           /\ \A i : /\ Cell(j, i)' = Cell(j, i)
                     /\ Passed(j, i)' = Passed(j, i) /\ Value(j, i)' = Value(j, i)
    BY <1>5 DEF Active, Height, Saves, Passed, Cell, Value
  <2>2. /\ Saves(d)' = Saves(d)
        /\ \A i : /\ Cell(d, i)' = Cell(d, i)
                  /\ Passed(d, i)' = Passed(d, i) /\ Value(d, i)' = Value(d, i)
    BY <1>5 DEF Saves, Passed, Cell, Value
  <2>3. Active(d)' /\ Height(d)' = calls'[d].base + Saves(d)'
    BY <1>5 DEF Active, Height
  <2>. QED  BY <1>5, <2>1, <2>2, <2>3
<1>8. len = calls[d].floor + calls[d].arity
  BY <1>0, <1>1, <1>2, <1>4, <1>6 DEF Balanced, Height
<1>r. \A i \in Registers : i \in Nat /\ i < ArgRegisters
  BY RegistersAssumption DEF Registers
<1>s. \A j \in 1..d : j \in 1..Depth /\ j <= d
  BY <1>0
<1>9. \A j \in 1..d : Height(j) <= len /\ Height(j) \in Nat
  BY <1>1, <1>s, <1>6, WordsBelow DEF Stacked
<1>10. \A j \in 1..d : \A h \in 1..Height(j) : stack'[h] = stack[h]
  <2>. SUFFICES ASSUME NEW j \in 1..d, NEW h \in 1..Height(j) PROVE stack'[h] = stack[h]
    OBVIOUS
  <2>1. h \in 1..len
    BY <1>9
  <2>. QED  BY <1>3, <2>1
<1>11. /\ \A k \in 1..d : \A i \in Nat :
           Passed(k, i) => stack'[Cell(k, i)] = stack[Cell(k, i)]
       /\ \A k \in 1..d : Active(k) =>
            /\ stack'[calls[k].base - 1] = stack[calls[k].base - 1]
            /\ stack'[calls[k].base] = stack[calls[k].base]
            /\ \A i \in 0..(Saves(k) - 1) :
                 stack'[calls[k].base + 1 + i] = stack[calls[k].base + 1 + i]
  BY <1>1, <1>s, <1>10, WordsBelow
<1>12. TypeOK'
  <2>1. \A j \in 1..d : calls[j].left <= calls[j].arity /\ Len(calls[j].values) = calls[j].arity
    BY <1>0, <1>1, Typed
  <2>2. \A j \in 1..d : calls'[j].left <= calls'[j].arity /\ Len(calls'[j].values) = calls'[j].arity
    BY <1>5, <2>1
  <2>3. Depth' > 0 /\ rbp' \in Int /\ regs' \in [Registers -> Int]
    BY <1>0, <1>1, <1>2, <1>5 DEF TypeOK
  <2>. QED  BY <1>2, <1>3, <1>5, <2>2, <2>3 DEF TypeOK
<1>13. Stacked'
  <2>1. \A j, k \in 1..d : j < k => Height(j)' <= calls'[k].floor
    <3>. SUFFICES ASSUME NEW j \in 1..d, NEW k \in 1..d, j < k
                  PROVE  Height(j)' <= calls'[k].floor
      OBVIOUS
    <3>1. j # d /\ calls'[k].floor = calls[k].floor
      BY <1>5, <1>s
    <3>. QED  BY <1>1, <1>7, <1>s, <3>1 DEF Stacked
  <2>2. \A j \in 1..d : Height(j)' <= Top'
    <3>. SUFFICES ASSUME NEW j \in 1..d PROVE Height(j)' <= len + 2 + Saves(d)
      BY <1>6
    <3>1. CASE j = d
      BY <1>3, <1>7, <3>1
    <3>2. CASE j # d
      BY <1>3, <1>7, <1>9, <3>2
    <3>. QED  BY <3>1, <3>2
  <2>. QED  BY <1>5, <2>1, <2>2 DEF Stacked
<1>14. Balanced'
  <2>1. \A j \in 1..(d - 1) : ~Active(j)' => calls'[j + 1].floor = Height(j)'
    <3>. SUFFICES ASSUME NEW j \in 1..(d - 1), ~Active(j)'
                  PROVE  calls'[j + 1].floor = Height(j)'
      OBVIOUS
    <3>1. j \in 1..d /\ j # d /\ j + 1 \in 1..d /\ j \in 1..(Depth - 1)
      BY <1>0
    <3>2. calls'[j + 1].floor = calls[j + 1].floor
      BY <1>5, <3>1
    <3>. QED  BY <1>1, <1>7, <3>1, <3>2 DEF Balanced
  <2>2. \A j \in 1..d : Active(j)' =>
          calls'[j].base = calls'[j].floor + calls'[j].arity + 2 /\ calls'[j].left = 0
    <3>. SUFFICES ASSUME NEW j \in 1..d, Active(j)'
                  PROVE  calls'[j].base = calls'[j].floor + calls'[j].arity + 2 /\ calls'[j].left = 0
      OBVIOUS
    <3>1. CASE j = d
      BY <1>2, <1>5, <1>8, <3>1
    <3>2. CASE j # d
      BY <1>1, <1>5, <1>7, <1>s, <3>2 DEF Balanced
    <3>. QED  BY <3>1, <3>2
  <2>. QED  BY <1>5, <1>7, <2>1, <2>2 DEF Balanced
<1>15. BasesChained'
  <2>0. 1 \in 1..d /\ 1 # d /\ Active(1)
    BY <1>0, <1>1, <1>2 DEF BasesChained
  <2>2. Active(1)' /\ calls'[1].base = 2 /\ calls'[1].arity = 0 /\ stack'[2] = 0
    BY <1>1, <1>5, <1>7, <1>11, <2>0 DEF BasesChained
  <2>3. \A j \in 1..d : Active(j)' => stack'[calls'[j].base - 1] = Site(j)
    <3>. SUFFICES ASSUME NEW j \in 1..d, Active(j)' PROVE stack'[calls'[j].base - 1] = Site(j)
      OBVIOUS
    <3>1. CASE j = d
      <4>1. calls'[j].base - 1 = len + 1
        BY <1>5, <3>1
      <4>. QED  BY <1>3, <3>1, <4>1
    <3>2. CASE j # d
      BY <1>1, <1>5, <1>7, <1>11, <1>s, <3>2 DEF BasesChained, Site
    <3>. QED  BY <3>1, <3>2
  <2>4. \A j \in 1..d :
          (Active(j)' /\ \A k \in (j + 1)..d : ~Active(k)') => rbp' = calls'[j].base
    <3>. SUFFICES ASSUME NEW j \in 1..d, Active(j)', \A k \in (j + 1)..d : ~Active(k)'
                  PROVE  rbp' = calls'[j].base
      OBVIOUS
    <3>1. j = d
      <4>1. j # d => d \in (j + 1)..d
        BY <1>0
      <4>. QED  BY <1>7, <4>1
    <3>. QED  BY <1>2, <1>5, <3>1
  <2>5. \A j, k \in 1..d :
          (j < k /\ Active(j)' /\ Active(k)' /\ \A m \in (j + 1)..(k - 1) : ~Active(m)')
             => stack'[calls'[k].base] = calls'[j].base
    <3>. SUFFICES ASSUME NEW j \in 1..d, NEW k \in 1..d, j < k,
                         Active(j)', Active(k)', \A m \in (j + 1)..(k - 1) : ~Active(m)'
                  PROVE  stack'[calls'[k].base] = calls'[j].base
      OBVIOUS
    <3>1. /\ j # d /\ Active(j) /\ calls'[j].base = calls[j].base
          /\ \A m \in (j + 1)..(k - 1) : ~Active(m)
      <4>1. j # d /\ \A m \in (j + 1)..(k - 1) : m \in 1..d /\ m # d
        BY <1>0
      <4>. QED  BY <1>5, <1>7, <4>1
    <3>2. CASE k = d
      <4>1. \A m \in (j + 1)..Depth : m \in (j + 1)..(k - 1) \/ m = d
        BY <1>0, <3>2
      <4>2. rbp = calls[j].base
        BY <1>1, <1>2, <1>s, <3>1, <4>1 DEF BasesChained
      <4>. QED  BY <1>3, <1>5, <3>1, <3>2, <4>2
    <3>3. CASE k # d
      <4>1. Active(k) /\ calls'[k].base = calls[k].base
        BY <1>5, <1>7, <3>3
      <4>2. stack[calls[k].base] = calls[j].base
        BY <1>1, <1>s, <3>1, <4>1 DEF BasesChained
      <4>. QED  BY <1>11, <3>1, <4>1, <4>2
    <3>. QED  BY <3>2, <3>3
  <2>. QED  BY <1>5, <2>2, <2>3, <2>4, <2>5 DEF BasesChained, Site
<1>16. WaitInRegisters'
  <2>. SUFFICES ASSUME NEW j \in 1..d, NEW i \in Registers, Passed(j, i)', ~Active(j)',
                       \A k \in (j + 1)..d : ~Passed(k, i)'
                PROVE  regs[i] = Value(j, i)'
    BY <1>5, <1>6 DEF WaitInRegisters
  <2>1. /\ j # d /\ Passed(j, i) /\ ~Active(j) /\ Value(j, i)' = Value(j, i)
        /\ \A k \in (j + 1)..Depth : ~Passed(k, i)
    <3>1. \A k \in (j + 1)..Depth : k \in 1..d /\ k \in (j + 1)..d
      BY <1>0
    <3>. QED  BY <1>7, <3>1
  <2>. QED  BY <1>1, <1>6, <1>s, <2>1 DEF WaitInRegisters
<1>17. WaitInCells'
  <2>. SUFFICES ASSUME NEW j \in 1..d, NEW k \in 1..d, NEW i \in Registers,
                       j < k, Passed(j, i)', ~Active(j)', Passed(k, i)',
                       \A m \in (j + 1)..(k - 1) : ~Passed(m, i)'
                PROVE  stack'[Cell(k, i)] = Value(j, i)'
    BY <1>5, <1>7 DEF WaitInCells
  <2>1. /\ Passed(j, i) /\ ~Active(j) /\ Value(j, i)' = Value(j, i) /\ i \in Nat
        /\ Passed(k, i) /\ \A m \in (j + 1)..(k - 1) : ~Passed(m, i)
    <3>1. j # d /\ \A m \in (j + 1)..(k - 1) : m \in 1..d
      BY <1>0
    <3>. QED  BY <1>7, <1>r, <3>1
  <2>2. stack[Cell(k, i)] = Value(j, i)
    BY <1>1, <1>s, <2>1 DEF WaitInCells
  <2>. QED  BY <1>11, <2>1, <2>2
<1>18. PushedKept'
  <2>. SUFFICES ASSUME NEW j \in 1..d, NEW i \in 0..(calls'[j].arity - 1),
                       i >= ArgRegisters, Passed(j, i)'
                PROVE  stack'[Cell(j, i)] = Value(j, i)'
    BY <1>5, <1>7 DEF PushedKept
  <2>1. i \in Nat /\ calls'[j].arity = calls[j].arity /\ Passed(j, i)
    BY <1>5, <1>7
  <2>2. stack[Cell(j, i)] = Value(j, i)
    BY <1>1, <1>s, <2>1 DEF PushedKept
  <2>. QED  BY <1>7, <1>11, <2>1, <2>2
<1>19. SlotsKept'
  <2>. SUFFICES ASSUME NEW j \in 1..d, Active(j)', NEW i \in 0..(Saves(j)' - 1)
                PROVE  stack'[calls'[j].base + 1 + i] = Value(j, i)'
    BY <1>5 DEF SlotsKept
  <2>0. i \in 0..(Saves(j) - 1) /\ Value(j, i)' = Value(j, i)
    BY <1>7
  <2>1. CASE j = d
    <3>1. i \in Registers /\ i < calls[d].arity /\ i \in Nat
      <4>1. i \in 0..(Saves(d) - 1)
        BY <2>0, <2>1
      <4>2. Saves(d) \in Nat /\ Saves(d) <= ArgRegisters /\ Saves(d) <= calls[d].arity
        BY <1>3
      <4>. QED  BY <1>4, <4>1, <4>2, RegistersAssumption DEF Registers
    <3>2. Passed(d, i) /\ \A k \in (d + 1)..Depth : ~Passed(k, i)
      BY <1>0, <1>2, <3>1 DEF Passed
    <3>3. regs[i] = Value(d, i)
      BY <1>1, <1>2, <1>4, <1>6, <3>1, <3>2 DEF WaitInRegisters
    <3>4. calls'[j].base = len + 2
      BY <1>5, <2>1
    <3>5. calls'[j].base + 1 + i = len + 3 + i
      BY <3>1, <3>4
    <3>. QED  BY <1>3, <2>0, <2>1, <3>3, <3>5
  <2>2. CASE j # d
    <3>1. Active(j) /\ calls'[j].base = calls[j].base
      BY <1>5, <1>7, <2>2
    <3>2. stack[calls[j].base + 1 + i] = Value(j, i)
      BY <1>1, <1>s, <2>0, <3>1 DEF SlotsKept
    <3>. QED  BY <1>11, <2>0, <3>1, <3>2
  <2>. QED  BY <2>1, <2>2
<1>20. SavedInside'
  BY <1>2 DEF SavedInside
<1>21. LibraryCalls'
  <2>. SUFFICES ASSUME NEW k \in 1..d, calls'[k].library
                PROVE  /\ ~Active(k)' /\ calls'[k].arity <= ArgRegisters
                       /\ \A r \in Registers : r >= calls'[k].arity =>
                            \A j \in 1..(k - 1) :
                              Passed(j, r)' /\ ~Active(j)' => \E m \in (j + 1)..(k - 1) : Passed(m, r)'
    BY <1>5 DEF LibraryCalls
  <2>1. \A j \in 1..(k - 1) :
          j \in 1..d /\ j # d /\ \A m \in (j + 1)..(k - 1) : m \in 1..d
    BY <1>0
  <2>2. /\ k # d /\ calls[k].library /\ k \in 1..Depth /\ calls'[k].arity = calls[k].arity
        /\ Active(k)' = Active(k)
    BY <1>2, <1>5, <1>7, <1>s
  <2>3. /\ ~Active(k) /\ calls[k].arity <= ArgRegisters
        /\ \A r \in Registers : r >= calls[k].arity =>
             \A j \in 1..(k - 1) :
               Passed(j, r) /\ ~Active(j) => \E m \in (j + 1)..(k - 1) : Passed(m, r)
    BY <1>1, <2>2 DEF LibraryCalls
  <2>. QED  BY <1>7, <2>1, <2>2, <2>3
<1>. QED  BY <1>12, <1>13, <1>14, <1>15, <1>16, <1>17, <1>18, <1>19, <1>20, <1>21 DEF IInv

-----------------------------------------------------------------------------
(* A word left on the stack *)

LEMMA LeaksKeeps ==
  ASSUME IInv, Leaks
  PROVE  IInv'
<1>1. /\ TypeOK /\ Stacked /\ Balanced /\ BasesChained /\ WaitInRegisters /\ WaitInCells
      /\ PushedKept /\ SlotsKept /\ LibraryCalls
  BY DEF IInv
<1>0. PICK d \in Nat, len \in Nat : d = Depth /\ d > 0 /\ len = Len(stack)
  BY <1>1, Typed
<1>2. /\ Depth' = d /\ calls' \in Seq(Records)
      /\ \A j \in 1..d :
           /\ calls'[j].arity = calls[j].arity /\ calls'[j].left = calls[j].left
           /\ calls'[j].library = calls[j].library /\ calls'[j].values = calls[j].values
           /\ calls'[j].base = calls[j].base
           /\ calls'[j].floor = IF j \in Pending THEN calls[j].floor + 1 ELSE calls[j].floor
      /\ \A j \in Pending : calls[j].left = calls[j].arity
      /\ saved = FALSE /\ saved' = FALSE /\ rbp' = rbp /\ regs' = regs
      /\ Len(stack') = len + 1 /\ stack' \in Seq(Int)
      /\ \A h \in 1..len : stack'[h] = stack[h]
  BY <1>0 DEF Leaks
<1>3. \A j \in 1..d :
        /\ calls[j].arity \in Nat /\ calls[j].left \in Nat /\ calls[j].floor \in Nat
        /\ calls[j].base \in Nat
  BY <1>0, <1>1, Typed
<1>s. \A j \in 1..d : j \in 1..Depth /\ j <= d
  BY <1>0
<1>r. \A i \in Registers : i \in Nat
  BY RegistersAssumption DEF Registers
<1>4. /\ \A j \in 1..d : j \in Pending => ~Active(j) /\ \A i \in Nat : ~Passed(j, i)
      /\ \A j, k \in 1..d : j \in Pending /\ j < k => k \in Pending
      /\ \A j \in 1..(d - 1) : ~Active(j) /\ j + 1 \in Pending => j \in Pending
      /\ ~Active(d) => d \in Pending
  <2>1. \A j \in 1..d : j \in Pending <=> \A k \in j..d : ~Active(k)
    BY <1>0 DEF Pending
  <2>2. \A j \in 1..d : j \in Pending => ~Active(j) /\ \A i \in Nat : ~Passed(j, i)
    <3>. SUFFICES ASSUME NEW j \in 1..d, j \in Pending
                  PROVE  ~Active(j) /\ \A i \in Nat : ~Passed(j, i)
      OBVIOUS
    <3>1. ~Active(j)
      BY <2>1
    <3>2. \A i \in Nat : ~Passed(j, i)
      BY <1>2, <1>3 DEF Passed
    <3>. QED  BY <3>1, <3>2
  <2>3. \A j, k \in 1..d : j \in Pending /\ j < k => k \in Pending
    <3>1. \A j, k \in 1..d : j < k => \A m \in k..d : m \in j..d
      OBVIOUS
    <3>. QED  BY <2>1, <3>1
  <2>4. \A j \in 1..(d - 1) : ~Active(j) /\ j + 1 \in Pending => j \in Pending
    <3>1. \A j \in 1..(d - 1) :
            /\ j \in 1..d /\ j + 1 \in 1..d
            /\ \A m \in j..d : m = j \/ m \in (j + 1)..d
      BY <1>0
    <3>. QED  BY <2>1, <3>1
  <2>5. ~Active(d) => d \in Pending
    <3>1. d \in 1..d /\ \A m \in d..d : m = d
      BY <1>0
    <3>. QED  BY <2>1, <3>1
  <2>. QED  BY <2>2, <2>3, <2>4, <2>5
<1>5. \A j \in 1..d :
        /\ Active(j)' = Active(j) /\ Saves(j)' = Saves(j)
        /\ \A i : Passed(j, i)' = Passed(j, i) /\ Value(j, i)' = Value(j, i)
  BY <1>2 DEF Active, Saves, Passed, Value
<1>6. \A j \in 1..d :
        IF j \in Pending THEN Height(j)' = Height(j) + 1
        ELSE Height(j)' = Height(j) /\ \A i : Cell(j, i)' = Cell(j, i)
  <2>. SUFFICES ASSUME NEW j \in 1..d
                PROVE  IF j \in Pending THEN Height(j)' = Height(j) + 1
                       ELSE Height(j)' = Height(j) /\ \A i : Cell(j, i)' = Cell(j, i)
    OBVIOUS
  <2>1. CASE j \in Pending
    <3>1. /\ Height(j) = calls[j].floor + calls[j].arity - calls[j].left
          /\ Height(j)' = calls'[j].floor + calls'[j].arity - calls'[j].left
      BY <1>4, <1>5, <2>1 DEF Height
    <3>2. /\ calls'[j].floor = calls[j].floor + 1 /\ calls'[j].arity = calls[j].arity
          /\ calls'[j].left = calls[j].left
      BY <1>2, <2>1
    <3>. QED  BY <1>3, <2>1, <3>1, <3>2
  <2>2. CASE j \notin Pending
    BY <1>2, <1>5, <2>2 DEF Height, Cell
  <2>. QED  BY <2>1, <2>2
<1>7. Top = len /\ Top' = len + 1 /\ Settled = regs /\ Settled' = regs
  BY <1>0, <1>2 DEF Top, Settled
<1>8. \A j \in 1..d : Height(j) <= len /\ Height(j) \in Nat
  BY <1>1, <1>s, <1>7, WordsBelow DEF Stacked
<1>9. \A j \in 1..d : \A h \in 1..Height(j) : stack'[h] = stack[h]
  <2>. SUFFICES ASSUME NEW j \in 1..d, NEW h \in 1..Height(j) PROVE stack'[h] = stack[h]
    OBVIOUS
  <2>1. h \in 1..len
    BY <1>8
  <2>. QED  BY <1>2, <2>1
<1>10. /\ \A k \in 1..d : \A i \in Nat :
            Passed(k, i) => /\ k \notin Pending /\ Cell(k, i)' = Cell(k, i)
                            /\ stack'[Cell(k, i)] = stack[Cell(k, i)]
       /\ \A k \in 1..d : Active(k) =>
            /\ k \notin Pending
            /\ stack'[calls[k].base - 1] = stack[calls[k].base - 1]
            /\ stack'[calls[k].base] = stack[calls[k].base]
            /\ \A i \in 0..(Saves(k) - 1) :
                 stack'[calls[k].base + 1 + i] = stack[calls[k].base + 1 + i]
  BY <1>1, <1>4, <1>6, <1>s, <1>9, WordsBelow
<1>11. TypeOK'
  <2>1. \A j \in 1..d : calls[j].left <= calls[j].arity /\ Len(calls[j].values) = calls[j].arity
    BY <1>0, <1>1, Typed
  <2>2. \A j \in 1..d : calls'[j].left <= calls'[j].arity /\ Len(calls'[j].values) = calls'[j].arity
    BY <1>2, <2>1
  <2>3. Depth' > 0 /\ rbp' \in Int /\ regs' \in [Registers -> Int]
    BY <1>0, <1>1, <1>2 DEF TypeOK
  <2>. QED  BY <1>2, <2>2, <2>3 DEF TypeOK
<1>12. Stacked'
  <2>1. \A j, k \in 1..d : j < k => Height(j)' <= calls'[k].floor
    <3>. SUFFICES ASSUME NEW j \in 1..d, NEW k \in 1..d, j < k
                  PROVE  Height(j)' <= calls'[k].floor
      OBVIOUS
    <3>1. Height(j) <= calls[k].floor
      BY <1>1, <1>s DEF Stacked
    <3>2. j \in Pending => k \in Pending
      BY <1>4
    <3>3. calls'[k].floor = IF k \in Pending THEN calls[k].floor + 1 ELSE calls[k].floor
      BY <1>2
    <3>4. Height(j)' = IF j \in Pending THEN Height(j) + 1 ELSE Height(j)
      BY <1>6
    <3>. QED  BY <1>3, <1>8, <3>1, <3>2, <3>3, <3>4
  <2>2. \A j \in 1..d : Height(j)' <= Top'
    <3>. SUFFICES ASSUME NEW j \in 1..d PROVE Height(j)' <= len + 1
      BY <1>7
    <3>1. Height(j)' = IF j \in Pending THEN Height(j) + 1 ELSE Height(j)
      BY <1>6
    <3>. QED  BY <1>8, <3>1
  <2>. QED  BY <1>2, <2>1, <2>2 DEF Stacked
<1>13. Balanced'
  <2>1. \A j \in 1..(d - 1) : ~Active(j)' => calls'[j + 1].floor = Height(j)'
    <3>. SUFFICES ASSUME NEW j \in 1..(d - 1), ~Active(j)'
                  PROVE  calls'[j + 1].floor = Height(j)'
      OBVIOUS
    <3>1. j \in 1..d /\ j + 1 \in 1..d /\ j \in 1..(Depth - 1) /\ j < j + 1
      BY <1>0
    <3>2. ~Active(j) /\ calls[j + 1].floor = Height(j)
      BY <1>1, <1>5, <3>1 DEF Balanced
    <3>3. j \in Pending <=> j + 1 \in Pending
      BY <1>4, <3>1, <3>2
    <3>. QED  BY <1>2, <1>6, <3>1, <3>2, <3>3
  <2>2. \A j \in 1..d : Active(j)' =>
          calls'[j].base = calls'[j].floor + calls'[j].arity + 2 /\ calls'[j].left = 0
    BY <1>1, <1>2, <1>5, <1>10, <1>s DEF Balanced
  <2>3. ~Active(d)' => Top' = Height(d)'
    <3>1. d \in 1..d
      BY <1>0
    <3>2. ~Active(d) => len = Height(d) /\ d \in Pending
      BY <1>0, <1>1, <1>4, <1>7 DEF Balanced
    <3>. QED  BY <1>5, <1>6, <1>7, <3>1, <3>2
  <2>. QED  BY <1>2, <2>1, <2>2, <2>3 DEF Balanced
<1>14. BasesChained'
  <2>1. 1 \in 1..d
    BY <1>0
  <2>2. Active(1)' /\ calls'[1].base = 2 /\ calls'[1].arity = 0 /\ stack'[2] = 0
    BY <1>1, <1>2, <1>5, <1>10, <2>1 DEF BasesChained
  <2>3. \A j \in 1..d : Active(j)' => stack'[calls'[j].base - 1] = Site(j)
    BY <1>1, <1>2, <1>5, <1>10, <1>s DEF BasesChained, Site
  <2>4. \A j \in 1..d :
          (Active(j)' /\ \A k \in (j + 1)..d : ~Active(k)') => rbp' = calls'[j].base
    <3>. SUFFICES ASSUME NEW j \in 1..d, Active(j)', \A k \in (j + 1)..d : ~Active(k)'
                  PROVE  rbp' = calls'[j].base
      OBVIOUS
    <3>1. \A k \in (j + 1)..Depth : k \in 1..d /\ k \in (j + 1)..d
      BY <1>0
    <3>2. Active(j) /\ \A k \in (j + 1)..Depth : ~Active(k)
      BY <1>5, <3>1
    <3>. QED  BY <1>1, <1>2, <1>s, <3>2 DEF BasesChained
  <2>5. \A j, k \in 1..d :
          (j < k /\ Active(j)' /\ Active(k)' /\ \A m \in (j + 1)..(k - 1) : ~Active(m)')
             => stack'[calls'[k].base] = calls'[j].base
    <3>. SUFFICES ASSUME NEW j \in 1..d, NEW k \in 1..d, j < k,
                         Active(j)', Active(k)', \A m \in (j + 1)..(k - 1) : ~Active(m)'
                  PROVE  stack'[calls'[k].base] = calls'[j].base
      OBVIOUS
    <3>1. \A m \in (j + 1)..(k - 1) : m \in 1..d
      BY <1>0
    <3>2. Active(j) /\ Active(k) /\ \A m \in (j + 1)..(k - 1) : ~Active(m)
      BY <1>5, <3>1
    <3>3. stack[calls[k].base] = calls[j].base
      BY <1>1, <1>s, <3>2 DEF BasesChained
    <3>. QED  BY SMTT(60), <1>2, <1>10, <3>2, <3>3
  <2>. QED  BY <1>2, <2>2, <2>3, <2>4, <2>5 DEF BasesChained, Site
<1>15. WaitInRegisters'
  <2>. SUFFICES ASSUME NEW j \in 1..d, NEW i \in Registers, Passed(j, i)', ~Active(j)',
                       \A k \in (j + 1)..d : ~Passed(k, i)'
                PROVE  regs[i] = Value(j, i)'
    BY <1>2, <1>7 DEF WaitInRegisters
  <2>1. /\ Passed(j, i) /\ ~Active(j) /\ Value(j, i)' = Value(j, i)
        /\ \A k \in (j + 1)..Depth : ~Passed(k, i)
    <3>1. \A k \in (j + 1)..Depth : k \in 1..d /\ k \in (j + 1)..d
      BY <1>0
    <3>. QED  BY <1>5, <3>1
  <2>. QED  BY <1>1, <1>7, <1>s, <2>1 DEF WaitInRegisters
<1>16. WaitInCells'
  <2>. SUFFICES ASSUME NEW j \in 1..d, NEW k \in 1..d, NEW i \in Registers,
                       j < k, Passed(j, i)', ~Active(j)', Passed(k, i)',
                       \A m \in (j + 1)..(k - 1) : ~Passed(m, i)'
                PROVE  stack'[Cell(k, i)'] = Value(j, i)'
    BY SMTT(60), <1>2 DEF WaitInCells
  <2>1. /\ Passed(j, i) /\ ~Active(j) /\ Value(j, i)' = Value(j, i) /\ i \in Nat
        /\ Passed(k, i) /\ \A m \in (j + 1)..(k - 1) : ~Passed(m, i)
    <3>1. \A m \in (j + 1)..(k - 1) : m \in 1..d
      BY <1>0
    <3>. QED  BY <1>5, <1>r, <3>1
  <2>2. stack[Cell(k, i)] = Value(j, i)
    BY <1>1, <1>s, <2>1 DEF WaitInCells
  <2>. QED  BY <1>10, <2>1, <2>2
<1>17. PushedKept'
  <2>. SUFFICES ASSUME NEW j \in 1..d, NEW i \in 0..(calls'[j].arity - 1),
                       i >= ArgRegisters, Passed(j, i)'
                PROVE  stack'[Cell(j, i)'] = Value(j, i)'
    BY <1>2 DEF PushedKept
  <2>1. i \in Nat /\ calls'[j].arity = calls[j].arity /\ Passed(j, i)
    BY <1>2, <1>5
  <2>2. stack[Cell(j, i)] = Value(j, i)
    BY <1>1, <1>s, <2>1 DEF PushedKept
  <2>. QED  BY <1>5, <1>10, <2>1, <2>2
<1>18. SlotsKept'
  <2>. SUFFICES ASSUME NEW j \in 1..d, Active(j)', NEW i \in 0..(Saves(j)' - 1)
                PROVE  stack'[calls'[j].base + 1 + i] = Value(j, i)'
    BY <1>2 DEF SlotsKept
  <2>1. i \in 0..(Saves(j) - 1) /\ Active(j)
    BY <1>5
  <2>2. stack[calls[j].base + 1 + i] = Value(j, i)
    BY <1>1, <1>s, <2>1 DEF SlotsKept
  <2>. QED  BY <1>2, <1>5, <1>10, <2>1, <2>2
<1>19. SavedInside'
  BY <1>2 DEF SavedInside
<1>20. LibraryCalls'
  <2>1. \A k \in 1..d : \A j \in 1..(k - 1) :
          j \in 1..d /\ \A m \in (j + 1)..(k - 1) : m \in 1..d
    BY <1>0
  <2>. SUFFICES ASSUME NEW k \in 1..d, calls'[k].library
                PROVE  /\ ~Active(k)' /\ calls'[k].arity <= ArgRegisters
                       /\ \A r \in Registers : r >= calls'[k].arity =>
                            \A j \in 1..(k - 1) :
                              Passed(j, r)' /\ ~Active(j)' => \E m \in (j + 1)..(k - 1) : Passed(m, r)'
    BY <1>2 DEF LibraryCalls
  <2>2. calls[k].library /\ k \in 1..Depth /\ calls'[k].arity = calls[k].arity
    BY <1>2, <1>s
  <2>3. /\ ~Active(k) /\ calls[k].arity <= ArgRegisters
        /\ \A r \in Registers : r >= calls[k].arity =>
             \A j \in 1..(k - 1) :
               Passed(j, r) /\ ~Active(j) => \E m \in (j + 1)..(k - 1) : Passed(m, r)
    BY <1>1, <2>2 DEF LibraryCalls
  <2>. QED  BY <1>5, <2>1, <2>2, <2>3
<1>. QED  BY <1>11, <1>12, <1>13, <1>14, <1>15, <1>16, <1>17, <1>18, <1>19, <1>20 DEF IInv

-----------------------------------------------------------------------------
(* The invariant *)

LEMMA IInvInit ==
  ASSUME Init
  PROVE  IInv
<1>. DEFINE main == [Begun(0, FALSE, 0) EXCEPT !.base = 2]
<1>1. /\ regs = [r \in Registers |-> 0] /\ stack = <<-1, 0>> /\ rbp = 2 /\ saved = FALSE
      /\ calls = <<main>>
  BY DEF Init
<1>2. /\ main.arity = 0 /\ main.left = 0 /\ main.library = FALSE /\ main.floor = 0
      /\ main.base = 2 /\ main.values = << >>
  <2>1. [i \in 1..0 |-> 0] = << >>
    OBVIOUS
  <2>. QED  BY <2>1 DEF Begun
<1>3. main \in Records
  <2>1. [i \in 1..0 |-> 0] \in Seq(Int)
    <3>1. [i \in 1..0 |-> 0] = << >>
      OBVIOUS
    <3>. QED  BY <3>1
  <2>2. 0 \in 0..MaxArity
    BY BoundsAssumption
  <2>. QED  BY <2>1, <2>2 DEF Begun, Records
<1>. HIDE DEF main
<1>4. /\ calls \in Seq(Records) /\ Depth = 1 /\ calls[1] = main
      /\ stack \in Seq(Int) /\ Len(stack) = 2 /\ stack[1] = -1 /\ stack[2] = 0
  BY <1>1, <1>3 DEF Depth
<1>5. \A j \in 1..Depth : j = 1
  BY <1>4
<1>6. Active(1) /\ Saves(1) = 0 /\ Height(1) = 2 /\ Top = 2 /\ \A i \in Int : ~Passed(1, i)
  BY <1>1, <1>2, <1>4, RegistersAssumption DEF Active, Saves, Height, Top, Passed, Smaller
<1>7. TypeOK
  <2>1. regs \in [Registers -> Int] /\ rbp \in Int /\ saved \in BOOLEAN
    <3>1. [r \in Registers |-> 0] \in [Registers -> Int]
      OBVIOUS
    <3>2. saved \in BOOLEAN
      <4>1. saved = FALSE
        BY <1>1
      <4>. QED  BY <4>1
    <3>3. regs \in [Registers -> Int]
      <4>1. regs = [r \in Registers |-> 0]
        BY <1>1
      <4>. QED  BY <3>1, <4>1
    <3>4. rbp \in Int
      <4>1. rbp = 2
        BY <1>1
      <4>. QED  BY <4>1
    <3>. QED  BY <3>2, <3>3, <3>4
  <2>2. Len(calls[1].values) = calls[1].arity /\ calls[1].left <= calls[1].arity
    BY <1>2, <1>4
  <2>. QED  BY <1>4, <1>5, <2>1, <2>2 DEF TypeOK
<1>8. Stacked /\ Balanced
  BY <1>2, <1>4, <1>5, <1>6 DEF Stacked, Balanced
<1>9. BasesChained
  BY <1>1, <1>2, <1>4, <1>5, <1>6 DEF BasesChained, Site
<1>10. \A i \in Registers : i \in Int
  BY RegistersAssumption DEF Registers
<1>11. WaitInRegisters /\ WaitInCells
  BY <1>5, <1>6, <1>10 DEF WaitInRegisters, WaitInCells
<1>12. PushedKept /\ SlotsKept
  <2>1. \A i \in 0..(calls[1].arity - 1) : i \in Int
    OBVIOUS
  <2>2. PushedKept
    BY <1>5, <1>6, <2>1 DEF PushedKept
  <2>3. SlotsKept
    BY <1>5, <1>6 DEF SlotsKept
  <2>. QED  BY <2>2, <2>3
<1>13. SavedInside /\ LibraryCalls
  BY <1>1, <1>2, <1>4, <1>5 DEF SavedInside, LibraryCalls
<1>. QED  BY <1>7, <1>8, <1>9, <1>11, <1>12, <1>13 DEF IInv

LEMMA IInvStep ==
  ASSUME Careful, IInv, [Next]_vars
  PROVE  IInv'
<1>0. TypeOK /\ SavedInside
  BY DEF IInv
<1>1. CASE \E n \in 0..MaxArity, library \in BOOLEAN : BeginCall(n, library)
  BY <1>1, BeginCallKeeps
<1>2. CASE \E v \in Values : CallParameter(v)
  BY <1>2, CallParameterKeeps
<1>3. CASE FunctionCall
  BY <1>3, FunctionCallKeeps
<1>4. CASE Return
  BY <1>4, ReturnPops, PopsKeeps
<1>5. CASE \E left \in [Registers -> Junk] : LibraryCall(left)
  BY <1>5, LibraryCallPops, PopsKeeps, WordsAssumption
<1>6. CASE \E w \in Junk : Division(w)
  BY <1>0, <1>6, ClobberQuiet, QuietKeeps
<1>7. CASE \E w \in Junk : ShiftOrCompare(w)
  BY <1>0, <1>7, ClobberQuiet, QuietKeeps
<1>8. CASE \E w \in Junk : SaveData(w)
  BY <1>0, <1>8, SaveDataQuiet, QuietKeeps
<1>9. CASE RestoreData
  BY <1>0, <1>9, RestoreDataQuiet, QuietKeeps
<1>10. CASE LocalArrayAccess
  BY <1>0, <1>10, LocalArrayAccessLeaks, LeaksKeeps
<1>11. CASE UNCHANGED vars
  <2>1. /\ \A j : Active(j)' = Active(j) /\ Height(j)' = Height(j) /\ Saves(j)' = Saves(j)
        /\ \A j, i : /\ Passed(j, i)' = Passed(j, i) /\ Cell(j, i)' = Cell(j, i)
                     /\ Value(j, i)' = Value(j, i)
        /\ Depth' = Depth /\ Top' = Top /\ Settled' = Settled /\ Inner' = Inner
    BY <1>11 DEF vars, Active, Height, Saves, Passed, Cell, Value, Depth, Top, Settled, Word, Inner
  <2>2. /\ regs' = regs /\ stack' = stack /\ rbp' = rbp /\ saved' = saved /\ calls' = calls
    BY <1>11 DEF vars
  <2>3. TypeOK' /\ Stacked' /\ Balanced' /\ BasesChained'
    BY SMTT(60), <2>1, <2>2 DEF IInv, TypeOK, Stacked, Balanced, BasesChained, Site
  <2>4. WaitInRegisters' /\ WaitInCells' /\ PushedKept' /\ SlotsKept'
    BY <2>1, <2>2 DEF IInv, WaitInRegisters, WaitInCells, PushedKept, SlotsKept
  <2>5. SavedInside' /\ LibraryCalls'
    BY <2>1, <2>2 DEF IInv, SavedInside, LibraryCalls
  <2>. QED  BY <2>3, <2>4, <2>5 DEF IInv
<1>. QED  BY <1>1, <1>2, <1>3, <1>4, <1>5, <1>6, <1>7, <1>8, <1>9, <1>10, <1>11 DEF Next

-----------------------------------------------------------------------------
(* What the invariant says of the words that functions read *)

LEMMA IInvArrive ==
  ASSUME IInv
  PROVE  ArgumentsArrive
<1>. SUFFICES ASSUME NEW j \in 1..Depth, Active(j), NEW i \in 0..(calls[j].arity - 1)
              PROVE  Value(j, i) = IF i < ArgRegisters THEN Word(calls[j].base + 1 + i)
                                                       ELSE Word(calls[j].base - 2 - i)
  BY DEF ArgumentsArrive
<1>1. TypeOK /\ Stacked /\ Balanced /\ PushedKept /\ SlotsKept
  BY DEF IInv
<1>2. /\ calls[j].arity \in Nat /\ calls[j].floor \in Nat /\ calls[j].left = 0 /\ i \in Nat
      /\ i < calls[j].arity
      /\ calls[j].base = calls[j].floor + calls[j].arity + 2
  BY SMTT(60), <1>1, Typed DEF Balanced
<1>3. Height(j) \in Nat /\ Len(stack) \in Nat /\ Height(j) <= Len(stack)
  BY <1>1, Typed, WordsBelow DEF Stacked, Top
<1>4. \A h \in 1..Height(j) : Word(h) = stack[h]
  <2>1. \A h \in 1..Height(j) : h \in 1..Len(stack)
    BY <1>3
  <2>. QED  BY <2>1 DEF Word
<1>5. CASE i < ArgRegisters
  <2>1. i \in 0..(Saves(j) - 1)
    BY <1>2, <1>5, RegistersAssumption DEF Saves, Smaller
  <2>2. calls[j].base + 1 + i \in 1..Height(j)
    BY <1>1, <2>1, WordsBelow
  <2>3. stack[calls[j].base + 1 + i] = Value(j, i)
    BY <1>1, <2>1 DEF SlotsKept
  <2>. QED  BY <1>4, <1>5, <2>2, <2>3
<1>6. CASE ~ (i < ArgRegisters)
  <2>1. Passed(j, i) /\ Cell(j, i) = calls[j].base - 2 - i /\ i >= ArgRegisters
    BY <1>2, <1>6, RegistersAssumption DEF Passed, Cell
  <2>2. Cell(j, i) \in 1..Height(j)
    BY <1>1, <1>2, <2>1, WordsBelow
  <2>3. stack[Cell(j, i)] = Value(j, i)
    BY <1>1, <2>1 DEF PushedKept
  <2>. QED  BY <1>4, <1>6, <2>1, <2>2, <2>3
<1>. QED  BY <1>5, <1>6

LEMMA IInvReady ==
  ASSUME IInv
  PROVE  ArgumentsReady
<1>1. TypeOK /\ Stacked /\ Balanced /\ WaitInRegisters /\ PushedKept /\ LibraryCalls
  BY DEF IInv
<1>. SUFFICES ASSUME ~Active(Depth), calls[Depth].left = 0,
                     NEW i \in 0..(calls[Depth].arity - 1)
              PROVE  Value(Depth, i) =
                       IF i < ArgRegisters THEN Settled[i]
                       ELSE IF calls[Depth].library THEN Word(Top - (i - ArgRegisters))
                                                    ELSE Word(Top - i)
  BY <1>1, Typed DEF ArgumentsReady
<1>2. /\ Depth \in 1..Depth /\ Depth \in Nat /\ Len(stack) \in Nat
      /\ calls[Depth].arity \in Nat /\ calls[Depth].floor \in Nat
      /\ i \in Nat /\ i < calls[Depth].arity
  BY <1>1, Typed
<1>3. Passed(Depth, i) /\ Top = calls[Depth].floor + calls[Depth].arity
  BY <1>1, <1>2 DEF Passed, Balanced, Height
<1>4. CASE i < ArgRegisters
  <2>1. i \in Registers
    BY <1>2, <1>4, RegistersAssumption DEF Registers
  <2>2. \A k \in (Depth + 1)..Depth : ~Passed(k, i)
    BY <1>2
  <2>3. Settled[i] = Value(Depth, i)
    BY <1>1, <1>2, <1>3, <2>1, <2>2 DEF WaitInRegisters
  <2>. QED  BY <1>4, <2>3
<1>5. CASE ~ (i < ArgRegisters)
  <2>1. i >= ArgRegisters /\ ~calls[Depth].library
    BY <1>1, <1>2, <1>5, RegistersAssumption DEF LibraryCalls
  <2>2. Cell(Depth, i) = Top - i
    BY SMTT(60), <1>2, <1>3 DEF Cell
  <2>3. Top <= Len(stack) /\ Height(Depth) <= Top /\ Height(Depth) \in Nat
        /\ Cell(Depth, i) \in 1..Height(Depth)
    BY <1>1, <1>2, <1>3, WordsBelow DEF Stacked, Top
  <2>4. Cell(Depth, i) \in 1..Len(stack)
    BY <1>2, <1>3, <2>3
  <2>5. stack[Cell(Depth, i)] = Value(Depth, i)
    BY <1>1, <1>2, <1>3, <2>1 DEF PushedKept
  <2>. QED  BY <1>5, <2>1, <2>2, <2>4, <2>5 DEF Word
<1>. QED  BY <1>4, <1>5

LEMMA IInvReturns ==
  ASSUME IInv
  PROVE  ReturnsIntact
<1>1. TypeOK /\ Stacked /\ Balanced /\ BasesChained
  BY DEF IInv
<1>. SUFFICES ASSUME NEW k \in 1..Depth, Active(k)
              PROVE  /\ Word(calls[k].base - 1) = Site(k)
                     /\ \A j \in 1..(k - 1) :
                          (Active(j) /\ \A m \in (j + 1)..(k - 1) : ~Active(m))
                            => Word(calls[k].base) = calls[j].base
  BY DEF ReturnsIntact
<1>2. Height(k) \in Nat /\ Len(stack) \in Nat /\ Height(k) <= Len(stack) /\ Depth \in Nat
  BY <1>1, Typed, WordsBelow DEF Stacked, Top
<1>3. calls[k].base - 1 \in 1..Len(stack) /\ calls[k].base \in 1..Len(stack)
  <2>1. calls[k].base - 1 \in 1..Height(k) /\ calls[k].base \in 1..Height(k)
    BY <1>1, WordsBelow
  <2>. QED  BY <1>2, <2>1
<1>4. Word(calls[k].base - 1) = Site(k)
  BY <1>1, <1>3 DEF BasesChained, Word
<1>5. \A j \in 1..(k - 1) : j \in 1..Depth /\ j < k
  BY <1>2
<1>6. \A j \in 1..(k - 1) :
        (Active(j) /\ \A m \in (j + 1)..(k - 1) : ~Active(m)) => stack[calls[k].base] = calls[j].base
  BY <1>1, <1>5 DEF BasesChained
<1>. QED  BY <1>3, <1>4, <1>6 DEF Word

-----------------------------------------------------------------------------
(* The invariant is inductive: it holds of every run of a careful program,   *)
(* from Init, IInvStep and the lemmas on each action.                        *)
THEOREM Invariant ==
  ASSUME Careful
  PROVE  Spec => []IInv
<1>1. Init => IInv
  BY IInvInit
<1>2. IInv /\ [Next]_vars => IInv'
  BY IInvStep
<1>. QED  BY <1>1, <1>2, PTL DEF Spec

(* The registers and the stack hold words whatever the program calls: the    *)
(* pops of visitFunctionCall and visitEpilog never leave the stack.          *)
THEOREM TypeCorrect ==
  ASSUME Careful
  PROVE  Spec => []TypeOK
<1>1. IInv => TypeOK
  BY DEF IInv
<1>. QED  BY <1>1, Invariant, PTL

(* A function reads the values its arguments had when they were evaluated,   *)
(* in registers and on the stack (visitCallParameter, visitFunctionCall).    *)
THEOREM ArgumentsAlwaysArrive ==
  ASSUME Careful
  PROVE  Spec => []ArgumentsArrive
<1>1. IInv => ArgumentsArrive
  BY IInvArrive
<1>. QED  BY <1>1, Invariant, PTL

(* A call about to be made finds its arguments where the callee reads them.  *)
THEOREM ArgumentsAlwaysReady ==
  ASSUME Careful
  PROVE  Spec => []ArgumentsReady
<1>1. IInv => ArgumentsReady
  BY IInvReady
<1>. QED  BY <1>1, Invariant, PTL

(* Every active function returns to its call site, with its caller's %rbp.   *)
THEOREM ReturnsAlwaysIntact ==
  ASSUME Careful
  PROVE  Spec => []ReturnsIntact
<1>1. IInv => ReturnsIntact
  BY IInvReturns
<1>. QED  BY <1>1, Invariant, PTL

-----------------------------------------------------------------------------
(* The refinement *)

(* A set of naturals that is not empty has a least one.                      *)
LEMMA Minimum ==
  ASSUME NEW T, T \subseteq Nat, T # {}
  PROVE  \E x \in T : \A y \in T : x <= y
<1>1. PICK x \in T : \A y \in T : <<y, x>> \notin OpToRel(<, Nat)
  BY WFMin, NatLessThanWellFounded
<1>2. \A y \in T : ~ (y < x)
  <2>. SUFFICES ASSUME NEW y \in T, y < x PROVE FALSE
    OBVIOUS
  <2>1. <<y, x>> \in Nat \X Nat /\ <<y, x>>[1] < <<y, x>>[2]
    OBVIOUS
  <2>. QED  BY <1>1, <2>1 DEF OpToRel
<1>. QED  BY <1>2

-----------------------------------------------------------------------------
(* The mapping *)

(* What call j looks like in Calls.                                          *)
Seen(j) ==
  [arity |-> calls[j].arity, left |-> calls[j].left, entered |-> Active(j),
   args |-> [i \in 0..(calls[j].arity - 1) |-> IF Passed(j, i) THEN Value(j, i) ELSE 0]]

LEMMA PlaceHoldsValue ==
  ASSUME IInv, NEW j \in 1..Depth, NEW i \in 0..(calls[j].arity - 1), Passed(j, i)
  PROVE  Place(j, i) = Value(j, i)
<1>1. TypeOK /\ Stacked /\ Balanced /\ WaitInRegisters /\ WaitInCells /\ PushedKept
  BY DEF IInv
<1>2. \A k \in 1..Depth : Passed(k, i) => Word(Cell(k, i)) = stack[Cell(k, i)]
  <2>. SUFFICES ASSUME NEW k \in 1..Depth, Passed(k, i)
                PROVE  Word(Cell(k, i)) = stack[Cell(k, i)]
    OBVIOUS
  <2>1. i \in Nat /\ Cell(k, i) \in 1..Height(k)
    BY <1>1, WordsBelow
  <2>2. Height(k) \in Nat /\ Len(stack) \in Nat /\ Height(k) <= Len(stack)
    BY <1>1, Typed, WordsBelow DEF Stacked, Top
  <2>3. Cell(k, i) \in 1..Len(stack)
    BY <2>1, <2>2
  <2>. QED  BY <2>3 DEF Word
<1>3. CASE Active(j)
  <2>1. Value(j, i) = IF i < ArgRegisters THEN Word(calls[j].base + 1 + i)
                                          ELSE Word(calls[j].base - 2 - i)
    BY <1>3, IInvArrive DEF ArgumentsArrive
  <2>. QED  BY <1>3, <2>1 DEF Place
<1>4. CASE ~Active(j) /\ i >= ArgRegisters
  BY <1>1, <1>2, <1>4 DEF Place, PushedKept
<1>5. CASE ~Active(j) /\ ~ (i >= ArgRegisters)
  <2>. DEFINE later == {k \in (j + 1)..Depth : Passed(k, i)}
  <2>0. i \in Registers /\ Depth \in Nat
    BY <1>1, <1>5, Typed, RegistersAssumption DEF Registers
  <2>1. CASE later = {}
    <3>1. Settled[i] = Value(j, i)
      BY <1>1, <1>5, <2>0, <2>1 DEF WaitInRegisters
    <3>. QED  BY <1>5, <2>1, <3>1 DEF Place
  <2>2. CASE later # {}
    <3>. DEFINE next == CHOOSE k \in later : \A m \in later : k <= m
    <3>1. later \subseteq Nat
      OBVIOUS
    <3>2. next \in later /\ \A m \in later : next <= m
      <4>1. \E k \in later : \A m \in later : k <= m
        BY <2>2, <3>1, Minimum
      <4>. HIDE DEF later
      <4>. QED  BY <4>1
    <3>3. Place(j, i) = Word(Cell(next, i))
      BY <1>5, <2>2 DEF Place
    <3>. HIDE DEF next
    <3>4. /\ next \in 1..Depth /\ j < next /\ Passed(next, i)
          /\ \A m \in (j + 1)..(next - 1) : ~Passed(m, i)
      <4>1. next \in (j + 1)..Depth /\ Passed(next, i)
        BY <3>2
      <4>2. next \in 1..Depth /\ j < next
        BY <4>1
      <4>3. \A m \in (j + 1)..(next - 1) : m \in (j + 1)..Depth /\ ~ (next <= m)
        BY <2>0, <4>1
      <4>4. \A m \in (j + 1)..(next - 1) : ~Passed(m, i)
        BY <3>2, <4>3
      <4>. QED  BY <4>1, <4>2, <4>4
    <3>5. stack[Cell(next, i)] = Value(j, i)
      BY <1>1, <1>5, <2>0, <3>4 DEF WaitInCells
    <3>. QED  BY <1>2, <3>3, <3>4, <3>5
  <2>. QED  BY <2>1, <2>2
<1>. QED  BY <1>3, <1>4, <1>5

LEMMA MappedIsSeen ==
  IInv => Mapped = [j \in 1..Depth |-> Seen(j)]
<1>. SUFFICES ASSUME IInv PROVE Mapped = [j \in 1..Depth |-> Seen(j)]
  OBVIOUS
<1>1. \A j \in 1..Depth :
        [i \in 0..(calls[j].arity - 1) |-> IF Passed(j, i) THEN Place(j, i) ELSE 0]
          = [i \in 0..(calls[j].arity - 1) |-> IF Passed(j, i) THEN Value(j, i) ELSE 0]
  <2>. SUFFICES ASSUME NEW j \in 1..Depth
                PROVE  \A i \in 0..(calls[j].arity - 1) :
                         Passed(j, i) => Place(j, i) = Value(j, i)
    OBVIOUS
  <2>. QED  BY PlaceHoldsValue
<1>. QED  BY <1>1 DEF Mapped, Seen

-----------------------------------------------------------------------------
(* Sequences given as functions *)

LEMMA Longer ==
  ASSUME NEW n \in Nat, NEW f, f = [j \in 1..n |-> f[j]],
         NEW g, g = [j \in 1..(n + 1) |-> g[j]],
         \A j \in 1..n : g[j] = f[j]
  PROVE  Len(f) = n /\ g = Append(f, g[n + 1])
<1>. DEFINE S == {g[j] : j \in 1..(n + 1)}
            a == Append(f, g[n + 1])
<1>1. f \in Seq(S) /\ Len(f) = n
  <2>1. \A j \in 1..n : j \in 1..(n + 1) /\ f[j] = g[j]
    OBVIOUS
  <2>2. \A j \in 1..n : f[j] \in S
    BY <2>1
  <2>. HIDE DEF S
  <2>. QED  BY <2>2, IsASeq
<1>2. g \in Seq(S) /\ Len(g) = n + 1
  <2>1. \A j \in 1..(n + 1) : g[j] \in S
    OBVIOUS
  <2>2. n + 1 \in Nat
    OBVIOUS
  <2>. HIDE DEF S
  <2>. QED  BY <2>1, <2>2, IsASeq
<1>3. g[n + 1] \in S
  OBVIOUS
<1>. HIDE DEF S
<1>4. /\ a \in Seq(S) /\ Len(a) = n + 1 /\ a[n + 1] = g[n + 1]
      /\ \A j \in 1..n : a[j] = f[j]
  BY <1>1, <1>3, AppendProperties
<1>. HIDE DEF a
<1>5. \A j \in 1..(n + 1) : j \in 1..n \/ j = n + 1
  OBVIOUS
<1>6. \A j \in 1..Len(g) : g[j] = a[j]
  BY <1>2, <1>4, <1>5
<1>7. g = a
  BY <1>2, <1>4, <1>6, SeqEqual
<1>. QED  BY <1>1, <1>7 DEF a

LEMMA SubSeqFromFirst ==
  ASSUME NEW S, NEW s, NEW n \in Nat, \A k \in 1..n : s[k] \in S
  PROVE  /\ SubSeq(s, 1, n) \in Seq(S)
         /\ Len(SubSeq(s, 1, n)) = IF 1 <= n THEN n - 1 + 1 ELSE 0
         /\ \A k \in 1..(n - 1 + 1) : SubSeq(s, 1, n)[k] = s[1 + k - 1]
  BY SubSeqProperties

LEMMA Shorter ==
  ASSUME NEW m \in Nat, NEW f, f = [j \in 1..(m + 1) |-> f[j]],
         NEW g, g = [j \in 1..m |-> g[j]],
         \A j \in 1..m : g[j] = f[j]
  PROVE  Len(f) = m + 1 /\ g = SubSeq(f, 1, m)
<1>. DEFINE S == {f[j] : j \in 1..(m + 1)}
            t == SubSeq(f, 1, m)
<1>1. \A j \in 1..(m + 1) : f[j] \in S
  OBVIOUS
<1>2. \A j \in 1..m : f[j] \in S /\ g[j] \in S
  <2>1. \A j \in 1..m : j \in 1..(m + 1)
    OBVIOUS
  <2>. QED  BY <1>1, <2>1
<1>. HIDE DEF S
<1>3. g \in Seq(S) /\ Len(g) = m
  <2>1. \A j \in 1..m : g[j] \in S
    BY <1>2
  <2>. QED  BY <2>1, IsASeq
<1>4. f \in Seq(S) /\ Len(f) = m + 1
  <2>1. m + 1 \in Nat
    OBVIOUS
  <2>. QED  BY <1>1, <2>1, IsASeq
<1>5. /\ t \in Seq(S) /\ Len(t) = m
      /\ \A j \in 1..m : t[j] = f[j]
  <2>1. m - 1 + 1 = m /\ (1 <= m \/ m = 0) /\ \A k \in 1..m : 1 + k - 1 = k
    OBVIOUS
  <2>2. /\ SubSeq(f, 1, m) \in Seq(S)
        /\ Len(SubSeq(f, 1, m)) = IF 1 <= m THEN m - 1 + 1 ELSE 0
        /\ \A k \in 1..(m - 1 + 1) : SubSeq(f, 1, m)[k] = f[1 + k - 1]
    <3>1. \A k \in 1..m : f[k] \in S
      BY <1>2
    <3>. QED  BY SMTT(60), <3>1, SubSeqFromFirst
  <2>. QED  BY <2>1, <2>2
<1>. HIDE DEF t
<1>6. \A j \in 1..Len(g) : g[j] = t[j]
  BY <1>3, <1>5
<1>7. g = t
  BY <1>3, <1>5, <1>6, SeqEqual
<1>. QED  BY <1>4, <1>7 DEF t

-----------------------------------------------------------------------------
(* Records with a field changed.                                             *)
LEMMA Evaluated ==
  ASSUME NEW x, NEW r, NEW v, NEW p, NEW s, x.left - 1 = p, x.args = r, s = [r EXCEPT ![p] = v]
  PROVE  [x EXCEPT !.left = @ - 1, !.args[x.left - 1] = v] = [[x EXCEPT !.left = p] EXCEPT !.args = s]
  OBVIOUS

LEMMA Left ==
  ASSUME NEW x, NEW a, NEW l, NEW e, NEW r, NEW p,
         x = [arity |-> a, left |-> l, entered |-> e, args |-> r]
  PROVE  [x EXCEPT !.left = p] = [arity |-> a, left |-> p, entered |-> e, args |-> r]
  OBVIOUS

LEMMA Args ==
  ASSUME NEW x, NEW a, NEW l, NEW e, NEW r, NEW s,
         x = [arity |-> a, left |-> l, entered |-> e, args |-> r]
  PROVE  [x EXCEPT !.args = s] = [arity |-> a, left |-> l, entered |-> e, args |-> s]
  OBVIOUS

LEMMA Entered ==
  ASSUME NEW x, NEW a, NEW l, NEW e, NEW r, NEW b,
         x = [arity |-> a, left |-> l, entered |-> e, args |-> r]
  PROVE  [x EXCEPT !.entered = b] = [arity |-> a, left |-> l, entered |-> b, args |-> r]
  OBVIOUS

-----------------------------------------------------------------------------
(* The calls seen after each kind of step *)

Acts == [j \in 1..Depth |-> Seen(j)]

Faithful == Acts = Mapped

LEMMA BeginCallBegins ==
  ASSUME IInv, Acts = Mapped, Acts' = Mapped',
         NEW n \in 0..MaxArity, NEW library \in BOOLEAN, BeginCall(n, library)
  PROVE  Promise!Begin(n)
<1>1. TypeOK /\ Balanced
  BY DEF IInv
<1>0. PICK d \in Nat : d = Depth /\ d > 0 /\ d \in 1..d
  BY <1>1, Typed
<1>. DEFINE c == Begun(n, library, Len(stack))
<1>2. /\ Depth' = d + 1 /\ \A j \in 1..d : calls'[j] = calls[j]
      /\ calls'[d + 1] = c
  BY <1>0, <1>1, BeginCallFacts
<1>3. c.arity = n /\ c.left = n /\ c.base = 0 /\ n \in Nat
  BY BoundsAssumption DEF Begun
<1>4. Depth < MaxCalls /\ (Active(Depth) \/ calls[Depth].left > 0)
  BY <1>1, Typed DEF BeginCall, Evaluating
<1>. HIDE DEF c
<1>5. \A j \in 1..d : Seen(j)' = Seen(j)
  BY <1>2 DEF Seen, Active, Passed, Value
<1>6. Seen(d + 1)' = Promise!Act(n)
  <2>1. ~Active(d + 1)' /\ calls'[d + 1].arity = n /\ calls'[d + 1].left = n
    BY <1>2, <1>3 DEF Active
  <2>2. \A i \in 0..(n - 1) : ~Passed(d + 1, i)'
    BY <1>3, <2>1 DEF Passed
  <2>3. [i \in 0..(n - 1) |-> IF Passed(d + 1, i)' THEN Value(d + 1, i)' ELSE 0]
          = [i \in 0..(n - 1) |-> 0]
    BY <2>2
  <2>4. Seen(d + 1)' = [arity |-> n, left |-> n, entered |-> FALSE,
                        args |-> [i \in 0..(n - 1) |-> 0]]
    <3>1. Active(d + 1)' = FALSE
      BY <2>1
    <3>. QED  BY <2>1, <2>3, <3>1 DEF Seen
  <2>. QED  BY <2>4 DEF Promise!Act, Promise!NotEvaluated
<1>7. Len(Acts) = d /\ Acts' = Append(Acts, Acts'[d + 1])
  <2>1. Acts = [j \in 1..d |-> Acts[j]] /\ Acts' = [j \in 1..(d + 1) |-> Acts'[j]]
    BY <1>0, <1>2 DEF Acts
  <2>2. \A j \in 1..d : Acts'[j] = Acts[j]
    BY <1>0, <1>2, <1>5 DEF Acts
  <2>. QED  BY <2>1, <2>2, Longer
<1>8. Acts'[d + 1] = Promise!Act(n)
  BY <1>2, <1>6 DEF Acts
<1>9. Acts[d].entered = Active(d) /\ Acts[d].left = calls[d].left
  BY <1>0 DEF Acts, Seen
<1>. QED  BY <1>0, <1>4, <1>7, <1>8, <1>9 DEF Promise!Begin, Promise!Last

LEMMA CallParameterEvaluates ==
  ASSUME IInv, Acts = Mapped, Acts' = Mapped', NEW v \in Values, CallParameter(v)
  PROVE  Promise!Evaluate(v)
<1>1. TypeOK
  BY DEF IInv
<1>0. PICK d \in Nat, p \in Nat : d = Depth /\ d > 0 /\ p = calls[d].left - 1 /\ p < calls[d].arity
  BY <1>1, CallParameterFacts, Typed
<1>2. ~Active(d) /\ calls[d].left > 0
  BY <1>0, <1>1, Typed DEF CallParameter
<1>3. /\ Becomes([calls[d] EXCEPT !.left = p, !.values = [@ EXCEPT ![p + 1] = v]])
      /\ \A k \in 1..calls[d].arity :
           calls'[d].values[k] = IF k = p + 1 THEN v ELSE calls[d].values[k]
  BY <1>0, <1>1, CallParameterFacts
<1>4. d \in 1..d /\ calls[d] \in Records /\ calls[d].arity \in Nat /\ calls[d].left = p + 1
  BY <1>0, <1>1, Typed
<1>5. /\ Depth' = d /\ \A j \in 1..d : j # d => calls'[j] = calls[j]
      /\ calls'[d].arity = calls[d].arity /\ calls'[d].left = p
      /\ calls'[d].base = calls[d].base
  <2>1. calls'[d] = [calls[d] EXCEPT !.left = p, !.values = [@ EXCEPT ![p + 1] = v]]
    BY <1>0, <1>3 DEF Becomes
  <2>2. calls'[d].arity = calls[d].arity /\ calls'[d].left = p /\ calls'[d].base = calls[d].base
    BY <1>4, <2>1 DEF Records
  <2>. QED  BY <1>0, <1>3, <2>2 DEF Becomes
<1>6. \A j \in 1..d : j # d => Seen(j)' = Seen(j)
  BY <1>5 DEF Seen, Active, Passed, Value
<1>7. \E r : /\ Seen(d) = [arity |-> calls[d].arity, left |-> p + 1,
                           entered |-> Active(d), args |-> r]
            /\ Seen(d)' = [arity |-> calls[d].arity, left |-> p,
                            entered |-> Active(d), args |-> [r EXCEPT ![p] = v]]
  <2>. DEFINE old == [i \in 0..(calls[d].arity - 1) |-> IF Passed(d, i) THEN Value(d, i) ELSE 0]
              new == [i \in 0..(calls[d].arity - 1) |-> IF Passed(d, i)' THEN Value(d, i)' ELSE 0]
  <2>1. new = [old EXCEPT ![p] = v]
    <3>. SUFFICES ASSUME NEW i \in 0..(calls[d].arity - 1)
                  PROVE  new[i] = IF i = p THEN v ELSE old[i]
      OBVIOUS
    <3>1. i \in Nat /\ i < calls[d].arity /\ i + 1 \in 1..calls[d].arity
      BY <1>4
    <3>2. /\ Passed(d, i)' <=> p <= i
          /\ Passed(d, i) <=> p + 1 <= i
      BY <1>4, <1>5, <3>1 DEF Passed
    <3>3. Value(d, i)' = IF i = p THEN v ELSE Value(d, i)
      <4>1. i + 1 = p + 1 <=> i = p
        BY <1>0, <3>1
      <4>. QED  BY <1>3, <3>1, <4>1 DEF Value
    <3>4. CASE i = p
      BY <1>0, <3>2, <3>3, <3>4
    <3>5. CASE i # p
      BY <1>0, <3>1, <3>2, <3>3, <3>5
    <3>. QED  BY <3>4, <3>5
  <2>2. Active(d)' = Active(d)
    BY <1>5 DEF Active
  <2>3. Seen(d)' = [arity |-> calls[d].arity, left |-> p, entered |-> Active(d), args |-> new]
    BY <1>5, <2>2 DEF Seen
  <2>4. Seen(d) = [arity |-> calls[d].arity, left |-> p + 1, entered |-> Active(d),
                   args |-> old]
    BY <1>4 DEF Seen
  <2>. HIDE DEF old, new
  <2>. QED  BY <2>1, <2>3, <2>4
<1>8. Len(Acts) = d
  BY <1>0 DEF Acts
<1>9. Acts[d] = Seen(d)
  BY <1>0, <1>4 DEF Acts
<1>10. Acts' = [Acts EXCEPT ![d] = Seen(d)']
  BY <1>0, <1>4, <1>5, <1>6 DEF Acts
<1>11. Seen(d).left = p + 1 /\ Seen(d).entered = Active(d) /\ p + 1 - 1 = p
  BY <1>0, <1>4 DEF Seen
<1>12. Promise!Last = Seen(d) /\ Len(Mapped) = d /\ Mapped' = Acts' /\ Mapped = Acts
  BY <1>8, <1>9 DEF Promise!Last
<1>13. ~Promise!Last.entered /\ Promise!Last.left > 0
  BY <1>0, <1>2, <1>11, <1>12
<1>14. Mapped' = [Mapped EXCEPT ![Len(Mapped)] =
                   [Promise!Last EXCEPT !.left = @ - 1, !.args[Promise!Last.left - 1] = v]]
  <2>1. PICK r, e, a, l, x :
          /\ e = Active(d) /\ a = calls[d].arity /\ l = p + 1 /\ x = Seen(d)
          /\ Seen(d) = [arity |-> a, left |-> l, entered |-> e, args |-> r]
          /\ Seen(d)' = [arity |-> a, left |-> p, entered |-> e, args |-> [r EXCEPT ![p] = v]]
    BY <1>7
  <2>2. x.left - 1 = p
    BY <1>11, <2>1
  <2>3. x = [arity |-> a, left |-> l, entered |-> e, args |-> r]
    BY <2>1
  <2>4. [x EXCEPT !.left = @ - 1, !.args[x.left - 1] = v] = Seen(d)'
    <3>1. [x EXCEPT !.left = @ - 1, !.args[x.left - 1] = v]
            = [arity |-> a, left |-> p, entered |-> e, args |-> [r EXCEPT ![p] = v]]
      <4>1. PICK s, y : s = [r EXCEPT ![p] = v] /\ y = [x EXCEPT !.left = p]
        OBVIOUS
      <4>2. x.args = r
        BY <2>3
      <4>3. [x EXCEPT !.left = @ - 1, !.args[x.left - 1] = v] = [y EXCEPT !.args = s]
        BY <2>2, <4>1, <4>2, Evaluated, ZenonT(60)
      <4>4. y = [arity |-> a, left |-> p, entered |-> e, args |-> r]
        BY <2>3, <4>1, Left, ZenonT(60)
      <4>5. [y EXCEPT !.args = s] = [arity |-> a, left |-> p, entered |-> e, args |-> s]
        BY <4>4, Args
      <4>. QED  BY <4>1, <4>3, <4>5, Zenon
    <3>. QED  BY <2>1, <3>1, Zenon
  <2>. QED  BY <1>10, <1>12, <2>1, <2>4, Zenon
<1>. QED  BY <1>13, <1>14 DEF Promise!Evaluate, Promise!Replace

LEMMA FunctionCallEnters ==
  ASSUME IInv, Acts = Mapped, Acts' = Mapped', FunctionCall
  PROVE  Promise!Enter
<1>1. TypeOK
  BY DEF IInv
<1>0. PICK d \in Nat, len \in Nat : d = Depth /\ d > 0 /\ len = Len(stack)
  BY <1>1, Typed
<1>2. ~Active(d) /\ calls[d].left = 0
  BY <1>0, <1>1, Typed DEF FunctionCall
<1>3. Becomes([calls[d] EXCEPT !.base = len + 2])
  BY <1>0, <1>1, FunctionCallFacts
<1>4. d \in 1..d /\ calls[d] \in Records
  BY <1>0, <1>1, Typed
<1>5. /\ Depth' = d /\ \A j \in 1..d : j # d => calls'[j] = calls[j]
      /\ calls'[d].arity = calls[d].arity /\ calls'[d].left = calls[d].left
      /\ calls'[d].base = len + 2 /\ calls'[d].values = calls[d].values
  <2>1. calls'[d] = [calls[d] EXCEPT !.base = len + 2]
    BY <1>0, <1>3 DEF Becomes
  <2>2. calls'[d].arity = calls[d].arity /\ calls'[d].left = calls[d].left
        /\ calls'[d].base = len + 2 /\ calls'[d].values = calls[d].values
    BY <1>4, <2>1 DEF Records
  <2>. QED  BY <1>0, <1>3, <2>2 DEF Becomes
<1>6. \A j \in 1..d : j # d => Seen(j)' = Seen(j)
  BY <1>5 DEF Seen, Active, Passed, Value
<1>7. Seen(d)' = [Seen(d) EXCEPT !.entered = TRUE]
  <2>1. Active(d)' = TRUE
    BY <1>5 DEF Active
  <2>2. \A i : Passed(d, i)' = Passed(d, i) /\ Value(d, i)' = Value(d, i)
    BY <1>5 DEF Passed, Value
  <2>3. Seen(d)' = [arity |-> calls[d].arity, left |-> calls[d].left, entered |-> TRUE,
                    args |-> [i \in 0..(calls[d].arity - 1) |->
                                IF Passed(d, i) THEN Value(d, i) ELSE 0]]
    BY <1>5, <2>1, <2>2 DEF Seen
  <2>4. Seen(d) = [arity |-> calls[d].arity, left |-> calls[d].left, entered |-> Active(d),
                   args |-> [i \in 0..(calls[d].arity - 1) |->
                               IF Passed(d, i) THEN Value(d, i) ELSE 0]]
    BY DEF Seen
  <2>. DEFINE args == [i \in 0..(calls[d].arity - 1) |->
                         IF Passed(d, i) THEN Value(d, i) ELSE 0]
  <2>. HIDE DEF args
  <2>5. /\ Seen(d)' = [arity |-> calls[d].arity, left |-> calls[d].left, entered |-> TRUE,
                       args |-> args]
        /\ Seen(d) = [arity |-> calls[d].arity, left |-> calls[d].left, entered |-> Active(d),
                      args |-> args]
    BY <2>3, <2>4 DEF args
  <2>6. PICK e, b, a, l, x, y :
          /\ e = Active(d) /\ b = TRUE /\ a = calls[d].arity /\ l = calls[d].left
          /\ x = Seen(d) /\ y = Seen(d)'
    OBVIOUS
  <2>7. /\ x = [arity |-> a, left |-> l, entered |-> e, args |-> args]
        /\ y = [arity |-> a, left |-> l, entered |-> b, args |-> args]
    BY <2>5, <2>6, Zenon
  <2>8. y = [x EXCEPT !.entered = b]
    <3>1. [x EXCEPT !.entered = b] = [arity |-> a, left |-> l, entered |-> b, args |-> args]
      BY <2>7, Entered
    <3>. QED  BY <2>7, <3>1, Zenon
  <2>. QED  BY <2>6, <2>8, Zenon
<1>8. Len(Acts) = d
  BY <1>0 DEF Acts
<1>9. Acts[d] = Seen(d)
  BY <1>0, <1>4 DEF Acts
<1>10. Acts' = [Acts EXCEPT ![d] = [Seen(d) EXCEPT !.entered = TRUE]]
  BY <1>0, <1>4, <1>5, <1>6, <1>7 DEF Acts
<1>11. Seen(d).left = calls[d].left /\ Seen(d).entered = Active(d)
  BY DEF Seen
<1>. QED  BY <1>2, <1>8, <1>9, <1>10, <1>11 DEF Promise!Enter, Promise!Last, Promise!Replace

LEMMA PopsLeaves ==
  ASSUME IInv, Acts = Mapped, Acts' = Mapped', Pops
  PROVE  Promise!Leave
<1>1. TypeOK
  BY DEF IInv
<1>0. PICK d \in Nat : d = Depth /\ d > 1 /\ d \in 1..d
  BY <1>1, Typed DEF Pops
<1>2. /\ Depth' = d - 1 /\ calls[d].left = 0
      /\ \A j \in 1..(d - 1) : calls'[j] = calls[j]
  BY <1>0 DEF Pops
<1>3. \A j \in 1..(d - 1) : Seen(j)' = Seen(j)
  BY <1>2 DEF Seen, Active, Passed, Value
<1>4. Len(Acts) = d /\ Acts' = SubSeq(Acts, 1, d - 1)
  <2>1. Acts = [j \in 1..d |-> Acts[j]] /\ Acts' = [j \in 1..(d - 1) |-> Acts'[j]]
    BY <1>0, <1>2 DEF Acts
  <2>2. \A j \in 1..(d - 1) : j \in 1..d
    BY <1>0
  <2>3. \A j \in 1..(d - 1) : Acts'[j] = Acts[j]
    BY <1>0, <1>2, <1>3, <2>2 DEF Acts
  <2>4. PICK m \in Nat : d = m + 1 /\ m = d - 1
    <3>1. d - 1 \in Nat /\ d = (d - 1) + 1
      BY <1>0
    <3>. QED  BY <3>1
  <2>5. /\ Acts = [j \in 1..(m + 1) |-> Acts[j]] /\ Acts' = [j \in 1..m |-> Acts'[j]]
        /\ \A j \in 1..m : Acts'[j] = Acts[j]
    BY <2>1, <2>3, <2>4
  <2>6. Len(Acts) = m + 1 /\ Acts' = SubSeq(Acts, 1, m)
    BY <2>5, Shorter
  <2>. QED  BY <2>4, <2>6
<1>5. Acts[d].left = calls[d].left
  BY <1>0 DEF Acts, Seen
<1>. QED  BY <1>0, <1>2, <1>4, <1>5 DEF Promise!Leave, Promise!Last

LEMMA SeenUnchanged ==
  ASSUME Depth' = Depth,
         \A j \in 1..Depth :
           /\ calls'[j].arity = calls[j].arity /\ calls'[j].left = calls[j].left
           /\ calls'[j].values = calls[j].values /\ calls'[j].base = calls[j].base
  PROVE  Acts' = Acts
<1>1. \A j \in 1..Depth : Seen(j)' = Seen(j)
  BY DEF Seen, Active, Passed, Value
<1>. QED  BY <1>1 DEF Acts

-----------------------------------------------------------------------------

LEMMA InitImplements ==
  ASSUME Init, Acts = Mapped
  PROVE  Promise!Init
<1>. DEFINE main == [Begun(0, FALSE, 0) EXCEPT !.base = 2]
<1>1. calls = <<main>> /\ main.arity = 0 /\ main.left = 0 /\ main.base = 2
  BY DEF Init, Begun
<1>. HIDE DEF main
<1>2. Depth = 1 /\ calls[1] = main
  BY <1>1 DEF Depth
<1>3. Seen(1) = [arity |-> 0, left |-> 0, entered |-> TRUE, args |-> [i \in 0..(0 - 1) |-> 0]]
  <2>1. Active(1) = TRUE /\ 0..(0 - 1) = {}
    BY <1>1, <1>2 DEF Active
  <2>. QED  BY <1>1, <1>2, <2>1 DEF Seen
<1>4. Acts = <<Seen(1)>>
  BY <1>2 DEF Acts
<1>. QED  BY <1>3, <1>4
     DEF Promise!Init, Promise!Main, Promise!Act, Promise!NotEvaluated

LEMMA StepImplements ==
  ASSUME Careful, IInv, Acts = Mapped, Acts' = Mapped', [Next]_vars
  PROVE  [Promise!Next]_Mapped
<1>0. TypeOK /\ SavedInside
  BY DEF IInv
<1>q. Quiet => Acts' = Acts
  BY SeenUnchanged DEF Quiet, Depth
<1>1. CASE \E n \in 0..MaxArity, library \in BOOLEAN : BeginCall(n, library)
  BY <1>1, BeginCallBegins DEF Promise!Next
<1>2. CASE \E v \in Values : CallParameter(v)
  BY <1>2, CallParameterEvaluates DEF Promise!Next
<1>3. CASE FunctionCall
  BY <1>3, FunctionCallEnters DEF Promise!Next
<1>4. CASE Return
  BY <1>4, ReturnPops, PopsLeaves DEF Promise!Next
<1>5. CASE \E left \in [Registers -> Junk] : LibraryCall(left)
  BY <1>5, LibraryCallPops, PopsLeaves, WordsAssumption DEF Promise!Next
<1>6. CASE \E w \in Junk : Division(w)
  BY <1>0, <1>6, <1>q, ClobberQuiet
<1>7. CASE \E w \in Junk : ShiftOrCompare(w)
  BY <1>0, <1>7, <1>q, ClobberQuiet
<1>8. CASE \E w \in Junk : SaveData(w)
  BY <1>0, <1>8, <1>q, SaveDataQuiet
<1>9. CASE RestoreData
  BY <1>0, <1>9, <1>q, RestoreDataQuiet
<1>10. CASE LocalArrayAccess
  <2>1. Leaks
    BY <1>0, <1>10, LocalArrayAccessLeaks
  <2>. QED  BY <2>1, SeenUnchanged DEF Leaks
<1>11. CASE UNCHANGED vars
  BY <1>11, SeenUnchanged DEF vars, Depth
<1>. QED  BY <1>1, <1>2, <1>3, <1>4, <1>5, <1>6, <1>7, <1>8, <1>9, <1>10, <1>11 DEF Next

(* The code that X86_64IRVisitor emits for calls keeps the promise of Calls: *)
(* read where the machine keeps them, the arguments of every call under way  *)
(* and the parameters of every active function change only as Calls says.    *)
THEOREM Implementation ==
  ASSUME Careful
  PROVE  Spec => ImplementsCalls
<1>1. IInv => Faithful
  BY MappedIsSeen DEF Acts, Faithful
<1>2. Init /\ Faithful => Promise!Init
  BY InitImplements DEF Faithful
<1>3. IInv /\ Faithful /\ Faithful' /\ [Next]_vars => [Promise!Next]_Mapped
  BY StepImplements DEF Faithful
<1>4. Init => IInv
  BY IInvInit
<1>5. IInv /\ [Next]_vars => IInv'
  BY IInvStep
<1>. QED  BY <1>1, <1>2, <1>3, <1>4, <1>5, PTL DEF Spec, ImplementsCalls, Promise!Spec

=============================================================================

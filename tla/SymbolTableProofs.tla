------------------------- MODULE SymbolTableProofs -------------------------
(***************************************************************************)
(* Proofs about SymbolTable, for any sets of names, types and functions    *)
(* declared beforehand, any number of parameters and any depth of groups.  *)
(***************************************************************************)
EXTENDS SymbolTable, WellFoundedInduction, SequenceTheorems, TLAPS

(* The last of some indices, which ParameterTable chooses.                   *)
LEMMA Largest ==
  ASSUME NEW k \in Nat, NEW T, T \subseteq 1..k, T # {}
  PROVE  \E i \in T : \A j \in T : j <= i
<1>. DEFINE U == {u \in Nat : k - u \in T}
<1>1. PICK t \in T : TRUE
  OBVIOUS
<1>2. k - t \in U
  <2>1. t \in 1..k
    OBVIOUS
  <2>2. k - t \in Nat /\ k - (k - t) = t
    BY <2>1
  <2>. QED  BY <2>2
<1>3. PICK u \in U : \A y \in U : ~ (<<y, u>> \in OpToRel(<, Nat))
  BY <1>2, WFMin, NatLessThanWellFounded
<1>4. \A y \in U : u <= y
  <2>1. \A y \in U : <<y, u>> \in Nat \X Nat /\ <<y, u>>[1] = y /\ <<y, u>>[2] = u
    OBVIOUS
  <2>2. \A y \in U : ~ (y < u)
    BY <1>3, <2>1 DEF OpToRel
  <2>3. \A y \in U : y \in Nat /\ u \in Nat
    OBVIOUS
  <2>. QED  BY <2>2, <2>3
<1>5. \A j \in T : j <= k - u
  <2>. TAKE j \in T
  <2>1. k - j \in Nat /\ k - (k - j) = j /\ j \in Int
    OBVIOUS
  <2>2. k - j \in U
    BY <2>1
  <2>. QED  BY <1>4, <2>1, <2>2
<1>. QED  BY <1>5

-----------------------------------------------------------------------------
(* Symbols and tables *)

Symbol(s) ==
  /\ s.kind \in Kinds /\ s.type \in Types \union {0} /\ s.parameters \in Parameters
  /\ s.variadic \in BOOLEAN /\ s.context \in BOOLEAN
  /\ s.decl \in Int /\ s.def \in Int
  /\ s.decl >= Gone /\ s.decl <= MaxDepth /\ s.def >= Gone /\ s.def <= MaxDepth

LEMMA SymbolFacts ==
  ASSUME NEW s \in Symbols
  PROVE  Symbol(s)
  BY BoundsAssumption DEF Symbols, Symbol, Owners, Gone

(* What the statements' coming and going does to a symbol.                   *)
Moved(s, t) ==
  /\ t.kind = s.kind /\ t.type = s.type /\ t.parameters = s.parameters
  /\ t.variadic = s.variadic /\ t.context = s.context

LEMMA ExpiredFacts ==
  ASSUME NEW table, IsTable(table), NEW level \in Nat
  PROVE  /\ IsTable(Expired(table, level)) /\ DOMAIN Expired(table, level) = DOMAIN table
         /\ \A n \in DOMAIN table :
              /\ Moved(table[n], Expired(table, level)[n])
              /\ Expired(table, level)[n].decl = Expire(table[n].decl, level)
              /\ Expired(table, level)[n].def = Expire(table[n].def, level)
<1>1. DOMAIN Expired(table, level) = DOMAIN table
  BY DEF Expired
<1>2. ASSUME NEW n \in DOMAIN table
      PROVE  /\ Expired(table, level)[n] \in Symbols
             /\ Moved(table[n], Expired(table, level)[n])
             /\ Expired(table, level)[n].decl = Expire(table[n].decl, level)
             /\ Expired(table, level)[n].def = Expire(table[n].def, level)
  <2>1. table[n] \in Symbols
    BY DEF IsTable
  <2>2. Expire(table[n].decl, level) \in Owners /\ Expire(table[n].def, level) \in Owners
    BY <2>1, BoundsAssumption DEF Symbols, Owners, Gone, Expire
  <2>. DEFINE d == Expire(table[n].decl, level)
              e == Expire(table[n].def, level)
  <2>3. Expired(table, level)[n] = [table[n] EXCEPT !.decl = d, !.def = e]
    BY <2>1 DEF Expired, Symbols
  <2>4. d \in Owners /\ e \in Owners
    BY <2>2
  <2>. HIDE DEF d, e
  <2>5. LET t == [table[n] EXCEPT !.decl = d, !.def = e]
        IN  t \in Symbols /\ Moved(table[n], t) /\ t.decl = d /\ t.def = e
    BY <2>1, <2>4 DEF Symbols, Moved
  <2>. QED  BY <2>3, <2>5 DEF d, e
<1>. QED  BY <1>1, <1>2 DEF IsTable

LEMMA LoweredFacts ==
  ASSUME NEW table, IsTable(table), Depth \in Nat, Depth > 0
  PROVE  /\ IsTable(Lowered(table)) /\ DOMAIN Lowered(table) = DOMAIN table
         /\ \A n \in DOMAIN table :
              /\ Moved(table[n], Lowered(table)[n])
              /\ Lowered(table)[n].decl = Lower(table[n].decl)
              /\ Lowered(table)[n].def = Lower(table[n].def)
<1>1. DOMAIN Lowered(table) = DOMAIN table
  BY DEF Lowered
<1>2. ASSUME NEW n \in DOMAIN table
      PROVE  /\ Lowered(table)[n] \in Symbols
             /\ Moved(table[n], Lowered(table)[n])
             /\ Lowered(table)[n].decl = Lower(table[n].decl)
             /\ Lowered(table)[n].def = Lower(table[n].def)
  <2>1. table[n] \in Symbols
    BY DEF IsTable
  <2>2. Lower(table[n].decl) \in Owners /\ Lower(table[n].def) \in Owners
    BY <2>1, BoundsAssumption DEF Symbols, Owners, Gone, Lower
  <2>. DEFINE d == Lower(table[n].decl)
              e == Lower(table[n].def)
  <2>3. Lowered(table)[n] = [table[n] EXCEPT !.decl = d, !.def = e]
    BY <2>1 DEF Lowered, Symbols
  <2>4. d \in Owners /\ e \in Owners
    BY <2>2
  <2>. HIDE DEF d, e
  <2>5. LET t == [table[n] EXCEPT !.decl = d, !.def = e]
        IN  t \in Symbols /\ Moved(table[n], t) /\ t.decl = d /\ t.def = e
    BY <2>1, <2>4 DEF Symbols, Moved
  <2>. QED  BY <2>3, <2>5 DEF d, e
<1>. QED  BY <1>1, <1>2 DEF IsTable

LEMMA PutFacts ==
  ASSUME NEW table, NEW name, NEW symbol
  PROVE  /\ DOMAIN Put(table, name, symbol) = DOMAIN table \union {name}
         /\ Put(table, name, symbol)[name] = symbol
         /\ \A n \in DOMAIN table : n # name => Put(table, name, symbol)[n] = table[n]
  BY DEF Put

LEMMA PutIsTable ==
  ASSUME NEW table, IsTable(table), NEW name \in Names, NEW symbol \in Symbols
  PROVE  IsTable(Put(table, name, symbol))
  BY DEF Put, IsTable

LEMMA NewSymbols ==
  ASSUME NEW type \in Types \union {0}, NEW decl \in Owners, NEW def \in Owners
  PROVE  /\ \A kind \in Kinds : Variable(kind, type, decl, def) \in Symbols
         /\ \A parameters \in Parameters, variadic \in BOOLEAN, context \in BOOLEAN :
              Function(parameters, variadic, context, decl, def) \in Symbols
<1>1. <<>> \in Parameters
  <2>1. <<>> \in [1..0 -> [name : ParameterNames, type : Types]] /\ 0 \in 0..MaxParameters
    BY BoundsAssumption
  <2>. QED  BY <2>1 DEF Parameters
<1>. QED  BY <1>1 DEF Variable, Function, Symbols, Kinds

LEMMA ParameterTableFacts ==
  ASSUME NEW parameters \in Parameters, NEW owner \in Owners
  PROVE  LET table == ParameterTable(parameters, owner) IN
         /\ IsTable(table)
         /\ DOMAIN table = {parameters[i].name : i \in DOMAIN parameters}
         /\ \A n \in DOMAIN table :
              table[n].kind = "variable" /\ table[n].decl = owner /\ table[n].def = owner
<1>. DEFINE table == ParameterTable(parameters, owner)
<1>1. PICK k \in Nat : parameters \in [1..k -> [name : ParameterNames, type : Types]]
  BY BoundsAssumption DEF Parameters
<1>2. DOMAIN table = {parameters[i].name : i \in DOMAIN parameters}
  BY DEF ParameterTable
<1>3. ASSUME NEW n \in DOMAIN table
      PROVE  /\ n \in Names /\ table[n] \in Symbols
             /\ table[n].kind = "variable" /\ table[n].decl = owner /\ table[n].def = owner
  <2>. DEFINE last == CHOOSE i \in DOMAIN parameters :
                        /\ parameters[i].name = n
                        /\ \A j \in DOMAIN parameters : parameters[j].name = n => j <= i
              T == {i \in 1..k : parameters[i].name = n}
  <2>1. T # {} /\ T \subseteq 1..k /\ DOMAIN parameters = 1..k
    BY <1>1, <1>2
  <2>2. \E i \in T : \A j \in T : j <= i
    BY <2>1, Largest
  <2>3. last \in 1..k /\ parameters[last].name = n
    BY <2>1, <2>2
  <2>4. parameters[last].type \in Types /\ n \in ParameterNames
    BY <1>1, <2>3
  <2>5. table[n] = Variable("variable", parameters[last].type, owner, owner)
    BY <1>2 DEF ParameterTable
  <2>. HIDE DEF last
  <2>6. table[n] \in Symbols
    BY <2>4, <2>5, NewSymbols DEF Kinds
  <2>. QED  BY <2>4, <2>5, <2>6, NamesAssumption DEF Variable
<1>. QED  BY <1>2, <1>3 DEF IsTable

-----------------------------------------------------------------------------
(* Groups of statements *)

Groups == {"declaring", "defining", "instructions"}
Bodies == {"function", "end"}

LEMMA FrameFacts ==
  ASSUME TypeOK
  PROVE  /\ Depth \in Nat /\ Depth <= MaxDepth
         /\ Depth \in Owners /\ Gone \in Owners /\ 0 \in Owners
         /\ \A i \in 1..Depth : frames[i] \in FrameKinds
         /\ Top # "root" => Depth > 0 /\ Top = frames[Depth]
         /\ frames = <<>> => Depth = 0 /\ Top = "root"
<1>1. frames \in Seq(FrameKinds) /\ Depth <= MaxDepth /\ Depth = Len(frames)
  BY DEF TypeOK, Depth
<1>2. Depth \in Nat /\ \A i \in 1..Depth : frames[i] \in FrameKinds
  BY <1>1, LenProperties, ElementOfSeq
<1>3. frames = <<>> <=> Depth = 0
  BY <1>1, EmptySeq
<1>. QED  BY <1>1, <1>2, <1>3, BoundsAssumption DEF Top, Owners, Gone

(* What is left when a group ends: its body is still the body.               *)
LEMMA LeaveFacts ==
  ASSUME TypeOK, Top \in Groups
  PROVE  /\ Depth > 0
         /\ Leave \in Seq(FrameKinds) /\ Len(Leave) = Depth - 1
         /\ \A i \in 1..(Depth - 1) : Leave[i] \in Bodies <=> frames[i] \in Bodies
         /\ frames[Depth] \notin Bodies
<1>. DEFINE outer == SubSeq(frames, 1, Depth - 1)
<1>1. Depth \in Nat /\ Depth > 0 /\ frames[Depth] = Top /\ frames \in Seq(FrameKinds)
  BY FrameFacts DEF Groups, TypeOK
<1>2. /\ outer \in Seq(FrameKinds) /\ Len(outer) = Depth - 1
      /\ \A i \in 1..(Depth - 1) : outer[i] = frames[i]
  <2>1. 1 \in 1..(Len(frames) + 1) /\ Depth - 1 \in (1 - 1)..Len(frames)
    BY <1>1 DEF Depth
  <2>. QED  BY <1>1, <2>1, SubSeqProperties
<1>. HIDE DEF outer
<1>3. CASE Top = "instructions" /\ outer # <<>> /\ outer[Depth - 1] = "function"
  <2>1. Leave = [outer EXCEPT ![Depth - 1] = "end"]
    BY <1>3 DEF Leave, outer
  <2>2. Depth - 1 \in 1..Len(outer)
    BY <1>1, <1>2, <1>3, EmptySeq
  <2>3. /\ Leave \in Seq(FrameKinds) /\ Len(Leave) = Depth - 1
        /\ \A i \in 1..(Depth - 1) : Leave[i] = IF i = Depth - 1 THEN "end" ELSE outer[i]
    BY <1>2, <2>1, <2>2, ExceptSeq DEF FrameKinds
  <2>. QED  BY <1>1, <1>2, <1>3, <2>3 DEF Bodies, Groups
<1>4. CASE ~(Top = "instructions" /\ outer # <<>> /\ outer[Depth - 1] = "function")
  <2>1. Leave = outer
    BY <1>4 DEF Leave, outer
  <2>. QED  BY <1>1, <1>2, <2>1 DEF Bodies, Groups
<1>. QED  BY <1>3, <1>4

-----------------------------------------------------------------------------
(* The forms of a step *)

(* An error is reported where a group is visited, or at a statement alone.   *)
Failing ==
  \E level \in {Depth, Depth + 1} : Running /\ (level = Depth => Top \in Groups) /\ Raise(level)

(* The program is accepted at its end, without errors, and rejected with.    *)
Stopping ==
  \E how \in Statuses \ {"running"} :
    /\ Running /\ Stop(how)
    /\ how = "accepted" => ~ faulty /\ frames = <<>>
    /\ how = "rejected" => faulty

(* A variable or an array is new, or one that was declared is defined.       *)
Introducing ==
  \E name \in Names, kind \in {"variable", "array"}, type \in Types, def \in {Gone, Depth} :
    /\ Running /\ ~ IsDeclared(name) /\ ~ IsDefined(name)
    /\ Register(name, Variable(kind, type, Depth, def))
    /\ UNCHANGED <<frames, faulty, status, used>>
Completing ==
  \E name \in Names :
    /\ Running /\ IsDeclared(name) /\ ~ IsDefined(name)
    /\ GetSymbol(name).kind # "function"
    /\ Replace(name, Defined(GetSymbol(name), Depth))
    /\ UNCHANGED <<frames, faulty, status, used>>

(* A function is new, declared again, or defined.                            *)
Announcing ==
  \E name \in Names, parameters \in Parameters :
    /\ Running /\ ~ DeclaredIn(root, name)
    /\ root' = Put(root, name, Function(parameters, FALSE, FALSE, Depth, Gone))
    /\ UNCHANGED <<local, frames, faulty, status, used>>
Repeating ==
  \E name \in Names :
    /\ Running /\ DeclaredIn(root, name) /\ root[name].kind = "function"
    /\ root' = [root EXCEPT ![name].decl = Depth]
    /\ UNCHANGED <<local, frames, faulty, status, used>>
Entering ==
  \E name \in Names, parameters \in Parameters :
    /\ Running /\ Depth < MaxDepth /\ ~ InFunction
    /\ \A i \in DOMAIN parameters : ~ DefinedIn(root, parameters[i].name)
    /\ ~ DefinedIn(root, name)
    /\ \/ /\ ~ DeclaredIn(root, name)
          /\ EnterFunction(name, Function(parameters, FALSE, TRUE, Depth + 1, Depth + 1),
                           parameters)
       \/ /\ DeclaredIn(root, name) /\ root[name].kind = "function"
          /\ root[name].parameters = parameters
          /\ EnterFunction(name, [Defined(root[name], Depth + 1) EXCEPT !.context = TRUE],
                           parameters)

(* A usage is accepted.                                                      *)
Using ==
  \E usage \in Usages :
    /\ Running /\ Record(usage) /\ usage # NoUsage
    /\ IF usage.as = "function"
       THEN /\ IsDeclared(usage.name) /\ GetSymbol(usage.name).kind = "function"
            /\ \/ GetSymbol(usage.name).variadic
               \/ Fits(GetSymbol(usage.name).parameters, usage.arguments)
       ELSE IsDefined(usage.name) /\ GetSymbol(usage.name).kind \in {usage.as, "array"}

Opening == \E kind \in Groups : Open(kind)

LEMMA ErrorForms ==
  ASSUME NEW level \in {Depth, Depth + 1}, Running, level = Depth => Top \in Groups
  PROVE  /\ Raise(level) => Failing
         /\ \A how \in {"exit", "uncaught", "crash"} : Stop(how) => Stopping
         /\ \A owner : RaiseQuoting(owner, level) => Failing \/ Stopping
         /\ \A name : RaiseMismatch(name, level) => Failing \/ Stopping
<1>1. Raise(level) => Failing
  BY DEF Failing
<1>2. \A how \in {"exit", "uncaught", "crash"} : Stop(how) => Stopping
  BY DEF Stopping, Statuses
<1>. QED  BY <1>1, <1>2 DEF RaiseQuoting, RaiseMismatch

LEMMA DeclarationForms ==
  ASSUME TypeOK, NEW kind \in {"variable", "array"}, NEW name \in Names, NEW type \in Types,
         NEW level \in {Depth, Depth + 1}, Running, level = Depth => Top \in Groups
  PROVE  /\ AddDeclaration(kind, name, type, level) => Failing \/ Stopping \/ Introducing
         /\ AddDefinition(kind, name, type, level)
              => Failing \/ Stopping \/ Introducing \/ Completing
<1>1. /\ \A owner : RaiseQuoting(owner, level) => Failing \/ Stopping
      /\ RaiseMismatch(name, level) => Failing \/ Stopping
  BY ErrorForms
<1>2. AddDeclaration(kind, name, type, level) => Failing \/ Stopping \/ Introducing
  BY <1>1 DEF AddDeclaration, Introducing
<1>3. Defined(Variable(kind, type, Gone, Gone), Depth) = Variable(kind, type, Depth, Depth)
  <2>. DEFINE s == Variable(kind, type, Gone, Gone)
  <2>1. Defined(s, Depth) = [s EXCEPT !.def = Depth, !.decl = Depth]
    BY DEF Defined, Variable
  <2>. QED  BY <2>1 DEF Variable
<1>4. AddDefinition(kind, name, type, level)
        => Failing \/ Stopping \/ Introducing \/ Completing
  <2>1. CASE IsDefined(name) \/ ~ IsDeclared(name)
    BY <1>1, <1>3, <2>1 DEF AddDefinition, Introducing
  <2>2. CASE ~ IsDefined(name) /\ IsDeclared(name)
    BY <1>1, <2>2 DEF AddDefinition, Completing
  <2>. QED  BY <2>1, <2>2
<1>. QED  BY <1>2, <1>4

LEMMA UsageForms ==
  ASSUME TypeOK, NEW name \in Names, CanUse
  PROVE  /\ AddVariableUsage(name) => Failing \/ Stopping \/ Using
         /\ AddArrayAccess(name) => Failing \/ Stopping \/ Using
         /\ \A arguments \in Arguments :
              AddFunctionCall(name, arguments) => Failing \/ Stopping \/ Using
<1>1. Running /\ Top \in Groups /\ Depth \in {Depth, Depth + 1}
  BY DEF CanUse, Groups
<1>2. /\ Raise(Depth) => Failing
      /\ RaiseMismatch(name, Depth) => Failing \/ Stopping
      /\ Stop("uncaught") => Stopping
  BY <1>1, ErrorForms
<1>3. AddVariableUsage(name) => Failing \/ Stopping \/ Using
  <2>. DEFINE usage == [as |-> "variable", name |-> name]
  <2>1. usage \in Usages /\ usage # NoUsage /\ usage.as = "variable" /\ usage.name = name
    BY DEF Usages, NoUsage
  <2>2. CASE IsDefined(name) /\ GetSymbol(name).kind \in {"variable", "array"}
    <3>1. AddVariableUsage(name) => Record(usage)
      BY <2>2 DEF AddVariableUsage
    <3>. HIDE DEF usage
    <3>. QED  BY <1>1, <2>1, <2>2, <3>1 DEF Using
  <2>3. CASE ~ (IsDefined(name) /\ GetSymbol(name).kind \in {"variable", "array"})
    BY <1>2, <2>3 DEF AddVariableUsage
  <2>. QED  BY <2>2, <2>3
<1>4. AddArrayAccess(name) => Failing \/ Stopping \/ Using
  <2>. DEFINE usage == [as |-> "array", name |-> name]
  <2>1. usage \in Usages /\ usage # NoUsage /\ usage.as = "array" /\ usage.name = name
    BY DEF Usages, NoUsage
  <2>2. CASE IsDefined(name) /\ GetSymbol(name).kind = "array"
    <3>1. AddArrayAccess(name) => Record(usage)
      BY <2>2 DEF AddArrayAccess
    <3>. HIDE DEF usage
    <3>. QED  BY <1>1, <2>1, <2>2, <3>1 DEF Using
  <2>3. CASE ~ (IsDefined(name) /\ GetSymbol(name).kind = "array")
    BY <1>2, <2>3 DEF AddArrayAccess
  <2>. QED  BY <2>2, <2>3
<1>5. ASSUME NEW arguments \in Arguments, AddFunctionCall(name, arguments)
      PROVE  Failing \/ Stopping \/ Using
  <2>. DEFINE usage == [as |-> "function", name |-> name, arguments |-> arguments]
              symbol == GetSymbol(name)
              fits == symbol.variadic \/ Fits(symbol.parameters, arguments)
  <2>1. /\ usage \in Usages /\ usage # NoUsage /\ usage.as = "function"
        /\ usage.name = name /\ usage.arguments = arguments
    BY DEF Usages, NoUsage
  <2>2. CASE IsDeclared(name) /\ symbol.kind = "function" /\ fits
    <3>1. Record(usage)
      BY <1>5, <2>2 DEF AddFunctionCall
    <3>. HIDE DEF usage
    <3>. QED  BY <1>1, <2>1, <2>2, <3>1 DEF Using
  <2>3. CASE ~ (IsDeclared(name) /\ symbol.kind = "function" /\ fits)
    BY <1>2, <1>5, <2>3 DEF AddFunctionCall
  <2>. QED  BY <2>2, <2>3
<1>. QED  BY <1>3, <1>4, <1>5

LEMMA FunctionForms ==
  ASSUME TypeOK, NEW name \in Names, NEW parameters \in Parameters
  PROVE  /\ AddFunctionDeclaration(name, parameters) => Failing \/ Announcing \/ Repeating
         /\ AddFunctionDefinition(name, parameters) => Failing \/ Stopping \/ Entering
<1>. SUFFICES ASSUME Running
              PROVE  /\ AddFunctionDeclaration(name, parameters)
                          => Failing \/ Announcing \/ Repeating
                     /\ AddFunctionDefinition(name, parameters)
                          => Failing \/ Stopping \/ Entering
  BY DEF AddFunctionDeclaration, AddFunctionDefinition, CanDeclare
<1>1. /\ Raise(Depth + 1) => Failing
      /\ Stop("exit") => Stopping
      /\ Stop("uncaught") => Stopping
  <2>1. Depth + 1 \in {Depth, Depth + 1} /\ (Depth + 1 = Depth => Top \in Groups)
    BY FrameFacts
  <2>. QED  BY <2>1, ErrorForms
<1>2. AddFunctionDeclaration(name, parameters) => Failing \/ Announcing \/ Repeating
  <2>1. CASE ~ DeclaredIn(root, name)
    BY <2>1 DEF AddFunctionDeclaration, Announcing
  <2>2. CASE DeclaredIn(root, name)
    BY <1>1, <2>2 DEF AddFunctionDeclaration, Repeating
  <2>. QED  BY <2>1, <2>2
<1>3. ASSUME AddFunctionDefinition(name, parameters)
      PROVE  Failing \/ Stopping \/ Entering
  <2>1. CASE InFunction \/ \E i \in DOMAIN parameters : DefinedIn(root, parameters[i].name)
    BY <1>1, <1>3, <2>1 DEF AddFunctionDefinition
  <2>2. CASE /\ ~ InFunction /\ \A i \in DOMAIN parameters : ~ DefinedIn(root, parameters[i].name)
             /\ ~ DefinedIn(root, name)
             /\ DeclaredIn(root, name) => /\ root[name].kind = "function"
                                          /\ ~ root[name].context
                                          /\ Agrees(root[name], parameters)
    BY <1>3, <2>2 DEF AddFunctionDefinition, Entering, Agrees
  <2>3. CASE /\ ~ InFunction /\ \A i \in DOMAIN parameters : ~ DefinedIn(root, parameters[i].name)
             /\ ~ (/\ ~ DefinedIn(root, name)
                   /\ DeclaredIn(root, name) => /\ root[name].kind = "function"
                                                /\ ~ root[name].context
                                                /\ Agrees(root[name], parameters))
    BY <1>1, <1>3, <2>3 DEF AddFunctionDefinition
  <2>. QED  BY <2>1, <2>2, <2>3
<1>. QED  BY <1>2, <1>3

LEMMA StepForms ==
  ASSUME TypeOK, Next
  PROVE  \/ Failing \/ Stopping \/ Opening \/ Close \/ Introducing \/ Completing
         \/ Announcing \/ Repeating \/ Entering \/ EndFunction \/ Using
<1>. DEFINE Forms == \/ Failing \/ Stopping \/ Opening \/ Close \/ Introducing \/ Completing
                     \/ Announcing \/ Repeating \/ Entering \/ EndFunction \/ Using
<1>0. Depth \in {Depth, Depth + 1} /\ Depth + 1 \in {Depth, Depth + 1} /\ Depth + 1 # Depth
  BY FrameFacts
<1>1. ASSUME NEW kind \in Groups, Open(kind)
      PROVE  Forms
  BY <1>1 DEF Opening
<1>2. ASSUME NEW name \in Names, NEW type \in Types,
             AddVariableDeclaration(name, type) \/ AddVariableDefinition(name, type)
      PROVE  Forms
  <2>1. Running /\ Top \in Groups
    BY <1>2 DEF AddVariableDeclaration, AddVariableDefinition, Groups
  <2>2. AddDeclaration("variable", name, type, Depth) \/ AddDefinition("variable", name, type, Depth)
    BY <1>2 DEF AddVariableDeclaration, AddVariableDefinition
  <2>. QED  BY <1>0, <2>1, <2>2, DeclarationForms
<1>3. ASSUME NEW name \in Names, NEW type \in Types,
             AddArrayDeclaration(name, type) \/ AddArrayDefinition(name, type)
      PROVE  Forms
  <2>1. Running
    BY <1>3 DEF AddArrayDeclaration, AddArrayDefinition, CanDeclare
  <2>2. AddDeclaration("array", name, type, Depth + 1) \/ AddDefinition("array", name, type, Depth + 1)
    BY <1>3 DEF AddArrayDeclaration, AddArrayDefinition
  <2>. QED  BY <1>0, <2>1, <2>2, DeclarationForms
<1>4. ASSUME NEW name \in Names, AddVariableUsage(name) \/ AddArrayAccess(name)
      PROVE  Forms
  BY <1>4, UsageForms DEF AddVariableUsage, AddArrayAccess
<1>5. ASSUME NEW name \in Names, NEW arguments \in Arguments, AddFunctionCall(name, arguments)
      PROVE  Forms
  BY <1>5, UsageForms DEF AddFunctionCall
<1>6. ASSUME NEW name \in Names, NEW parameters \in Parameters,
             AddFunctionDeclaration(name, parameters) \/ AddFunctionDefinition(name, parameters)
      PROVE  Forms
  BY <1>6, FunctionForms
<1>7. ASSUME Finish
      PROVE  Forms
  BY <1>7 DEF Finish, Stopping, Statuses
<1>. QED  BY <1>1, <1>2, <1>3, <1>4, <1>5, <1>6, <1>7 DEF Next, Groups

-----------------------------------------------------------------------------
(* Types *)

(* A table whose statements are in groups no deeper than d.                  *)
Within(table, d) ==
  IsTable(table) /\ \A n \in DOMAIN table : table[n].decl <= d /\ table[n].def <= d

LEMMA TypesFromParts ==
  ASSUME Within(root', Depth'), Within(local', Depth'),
         frames' \in Seq(FrameKinds), Depth' <= MaxDepth,
         faulty' \in BOOLEAN, status' \in Statuses, used' \in Usages
  PROVE  TypeOK'
  BY DEF TypeOK, Within

LEMMA TableFacts ==
  ASSUME TypeOK
  PROVE  /\ Within(root, Depth) /\ Within(local, Depth)
         /\ \A n \in DOMAIN root : n \in Names /\ root[n] \in Symbols /\ Symbol(root[n])
         /\ \A n \in DOMAIN local : n \in Names /\ local[n] \in Symbols /\ Symbol(local[n])
<1>1. Within(root, Depth) /\ Within(local, Depth)
  BY DEF TypeOK, Within
<1>. QED  BY <1>1, SymbolFacts DEF Within, IsTable

LEMMA EmptyWithin ==
  ASSUME NEW d
  PROVE  Within(EmptyTable, d) /\ DOMAIN EmptyTable = {}
  BY DEF Within, IsTable, EmptyTable

LEMMA PutWithin ==
  ASSUME NEW table, NEW d \in Int, Within(table, d), NEW name \in Names, NEW symbol \in Symbols,
         symbol.decl <= d, symbol.def <= d
  PROVE  Within(Put(table, name, symbol), d)
<1>1. IsTable(Put(table, name, symbol))
  BY PutIsTable DEF Within
<1>. QED  BY <1>1 DEF Within, Put

LEMMA ExpiredWithin ==
  ASSUME NEW table, NEW d \in Nat, Within(table, d), NEW level \in Nat
  PROVE  Within(Expired(table, level), IF level > d THEN d ELSE level - 1)
<1>1. IsTable(table) /\ \A n \in DOMAIN table : Symbol(table[n])
  BY SymbolFacts DEF Within, IsTable
<1>2. /\ IsTable(Expired(table, level)) /\ DOMAIN Expired(table, level) = DOMAIN table
      /\ \A n \in DOMAIN table :
           /\ Expired(table, level)[n].decl = Expire(table[n].decl, level)
           /\ Expired(table, level)[n].def = Expire(table[n].def, level)
  BY <1>1, ExpiredFacts
<1>3. \A o \in Int : o >= Gone /\ o <= d
        => Expire(o, level) <= IF level > d THEN d ELSE level - 1
  BY DEF Expire, Gone
<1>4. \A n \in DOMAIN table : /\ table[n].decl \in Int /\ table[n].decl >= Gone /\ table[n].decl <= d
                              /\ table[n].def \in Int /\ table[n].def >= Gone /\ table[n].def <= d
  BY <1>1 DEF Symbol, Within
<1>. QED  BY <1>2, <1>3, <1>4 DEF Within

LEMMA LoweredWithin ==
  ASSUME NEW table, Within(table, Depth), Depth \in Nat, Depth > 0
  PROVE  Within(Lowered(table), Depth - 1)
<1>1. IsTable(table) /\ \A n \in DOMAIN table : Symbol(table[n])
  BY SymbolFacts DEF Within, IsTable
<1>2. /\ IsTable(Lowered(table)) /\ DOMAIN Lowered(table) = DOMAIN table
      /\ \A n \in DOMAIN table : /\ Lowered(table)[n].decl = Lower(table[n].decl)
                                 /\ Lowered(table)[n].def = Lower(table[n].def)
  BY <1>1, LoweredFacts
<1>3. \A o \in Int : o <= Depth => Lower(o) <= Depth - 1
  BY DEF Lower
<1>4. \A n \in DOMAIN table : /\ table[n].decl \in Int /\ table[n].decl <= Depth
                              /\ table[n].def \in Int /\ table[n].def <= Depth
  BY <1>1 DEF Symbol, Within
<1>. QED  BY <1>2, <1>3, <1>4 DEF Within

LEMMA DefinedFacts ==
  ASSUME NEW s \in Symbols, NEW d \in Owners, d # Gone, s.decl <= d
  PROVE  /\ Defined(s, d) \in Symbols /\ Moved(s, Defined(s, d))
         /\ Defined(s, d).def = d
         /\ Defined(s, d).decl = (IF s.decl = Gone THEN d ELSE s.decl)
<1>1. Symbol(s)
  BY SymbolFacts
<1>. QED  BY <1>1 DEF Defined, Symbols, Moved

(* The symbol that a function's definition leaves.                           *)
LEMMA EnteredFacts ==
  ASSUME NEW s \in Symbols, NEW d \in Owners, d # Gone, s.decl <= d
  PROVE  LET t == [Defined(s, d) EXCEPT !.context = TRUE] IN
         /\ t \in Symbols /\ t.kind = s.kind /\ t.parameters = s.parameters
         /\ t.variadic = s.variadic /\ t.context = TRUE
         /\ t.def = d /\ t.decl = (IF s.decl = Gone THEN d ELSE s.decl)
<1>. DEFINE u == Defined(s, d)
<1>1. /\ u \in Symbols /\ Moved(s, u) /\ u.def = d
      /\ u.decl = (IF s.decl = Gone THEN d ELSE s.decl)
  BY DefinedFacts
<1>. HIDE DEF u
<1>2. LET t == [u EXCEPT !.context = TRUE] IN
      /\ t \in Symbols /\ t.kind = u.kind /\ t.parameters = u.parameters
      /\ t.variadic = u.variadic /\ t.context = TRUE /\ t.def = u.def /\ t.decl = u.decl
  BY <1>1 DEF Symbols
<1>. QED  BY <1>1, <1>2 DEF u, Moved

(* One step per form.                                                        *)
LEMMA TypeStep ==
  ASSUME TypeOK, Next
  PROVE  TypeOK'
<1>. USE FrameFacts, TableFacts
<1>0. /\ Depth' = Len(frames') /\ Depth = Len(frames) /\ Depth \in Nat /\ MaxDepth \in Nat
      /\ frames \in Seq(FrameKinds) /\ faulty \in BOOLEAN /\ status \in Statuses /\ used \in Usages
      /\ NoUsage \in Usages
  BY BoundsAssumption DEF Depth, TypeOK, Usages
<1>1. CASE Failing
  <2>1. PICK level \in {Depth, Depth + 1} :
          Running /\ (level = Depth => Top \in Groups) /\ Raise(level)
    BY <1>1 DEF Failing
  <2>2. /\ faulty' = TRUE /\ used' = NoUsage /\ status' = status
        /\ root' = Expired(root, level) /\ local' = Expired(local, level)
        /\ frames' = IF level > Depth THEN frames ELSE Leave
    BY <2>1 DEF Raise
  <2>3. CASE level = Depth
    <3>1. Depth > 0 /\ frames' \in Seq(FrameKinds) /\ Depth' = Depth - 1
      BY <1>0, <2>1, <2>2, <2>3, LeaveFacts
    <3>2. Within(root', Depth - 1) /\ Within(local', Depth - 1)
      BY <1>0, <2>2, <2>3, <3>1, ExpiredWithin
    <3>. QED  BY <1>0, <2>2, <3>1, <3>2, TypesFromParts
  <2>4. CASE level = Depth + 1
    <3>1. frames' = frames /\ Depth' = Depth
      BY <1>0, <2>2, <2>4
    <3>2. Within(root', Depth) /\ Within(local', Depth)
      BY <1>0, <2>2, <2>4, ExpiredWithin
    <3>. QED  BY <1>0, <2>2, <3>1, <3>2, TypesFromParts
  <2>. QED  BY <2>1, <2>3, <2>4
<1>2. CASE Stopping
  <2>1. PICK how \in Statuses : Stop(how)
    BY <1>2 DEF Stopping
  <2>2. /\ root' = EmptyTable /\ local' = EmptyTable /\ frames' = <<>> /\ used' = NoUsage
        /\ status' \in Statuses /\ faulty' = faulty
    BY <2>1 DEF Stop
  <2>3. frames' \in Seq(FrameKinds) /\ Depth' = 0
    BY <1>0, <2>2
  <2>. QED  BY <1>0, <2>2, <2>3, EmptyWithin, TypesFromParts
<1>3. CASE Opening
  <2>1. PICK kind \in Groups : Open(kind)
    BY <1>3 DEF Opening
  <2>2. /\ frames' = Append(frames, kind) /\ kind \in FrameKinds /\ Depth < MaxDepth
        /\ UNCHANGED <<root, local, faulty, status, used>>
    BY <2>1 DEF Open, Groups, FrameKinds
  <2>3. frames' \in Seq(FrameKinds) /\ Depth' = Depth + 1
    BY <1>0, <2>2
  <2>4. Within(root, Depth + 1) /\ Within(local, Depth + 1)
    BY <1>0 DEF Within, Symbol
  <2>. QED  BY <1>0, <2>2, <2>3, <2>4, TypesFromParts
<1>4. CASE Close
  <2>1. Top \in Groups /\ root' = Lowered(root) /\ local' = Lowered(local) /\ frames' = Leave
        /\ UNCHANGED <<faulty, status, used>>
    BY <1>4 DEF Close, Groups
  <2>2. Depth > 0 /\ frames' \in Seq(FrameKinds) /\ Depth' = Depth - 1
    BY <1>0, <2>1, LeaveFacts
  <2>3. Within(root', Depth - 1) /\ Within(local', Depth - 1)
    BY <1>0, <2>1, <2>2, LoweredWithin
  <2>. QED  BY <1>0, <2>1, <2>2, <2>3, TypesFromParts
<1>5. CASE Introducing
  <2>1. PICK name \in Names, kind \in {"variable", "array"}, type \in Types, def \in {Gone, Depth} :
          /\ Register(name, Variable(kind, type, Depth, def))
          /\ UNCHANGED <<frames, faulty, status, used>>
    BY <1>5 DEF Introducing
  <2>. DEFINE s == Variable(kind, type, Depth, def)
  <2>2. s \in Symbols /\ s.decl <= Depth /\ s.def <= Depth
    <3>1. type \in Types \union {0} /\ Depth \in Owners /\ def \in Owners /\ kind \in Kinds
      BY DEF Kinds
    <3>2. s \in Symbols
      BY <3>1, NewSymbols
    <3>3. s.decl = Depth /\ s.def = def
      BY DEF Variable
    <3>. QED  BY <1>0, <3>2, <3>3 DEF Gone
  <2>. HIDE DEF s
  <2>3. Within(Put(root, name, s), Depth) /\ Within(Put(local, name, s), Depth)
    BY <1>0, <2>2, PutWithin
  <2>4. Within(root', Depth) /\ Within(local', Depth)
    BY <2>1, <2>3 DEF Register, s
  <2>. QED  BY <1>0, <2>1, <2>4, TypesFromParts
<1>6. CASE Completing
  <2>1. PICK name \in Names :
          /\ IsDeclared(name)
          /\ Replace(name, Defined(GetSymbol(name), Depth))
          /\ UNCHANGED <<frames, faulty, status, used>>
    BY <1>6 DEF Completing
  <2>. DEFINE s == GetSymbol(name)
              t == Defined(s, Depth)
  <2>2. s \in Symbols /\ s.decl <= Depth /\ s.def <= Depth
    BY <2>1 DEF GetSymbol, IsDeclared, DeclaredIn, Within
  <2>3. t \in Symbols /\ t.decl <= Depth /\ t.def <= Depth
    <3>1. Depth \in Owners /\ Depth # Gone
      BY <1>0 DEF Gone
    <3>. HIDE DEF s
    <3>2. t \in Symbols /\ t.def = Depth /\ t.decl = (IF s.decl = Gone THEN Depth ELSE s.decl)
      BY <2>2, <3>1, DefinedFacts
    <3>. QED  BY <1>0, <2>2, <3>2
  <2>. HIDE DEF t
  <2>4. Within(Put(root, name, t), Depth) /\ Within(Put(local, name, t), Depth)
    BY <1>0, <2>3, PutWithin
  <2>5. Within(root', Depth) /\ Within(local', Depth)
    BY <2>1, <2>4 DEF Replace, t
  <2>. QED  BY <1>0, <2>1, <2>5, TypesFromParts
<1>7. CASE Announcing
  <2>1. PICK name \in Names, parameters \in Parameters :
          /\ root' = Put(root, name, Function(parameters, FALSE, FALSE, Depth, Gone))
          /\ UNCHANGED <<local, frames, faulty, status, used>>
    BY <1>7 DEF Announcing
  <2>. DEFINE s == Function(parameters, FALSE, FALSE, Depth, Gone)
  <2>2. s \in Symbols /\ s.decl <= Depth /\ s.def <= Depth
    <3>1. Depth \in Owners /\ Gone \in Owners /\ 0 \in Types \union {0}
      OBVIOUS
    <3>2. s \in Symbols
      BY <3>1, NewSymbols
    <3>3. s.decl = Depth /\ s.def = Gone
      BY DEF Function
    <3>. HIDE DEF s
    <3>. QED  BY <1>0, <3>2, <3>3 DEF Gone
  <2>. HIDE DEF s
  <2>3. Within(root', Depth)
    <3>1. Within(Put(root, name, s), Depth)
      BY <1>0, <2>2, PutWithin
    <3>. QED  BY <2>1, <3>1 DEF s
  <2>. QED  BY <1>0, <2>1, <2>3, TypesFromParts
<1>8. CASE Repeating
  <2>1. PICK name \in Names :
          /\ DeclaredIn(root, name) /\ root' = [root EXCEPT ![name].decl = Depth]
          /\ UNCHANGED <<local, frames, faulty, status, used>>
    BY <1>8 DEF Repeating
  <2>2. [root[name] EXCEPT !.decl = Depth] \in Symbols
    BY <1>0, <2>1 DEF Symbols, DeclaredIn
  <2>3. Within(root', Depth)
    BY <1>0, <2>1, <2>2 DEF Within, IsTable, DeclaredIn, Symbols
  <2>. QED  BY <1>0, <2>1, <2>3, TypesFromParts
<1>9. CASE Entering
  <2>1. PICK name, parameters, s :
          /\ name \in Names /\ parameters \in Parameters
          /\ EnterFunction(name, s, parameters) /\ Depth < MaxDepth
          /\ \/ s = Function(parameters, FALSE, TRUE, Depth + 1, Depth + 1)
             \/ /\ DeclaredIn(root, name)
                /\ s = [Defined(root[name], Depth + 1) EXCEPT !.context = TRUE]
    BY <1>9 DEF Entering
  <2>2. Depth + 1 \in Owners /\ Depth + 1 # Gone
    BY <1>0, <2>1 DEF Owners, Gone
  <2>3. s \in Symbols /\ s.decl <= Depth + 1 /\ s.def <= Depth + 1
    <3>1. CASE s = Function(parameters, FALSE, TRUE, Depth + 1, Depth + 1)
      <4>1. Function(parameters, FALSE, TRUE, Depth + 1, Depth + 1) \in Symbols
        BY <2>1, <1>0, <2>2, NewSymbols
      <4>. QED  BY <1>0, <3>1, <4>1 DEF Function
    <3>2. CASE /\ DeclaredIn(root, name)
               /\ s = [Defined(root[name], Depth + 1) EXCEPT !.context = TRUE]
      <4>1. root[name] \in Symbols /\ root[name].decl \in Int /\ root[name].decl <= Depth
        BY <3>2 DEF DeclaredIn, Within, Symbol
      <4>2. root[name].decl <= Depth + 1
        BY <1>0, <4>1
      <4>3. /\ s \in Symbols /\ s.def = Depth + 1
            /\ s.decl = (IF root[name].decl = Gone THEN Depth + 1 ELSE root[name].decl)
        BY <2>2, <3>2, <4>1, <4>2, EnteredFacts
      <4>. QED  BY <1>0, <4>2, <4>3
    <3>. QED  BY <2>1, <3>1, <3>2
  <2>4. /\ root' = Put(root, name, s) /\ local' = ParameterTable(parameters, Depth + 1)
        /\ frames' = Append(frames, "function") /\ UNCHANGED <<faulty, status, used>>
    BY <2>1 DEF EnterFunction
  <2>5. frames' \in Seq(FrameKinds) /\ Depth' = Depth + 1
    BY <1>0, <2>4 DEF FrameKinds
  <2>6. Within(root, Depth + 1)
    BY <1>0 DEF Within, Symbol
  <2>7. Within(root', Depth + 1)
    BY <2>1, <1>0, <2>3, <2>4, <2>6, PutWithin
  <2>8. Within(local', Depth + 1)
    <3>1. Depth + 1 <= Depth + 1
      BY <1>0
    <3>2. /\ IsTable(local')
          /\ \A n \in DOMAIN local' : local'[n].decl = Depth + 1 /\ local'[n].def = Depth + 1
      <4>1. parameters \in Parameters
        BY <2>1
      <4>. QED  BY <4>1, <2>2, <2>4, ParameterTableFacts
    <3>. QED  BY <3>1, <3>2 DEF Within
  <2>. QED  BY <1>0, <2>1, <2>4, <2>5, <2>7, <2>8, TypesFromParts
<1>10. CASE EndFunction
  <2>1. /\ Top \in {"function", "end"} /\ root' = Lowered(root) /\ local' = EmptyTable
        /\ frames' = SubSeq(frames, 1, Depth - 1)
        /\ used' \in Usages /\ UNCHANGED <<faulty, status>>
    BY <1>0, <1>10 DEF EndFunction
  <2>2. Depth > 0
    BY <2>1
  <2>3. frames' \in Seq(FrameKinds) /\ Depth' = Depth - 1
    BY <1>0, <2>1, <2>2
  <2>4. Within(root', Depth - 1)
    BY <1>0, <2>1, <2>2, LoweredWithin
  <2>. QED  BY <1>0, <2>1, <2>2, <2>3, <2>4, EmptyWithin, TypesFromParts
<1>11. CASE Using
  <2>1. used' \in Usages /\ UNCHANGED <<root, local, frames, faulty, status>>
    BY <1>0, <1>11 DEF Using, Record
  <2>. QED  BY <1>0, <2>1, TypesFromParts
<1>. QED
  BY <1>1, <1>2, <1>3, <1>4, <1>5, <1>6, <1>7, <1>8, <1>9, <1>10, <1>11, StepForms

LEMMA TypeInit ==
  ASSUME Init
  PROVE  TypeOK
<1>1. /\ frames \in Seq(FrameKinds) /\ Depth = 0 /\ Depth <= MaxDepth
      /\ faulty \in BOOLEAN /\ status \in Statuses /\ used \in Usages
  <2>1. frames \in Seq(FrameKinds) /\ Len(frames) = 0
    BY DEF Init
  <2>2. faulty \in BOOLEAN /\ status \in Statuses /\ used \in Usages
    BY DEF Init, Statuses, Usages
  <2>. QED  BY <2>1, <2>2, BoundsAssumption DEF Depth
<1>2. Function(<<>>, TRUE, FALSE, 0, Gone) \in Symbols
  <2>1. 0 \in Owners /\ Gone \in Owners /\ 0 \in Types \union {0}
    BY BoundsAssumption DEF Owners, Gone
  <2>2. <<>> \in [1..0 -> [name : ParameterNames, type : Types]] /\ 0 \in 0..MaxParameters
    BY BoundsAssumption
  <2>. QED  BY <2>1, <2>2, NewSymbols DEF Parameters
<1>3. Within(root, 0)
  BY <1>2, NamesAssumption DEF Init, Within, IsTable, Function, Gone
<1>. QED  BY <1>1, <1>3, EmptyWithin DEF Init, TypeOK, Within

LEMMA TypeStutter ==
  ASSUME TypeOK, UNCHANGED vars
  PROVE  TypeOK'
  BY DEF TypeOK, vars, Depth

(* Tables hold symbols, and every statement a symbol refers to is in a group *)
(* that is still being visited.                                              *)
THEOREM TypeCorrect == Spec => []TypeOK
<1>1. Init => TypeOK
  BY TypeInit
<1>2. TypeOK /\ [Next]_vars => TypeOK'
  BY TypeStep, TypeStutter
<1>. QED  BY <1>1, <1>2, PTL DEF Spec

-----------------------------------------------------------------------------
(* Defined variables stay declared *)

Keeps(table) == \A n \in DOMAIN table : KeepsDeclaration(table[n])

LEMMA KeepsExpired ==
  ASSUME NEW table, IsTable(table), Keeps(table), NEW level \in Nat
  PROVE  Keeps(Expired(table, level))
<1>1. /\ DOMAIN Expired(table, level) = DOMAIN table
      /\ \A n \in DOMAIN table :
           /\ Moved(table[n], Expired(table, level)[n])
           /\ Expired(table, level)[n].decl = Expire(table[n].decl, level)
           /\ Expired(table, level)[n].def = Expire(table[n].def, level)
  BY ExpiredFacts
<1>2. \A n \in DOMAIN table : table[n].decl \in Int /\ table[n].def \in Int
  BY SymbolFacts DEF IsTable, Symbol
<1>. QED  BY <1>1, <1>2 DEF Keeps, KeepsDeclaration, Moved, Expire, Gone

LEMMA KeepsLowered ==
  ASSUME NEW table, Within(table, Depth), Keeps(table), Depth \in Nat, Depth > 0
  PROVE  Keeps(Lowered(table))
<1>1. /\ DOMAIN Lowered(table) = DOMAIN table
      /\ \A n \in DOMAIN table :
           /\ Moved(table[n], Lowered(table)[n])
           /\ Lowered(table)[n].decl = Lower(table[n].decl)
           /\ Lowered(table)[n].def = Lower(table[n].def)
  BY LoweredFacts DEF Within
<1>2. \A n \in DOMAIN table : /\ table[n].decl \in Int /\ table[n].def \in Int
                              /\ table[n].decl >= Gone /\ table[n].def >= Gone
                              /\ table[n].decl <= Depth /\ table[n].def <= Depth
  BY SymbolFacts DEF Within, IsTable, Symbol
<1>. QED  BY <1>1, <1>2 DEF Keeps, KeepsDeclaration, Moved, Lower, Gone

LEMMA KeepsPut ==
  ASSUME NEW table, Keeps(table), NEW name, NEW symbol, KeepsDeclaration(symbol)
  PROVE  Keeps(Put(table, name, symbol))
  BY DEF Keeps, Put

LEMMA KeepsDefined ==
  ASSUME NEW s \in Symbols, s.decl <= Depth, Depth \in Owners, Depth # Gone
  PROVE  KeepsDeclaration(Defined(s, Depth))
<1>1. s.decl \in Int /\ Depth \in Int
  BY SymbolFacts, BoundsAssumption DEF Symbol, Owners, Gone
<1>2. /\ Defined(s, Depth).def = Depth
      /\ Defined(s, Depth).decl = (IF s.decl = Gone THEN Depth ELSE s.decl)
  BY DefinedFacts
<1>. QED  BY <1>1, <1>2 DEF KeepsDeclaration, Gone

LEMMA KeepStep ==
  ASSUME TypeOK, Next, Keeps(root), Keeps(local)
  PROVE  Keeps(root') /\ Keeps(local')
<1>0. /\ Depth \in Nat /\ Depth \in Owners /\ Depth # Gone /\ IsTable(root) /\ IsTable(local)
      /\ Within(root, Depth) /\ Within(local, Depth)
  BY FrameFacts, TableFacts DEF Gone, TypeOK
<1>. DEFINE Goal == Keeps(root') /\ Keeps(local')
<1>1. CASE Failing
  <2>1. PICK level \in {Depth, Depth + 1} :
          root' = Expired(root, level) /\ local' = Expired(local, level)
    BY <1>1 DEF Failing, Raise
  <2>. QED  BY <1>0, <2>1, KeepsExpired
<1>2. CASE Stopping
  BY <1>2 DEF Stopping, Stop, Keeps, EmptyTable
<1>3. CASE Opening \/ Using
  <2>1. root' = root /\ local' = local
    BY <1>3 DEF Opening, Open, Using, Record
  <2>. QED  BY <2>1
<1>4. CASE Close \/ EndFunction
  <2>1. root' = Lowered(root) /\ local' \in {Lowered(local), EmptyTable} /\ Depth > 0
    BY <1>4, FrameFacts DEF Close, EndFunction
  <2>2. Keeps(EmptyTable)
    BY DEF Keeps, EmptyTable
  <2>. QED  BY <1>0, <2>1, <2>2, KeepsLowered
<1>5. CASE Introducing
  <2>1. PICK name \in Names, kind \in {"variable", "array"}, type \in Types, def \in {Gone, Depth} :
          Register(name, Variable(kind, type, Depth, def))
    BY <1>5 DEF Introducing
  <2>2. KeepsDeclaration(Variable(kind, type, Depth, def))
    BY <1>0 DEF KeepsDeclaration, Variable
  <2>. QED  BY <2>1, <2>2, KeepsPut DEF Register
<1>6. CASE Completing
  <2>1. PICK name \in Names :
          IsDeclared(name) /\ Replace(name, Defined(GetSymbol(name), Depth))
    BY <1>6 DEF Completing
  <2>2. GetSymbol(name) \in Symbols /\ GetSymbol(name).decl <= Depth
    BY <1>0, <2>1 DEF GetSymbol, IsDeclared, DeclaredIn, Within, IsTable
  <2>3. KeepsDeclaration(Defined(GetSymbol(name), Depth))
    BY <1>0, <2>2, KeepsDefined
  <2>. QED  BY <2>1, <2>3, KeepsPut DEF Replace
<1>7. CASE Announcing
  <2>1. PICK name \in Names, parameters \in Parameters :
          root' = Put(root, name, Function(parameters, FALSE, FALSE, Depth, Gone))
          /\ local' = local
    BY <1>7 DEF Announcing
  <2>2. KeepsDeclaration(Function(parameters, FALSE, FALSE, Depth, Gone))
    BY DEF KeepsDeclaration, Function
  <2>. QED  BY <2>1, <2>2, KeepsPut
<1>8. CASE Repeating
  <2>1. PICK name \in Names :
          /\ DeclaredIn(root, name) /\ root[name].kind = "function"
          /\ root' = [root EXCEPT ![name].decl = Depth] /\ local' = local
    BY <1>8 DEF Repeating
  <2>2. /\ DOMAIN root' = DOMAIN root /\ \A n \in DOMAIN root : n # name => root'[n] = root[n]
        /\ root'[name].kind = "function"
    BY <1>0, <2>1 DEF DeclaredIn, IsTable, Symbols
  <2>. QED  BY <2>1, <2>2 DEF Keeps, KeepsDeclaration
<1>9. CASE Entering
  <2>1. PICK name, parameters, s :
          /\ name \in Names /\ parameters \in Parameters
          /\ root' = Put(root, name, s) /\ local' = ParameterTable(parameters, Depth + 1)
          /\ s.kind = "function" /\ Depth < MaxDepth
    <3>1. PICK name, parameters, s :
            /\ name \in Names /\ parameters \in Parameters
            /\ EnterFunction(name, s, parameters) /\ Depth < MaxDepth
            /\ \/ s = Function(parameters, FALSE, TRUE, Depth + 1, Depth + 1)
               \/ /\ DeclaredIn(root, name) /\ root[name].kind = "function"
                  /\ s = [Defined(root[name], Depth + 1) EXCEPT !.context = TRUE]
      BY <1>9 DEF Entering
    <3>2. s.kind = "function"
      <4>1. CASE s = Function(parameters, FALSE, TRUE, Depth + 1, Depth + 1)
        BY <4>1 DEF Function
      <4>2. CASE /\ DeclaredIn(root, name) /\ root[name].kind = "function"
                 /\ s = [Defined(root[name], Depth + 1) EXCEPT !.context = TRUE]
        BY <1>0, <4>2 DEF Defined, DeclaredIn, IsTable, Symbols
      <4>. QED  BY <3>1, <4>1, <4>2
    <3>. QED  BY <3>1, <3>2 DEF EnterFunction
  <2>2. Depth + 1 \in Owners
    BY <1>0, <2>1, BoundsAssumption DEF Owners, Gone
  <2>3. \A n \in DOMAIN local' : local'[n].decl = Depth + 1 /\ local'[n].def = Depth + 1
    BY <2>1, <2>2, ParameterTableFacts
  <2>4. Keeps(local')
    BY <1>0, <2>3 DEF Keeps, KeepsDeclaration, Gone
  <2>5. KeepsDeclaration(s)
    BY <2>1 DEF KeepsDeclaration
  <2>. QED  BY <2>1, <2>4, <2>5, KeepsPut
<1>. QED  BY <1>1, <1>2, <1>3, <1>4, <1>5, <1>6, <1>7, <1>8, <1>9, StepForms

(* Whatever errors drop and in whatever order declarations and definitions   *)
(* come, a variable or an array that is defined is declared, and by a        *)
(* statement that lasts at least as long as its definition.                  *)
THEOREM DeclarationsKept == Spec => []VariablesKeepDeclarations
<1>1. Init => VariablesKeepDeclarations
  BY DEF Init, VariablesKeepDeclarations, KeepsDeclaration, Function, EmptyTable
<1>2. TypeOK /\ VariablesKeepDeclarations /\ [Next]_vars => VariablesKeepDeclarations'
  <2>1. ASSUME TypeOK, VariablesKeepDeclarations, Next
        PROVE  VariablesKeepDeclarations'
    BY <2>1, KeepStep DEF VariablesKeepDeclarations, Keeps
  <2>2. VariablesKeepDeclarations /\ UNCHANGED vars => VariablesKeepDeclarations'
    BY DEF VariablesKeepDeclarations, vars
  <2>. QED  BY <2>1, <2>2
<1>. QED  BY <1>1, <1>2, TypeCorrect, PTL DEF Spec

-----------------------------------------------------------------------------
(* Tables without errors *)

(* What is expected of the two tables as long as no error was reported.      *)
RootLive(table) ==
  \A n \in DOMAIN table :
    /\ table[n].decl # Gone
    /\ table[n].kind = "function" => (table[n].context <=> table[n].def # Gone)
LocalLive(table) ==
  \A n \in DOMAIN table : table[n].decl # Gone /\ table[n].kind # "function"

LEMMA LiveLowered ==
  ASSUME NEW table, Within(table, Depth), Depth \in Nat, Depth > 0
  PROVE  /\ RootLive(table) => RootLive(Lowered(table))
         /\ LocalLive(table) => LocalLive(Lowered(table))
<1>1. /\ DOMAIN Lowered(table) = DOMAIN table
      /\ \A n \in DOMAIN table :
           /\ Moved(table[n], Lowered(table)[n])
           /\ Lowered(table)[n].decl = Lower(table[n].decl)
           /\ Lowered(table)[n].def = Lower(table[n].def)
  BY LoweredFacts DEF Within
<1>2. \A n \in DOMAIN table : Lower(table[n].decl) # Gone <=> table[n].decl # Gone
  BY SymbolFacts DEF Within, IsTable, Symbol, Lower, Gone
<1>3. \A n \in DOMAIN table : Lower(table[n].def) # Gone <=> table[n].def # Gone
  BY SymbolFacts DEF Within, IsTable, Symbol, Lower, Gone
<1>. QED  BY <1>1, <1>2, <1>3 DEF RootLive, LocalLive, Moved

LEMMA LiveStep ==
  ASSUME TypeOK, Next, ~ faulty', RootLive(root), LocalLive(local)
  PROVE  RootLive(root') /\ LocalLive(local')
<1>0. /\ Depth \in Nat /\ Depth \in Owners /\ Depth # Gone /\ IsTable(root) /\ IsTable(local)
      /\ Within(root, Depth) /\ Within(local, Depth)
  BY FrameFacts, TableFacts DEF Gone, TypeOK
<1>1. CASE Failing
  BY <1>1 DEF Failing, Raise
<1>2. CASE Stopping
  BY <1>2 DEF Stopping, Stop, RootLive, LocalLive, EmptyTable
<1>3. CASE Opening \/ Using
  <2>1. root' = root /\ local' = local
    BY <1>3 DEF Opening, Open, Using, Record
  <2>. QED  BY <2>1
<1>4. CASE Close \/ EndFunction
  <2>1. root' = Lowered(root) /\ local' \in {Lowered(local), EmptyTable} /\ Depth > 0
    BY <1>4, FrameFacts DEF Close, EndFunction
  <2>2. LocalLive(EmptyTable)
    BY DEF LocalLive, EmptyTable
  <2>. QED  BY <1>0, <2>1, <2>2, LiveLowered
<1>5. CASE Introducing
  <2>1. PICK name \in Names, kind \in {"variable", "array"}, type \in Types, def \in {Gone, Depth} :
          Register(name, Variable(kind, type, Depth, def))
    BY <1>5 DEF Introducing
  <2>2. /\ Variable(kind, type, Depth, def).decl # Gone
        /\ Variable(kind, type, Depth, def).kind # "function"
    BY <1>0 DEF Variable
  <2>. QED  BY <2>1, <2>2 DEF Register, Put, RootLive, LocalLive
<1>6. CASE Completing
  <2>1. PICK name \in Names :
          /\ IsDeclared(name) /\ GetSymbol(name).kind # "function"
          /\ Replace(name, Defined(GetSymbol(name), Depth))
    BY <1>6 DEF Completing
  <2>2. GetSymbol(name) \in Symbols /\ GetSymbol(name).decl <= Depth
    BY <1>0, <2>1 DEF GetSymbol, IsDeclared, DeclaredIn, Within, IsTable
  <2>. DEFINE t == Defined(GetSymbol(name), Depth)
  <2>3. t.kind # "function" /\ t.decl # Gone
    BY <1>0, <2>1, <2>2, DefinedFacts DEF Moved
  <2>4. Replace(name, t)
    BY <2>1
  <2>. HIDE DEF t
  <2>. QED  BY <2>3, <2>4 DEF Replace, Put, RootLive, LocalLive
<1>7. CASE Announcing
  <2>1. PICK name \in Names, parameters \in Parameters :
          root' = Put(root, name, Function(parameters, FALSE, FALSE, Depth, Gone))
          /\ local' = local
    BY <1>7 DEF Announcing
  <2>. DEFINE t == Function(parameters, FALSE, FALSE, Depth, Gone)
  <2>2. t.decl # Gone /\ t.context = FALSE /\ t.def = Gone
    BY <1>0 DEF Function
  <2>3. root' = Put(root, name, t) /\ local' = local
    BY <2>1
  <2>. HIDE DEF t
  <2>. QED  BY <2>2, <2>3 DEF Put, RootLive
<1>8. CASE Repeating
  <2>1. PICK name \in Names :
          /\ DeclaredIn(root, name) /\ root' = [root EXCEPT ![name].decl = Depth] /\ local' = local
    BY <1>8 DEF Repeating
  <2>2. /\ DOMAIN root' = DOMAIN root /\ \A n \in DOMAIN root : n # name => root'[n] = root[n]
        /\ root'[name].kind = root[name].kind /\ root'[name].def = root[name].def
        /\ root'[name].context = root[name].context /\ root'[name].decl = Depth
        /\ name \in DOMAIN root
    BY <1>0, <2>1 DEF DeclaredIn, IsTable, Symbols
  <2>. QED  BY <1>0, <2>1, <2>2 DEF RootLive
<1>9. CASE Entering
  <2>1. PICK name, parameters, s :
          /\ name \in Names /\ parameters \in Parameters
          /\ EnterFunction(name, s, parameters) /\ Depth < MaxDepth
          /\ \/ s = Function(parameters, FALSE, TRUE, Depth + 1, Depth + 1)
             \/ /\ DeclaredIn(root, name)
                /\ s = [Defined(root[name], Depth + 1) EXCEPT !.context = TRUE]
    BY <1>9 DEF Entering
  <2>2. Depth + 1 \in Owners /\ Depth + 1 # Gone
    BY <1>0, <2>1, BoundsAssumption DEF Owners, Gone
  <2>3. s.decl # Gone /\ s.context = TRUE /\ s.def # Gone
    <3>1. CASE s = Function(parameters, FALSE, TRUE, Depth + 1, Depth + 1)
      BY <2>2, <3>1 DEF Function
    <3>2. CASE /\ DeclaredIn(root, name)
               /\ s = [Defined(root[name], Depth + 1) EXCEPT !.context = TRUE]
      <4>1. root[name] \in Symbols /\ root[name].decl \in Int /\ root[name].decl <= Depth
        BY <1>0, <3>2, SymbolFacts DEF DeclaredIn, Within, IsTable, Symbol
      <4>2. root[name].decl <= Depth + 1
        BY <1>0, <4>1
      <4>3. /\ s.context = TRUE /\ s.def = Depth + 1
            /\ s.decl = (IF root[name].decl = Gone THEN Depth + 1 ELSE root[name].decl)
        BY <2>2, <3>2, <4>1, <4>2, EnteredFacts
      <4>. QED  BY <2>2, <4>3
    <3>. QED  BY <2>1, <3>1, <3>2
  <2>4. root' = Put(root, name, s) /\ local' = ParameterTable(parameters, Depth + 1)
    BY <2>1 DEF EnterFunction
  <2>5. \A n \in DOMAIN local' : local'[n].decl = Depth + 1 /\ local'[n].kind = "variable"
    <3>1. parameters \in Parameters
      BY <2>1
    <3>. QED  BY <3>1, <2>2, <2>4, ParameterTableFacts
  <2>. QED  BY <2>2, <2>3, <2>4, <2>5 DEF Put, RootLive, LocalLive
<1>. QED  BY <1>1, <1>2, <1>3, <1>4, <1>5, <1>6, <1>7, <1>8, <1>9, StepForms

(* No step takes an error back.                                              *)
LEMMA FaultsStay ==
  ASSUME TypeOK, Next, faulty
  PROVE  faulty'
<1>1. CASE Failing
  BY <1>1 DEF Failing, Raise
<1>2. CASE ~ Failing
  <2>1. faulty' = faulty
    BY <1>2, StepForms
       DEF Stopping, Stop, Opening, Open, Close, Introducing, Completing, Announcing,
           Repeating, Entering, EnterFunction, EndFunction, Using, Record
  <2>. QED  BY <2>1
<1>. QED  BY <1>1, <1>2

(* As long as no error was reported, every symbol of a table has a living    *)
(* declaration, so that none hides the parent's for nothing, and a function  *)
(* that is only declared has no context.                                     *)
THEOREM LiveTables == Spec => []TablesAreLive
<1>1. Init => TablesAreLive
  BY DEF Init, TablesAreLive, Function, EmptyTable, Gone
<1>2. TypeOK /\ TablesAreLive /\ [Next]_vars => TablesAreLive'
  <2>1. ASSUME TypeOK, TablesAreLive, Next
        PROVE  TablesAreLive'
    <3>1. SUFFICES ASSUME ~ faulty'
                   PROVE  RootLive(root') /\ LocalLive(local')
      BY DEF TablesAreLive, RootLive, LocalLive
    <3>2. RootLive(root) /\ LocalLive(local)
      BY <2>1, <3>1, FaultsStay DEF TablesAreLive, RootLive, LocalLive
    <3>. QED  BY <2>1, <3>1, <3>2, LiveStep
  <2>2. TablesAreLive /\ UNCHANGED vars => TablesAreLive'
    BY DEF TablesAreLive, vars
  <2>. QED  BY <2>1, <2>2
<1>. QED  BY <1>1, <1>2, TypeCorrect, PTL DEF Spec

-----------------------------------------------------------------------------
(* The function being visited *)

(* There is one at a time, and its table is empty when there is none.        *)
OneFunction ==
  \A i \in 1..Depth : frames[i] \in Bodies =>
    \A j \in 1..Depth : frames[j] \in Bodies => i = j
Emptied == ~ InFunction => DOMAIN local = {}

LEMMA InsideFacts ==
  ASSUME TypeOK
  PROVE  /\ Top \in Groups /\ frames' = Leave =>
              /\ InFunction' <=> InFunction
              /\ OneFunction => OneFunction'
         /\ \A kind \in FrameKinds : frames' = Append(frames, kind) =>
              /\ InFunction' <=> (InFunction \/ kind \in Bodies)
              /\ OneFunction /\ ~ (InFunction /\ kind \in Bodies) => OneFunction'
         /\ Depth > 0 /\ frames' = SubSeq(frames, 1, Depth - 1) =>
              /\ OneFunction => OneFunction'
              /\ OneFunction /\ frames[Depth] \in Bodies => ~ InFunction'
<1>0. /\ Depth' = Len(frames') /\ Depth = Len(frames) /\ Depth \in Nat
      /\ frames \in Seq(FrameKinds)
  BY FrameFacts DEF Depth, TypeOK
<1>1. ASSUME Top \in Groups, frames' = Leave
      PROVE  (InFunction' <=> InFunction) /\ (OneFunction => OneFunction')
  <2>1. /\ Depth > 0 /\ Depth' = Depth - 1 /\ frames[Depth] \notin Bodies
        /\ \A i \in 1..(Depth - 1) : frames'[i] \in Bodies <=> frames[i] \in Bodies
    BY <1>0, <1>1, LeaveFacts
  <2>2. \A i : i \in 1..Depth <=> i \in 1..(Depth - 1) \/ i = Depth
    BY <1>0, <2>1
  <2>. QED  BY <1>0, <2>1, <2>2 DEF InFunction, OneFunction, Bodies
<1>2. ASSUME NEW kind \in FrameKinds, frames' = Append(frames, kind)
      PROVE  /\ InFunction' <=> (InFunction \/ kind \in Bodies)
             /\ OneFunction /\ ~ (InFunction /\ kind \in Bodies) => OneFunction'
  <2>1. /\ Depth' = Depth + 1 /\ frames'[Depth + 1] = kind
        /\ \A i \in 1..Depth : frames'[i] = frames[i]
    BY <1>0, <1>2
  <2>2. \A i : i \in 1..(Depth + 1) <=> i \in 1..Depth \/ i = Depth + 1
    BY <1>0
  <2>. QED  BY <1>0, <2>1, <2>2 DEF InFunction, OneFunction, Bodies
<1>3. ASSUME Depth > 0, frames' = SubSeq(frames, 1, Depth - 1)
      PROVE  /\ OneFunction => OneFunction'
             /\ OneFunction /\ frames[Depth] \in Bodies => ~ InFunction'
  <2>1. Depth' = Depth - 1 /\ \A i \in 1..(Depth - 1) : frames'[i] = frames[i]
    BY <1>0, <1>3
  <2>2. \A i \in 1..(Depth - 1) : i \in 1..Depth /\ i # Depth /\ Depth \in 1..Depth
    BY <1>0
  <2>. QED  BY <1>0, <2>1, <2>2 DEF InFunction, OneFunction, Bodies
<1>. QED  BY <1>1, <1>2, <1>3

LEMMA SameFrames ==
  ASSUME frames' = frames
  PROVE  (InFunction' <=> InFunction) /\ (OneFunction => OneFunction') /\ Depth' = Depth
  BY DEF InFunction, OneFunction, Depth

LEMMA InsideStep ==
  ASSUME TypeOK, Next, OneFunction, Emptied
  PROVE  OneFunction' /\ Emptied'
<1>0. Depth \in Nat /\ IsTable(root) /\ IsTable(local) /\ Within(local, Depth)
  BY FrameFacts, TableFacts DEF TypeOK
<1>1. CASE Failing
  <2>1. PICK level \in {Depth, Depth + 1} :
          /\ level = Depth => Top \in Groups
          /\ local' = Expired(local, level)
          /\ frames' = IF level > Depth THEN frames ELSE Leave
    BY <1>1 DEF Failing, Raise
  <2>2. DOMAIN local' = DOMAIN local
    BY <2>1 DEF Expired
  <2>3. frames' = frames \/ (Top \in Groups /\ frames' = Leave)
    BY <1>0, <2>1
  <2>. QED  BY <2>2, <2>3, InsideFacts, SameFrames DEF Emptied
<1>2. CASE Stopping
  <2>1. local' = EmptyTable /\ frames' = <<>>
    BY <1>2 DEF Stopping, Stop
  <2>2. Depth' = 0
    BY <2>1 DEF Depth
  <2>. QED  BY <2>1, <2>2 DEF Emptied, EmptyTable, OneFunction
<1>3. CASE Opening
  <2>1. PICK kind \in FrameKinds : kind \notin Bodies /\ frames' = Append(frames, kind) /\ local' = local
    BY <1>3 DEF Opening, Open, Groups, FrameKinds, Bodies
  <2>. QED  BY <2>1, InsideFacts DEF Emptied
<1>4. CASE Close
  <2>1. Top \in Groups /\ frames' = Leave /\ local' = Lowered(local)
    BY <1>4 DEF Close, Groups
  <2>. QED  BY <2>1, InsideFacts DEF Emptied, Lowered
<1>5. CASE Introducing
  <2>1. frames' = frames /\ (local' = local \/ InFunction)
    BY <1>5 DEF Introducing, Register
  <2>. QED  BY <2>1, SameFrames DEF Emptied
<1>6. CASE Completing
  <2>1. PICK name : frames' = frames /\ Replace(name, Defined(GetSymbol(name), Depth))
    BY <1>6 DEF Completing
  <2>2. DOMAIN local' = DOMAIN local
    BY <2>1 DEF Replace, Put
  <2>. QED  BY <2>1, <2>2, SameFrames DEF Emptied
<1>7. CASE Announcing \/ Repeating \/ Using
  <2>1. frames' = frames /\ local' = local
    BY <1>7 DEF Announcing, Repeating, Using, Record
  <2>. QED  BY <2>1, SameFrames DEF Emptied
<1>8. CASE Entering
  <2>1. frames' = Append(frames, "function") /\ ~ InFunction
    BY <1>8 DEF Entering, EnterFunction
  <2>2. "function" \in FrameKinds /\ "function" \in Bodies
    BY DEF FrameKinds, Bodies
  <2>. QED  BY <2>1, <2>2, InsideFacts DEF Emptied
<1>9. CASE EndFunction
  <2>1. Depth > 0 /\ frames' = SubSeq(frames, 1, Depth - 1) /\ local' = EmptyTable
    BY <1>9, FrameFacts DEF EndFunction
  <2>. QED  BY <2>1, InsideFacts DEF Emptied, EmptyTable
<1>. QED  BY <1>1, <1>2, <1>3, <1>4, <1>5, <1>6, <1>7, <1>8, <1>9, StepForms

(* The invariant of the analysis: with it, the tables keep what they say.    *)
IInv == TypeOK /\ VariablesKeepDeclarations /\ TablesAreLive /\ OneFunction /\ Emptied

LEMMA Invariant == Spec => []IInv
<1>. DEFINE Inside == OneFunction /\ Emptied
<1>1. Init => Inside
  <2>1. Init => Depth = 0 /\ DOMAIN local = {}
    BY DEF Init, Depth, EmptyTable
  <2>. QED  BY <2>1 DEF OneFunction, Emptied
<1>2. TypeOK /\ Inside /\ [Next]_vars => Inside'
  <2>1. Inside /\ UNCHANGED vars => Inside'
    BY SameFrames DEF vars, Emptied
  <2>. QED  BY <2>1, InsideStep
<1>3. Spec => []Inside
  BY <1>1, <1>2, TypeCorrect, PTL DEF Spec
<1>4. TypeOK /\ VariablesKeepDeclarations /\ TablesAreLive /\ Inside => IInv
  BY DEF IInv
<1>. QED  BY <1>3, <1>4, TypeCorrect, DeclarationsKept, LiveTables, PTL

-----------------------------------------------------------------------------
(* Usages *)

(* A name that one table has stands for the same in the next.                *)
SameName(table, next, n) ==
  n \in DOMAIN table =>
    /\ n \in DOMAIN next
    /\ next[n].kind = table[n].kind /\ next[n].type = table[n].type
    /\ next[n].parameters = table[n].parameters /\ next[n].variadic = table[n].variadic
    /\ table[n].decl # Gone => next[n].decl # Gone
    /\ table[n].def # Gone => next[n].def # Gone

LEMMA SameNamesLowered ==
  ASSUME NEW table, Within(table, Depth), Depth \in Nat, Depth > 0
  PROVE  \A n : SameName(table, Lowered(table), n)
<1>1. /\ DOMAIN Lowered(table) = DOMAIN table
      /\ \A n \in DOMAIN table :
           /\ Moved(table[n], Lowered(table)[n])
           /\ Lowered(table)[n].decl = Lower(table[n].decl)
           /\ Lowered(table)[n].def = Lower(table[n].def)
  BY LoweredFacts DEF Within
<1>2. \A o \in Int : o # Gone => Lower(o) # Gone
  BY DEF Lower, Gone
<1>3. \A n \in DOMAIN table : table[n].decl \in Int /\ table[n].def \in Int
  BY SymbolFacts DEF Within, IsTable, Symbol
<1>. QED  BY <1>1, <1>2, <1>3 DEF SameName, Moved

(* Without errors the root table only grows, and so does the function's      *)
(* until it ends; what it gains does not hide a defined name of the root.    *)
LEMMA NamesKept ==
  ASSUME IInv, Next, ~ faulty', status' = "running"
  PROVE  /\ \A n : SameName(root, root', n)
         /\ \/ EndFunction
            \/ \A n : /\ SameName(local, local', n)
                      /\ n \notin DOMAIN local /\ DefinedIn(root, n) => n \notin DOMAIN local'
<1>. USE DEF IInv
<1>0. /\ Depth \in Nat /\ Depth \in Owners /\ Depth # Gone /\ IsTable(root) /\ IsTable(local)
      /\ Within(root, Depth) /\ Within(local, Depth)
      /\ \A n \in DOMAIN root : root[n].decl # Gone /\ root[n] \in Symbols
      /\ \A n \in DOMAIN local : local[n].decl # Gone /\ local[n] \in Symbols
      /\ \A n \in DOMAIN root : SameName(root, root, n)
  BY FrameFacts, TableFacts, FaultsStay DEF Gone, TypeOK, TablesAreLive, SameName
<1>1. ~ Failing /\ ~ Stopping
  BY DEF Failing, Raise, Stopping, Stop
<1>3. CASE Opening \/ Using
  <2>1. root' = root /\ local' = local
    BY <1>3 DEF Opening, Open, Using, Record
  <2>. QED  BY <2>1 DEF SameName
<1>4. CASE Close \/ EndFunction
  <2>1. Depth > 0 /\ root' = Lowered(root) /\ (EndFunction \/ local' = Lowered(local))
    BY <1>4, FrameFacts DEF Close, EndFunction
  <2>2. DOMAIN Lowered(local) = DOMAIN local
    BY DEF Lowered
  <2>. QED  BY <1>0, <2>1, <2>2, SameNamesLowered
<1>5. CASE Introducing
  <2>1. PICK name, symbol :
          /\ name \in Names
          /\ Register(name, symbol) /\ ~ IsDeclared(name) /\ ~ IsDefined(name)
    BY <1>5 DEF Introducing
  <2>2. name \notin DOMAIN root /\ name \notin DOMAIN local
    BY <1>0, <2>1 DEF IsDeclared, DeclaredIn
  <2>. QED  BY <2>1, <2>2 DEF Register, Put, SameName, DefinedIn
<1>6. CASE Completing
  <2>1. PICK name \in Names : IsDeclared(name) /\ Replace(name, Defined(GetSymbol(name), Depth))
    BY <1>6 DEF Completing
  <2>. DEFINE s == GetSymbol(name)
              t == Defined(s, Depth)
  <2>2. s \in Symbols /\ s.decl <= Depth
    BY <1>0, <2>1 DEF GetSymbol, IsDeclared, DeclaredIn, Within
  <2>3. /\ t.kind = s.kind /\ t.type = s.type /\ t.parameters = s.parameters
        /\ t.variadic = s.variadic /\ t.decl # Gone /\ t.def # Gone
    <3>. HIDE DEF s
    <3>1. /\ Moved(s, t) /\ t.def = Depth
          /\ t.decl = (IF s.decl = Gone THEN Depth ELSE s.decl)
      BY <1>0, <2>2, DefinedFacts
    <3>. QED  BY <1>0, <3>1 DEF Moved
  <2>. HIDE DEF t
  <2>4. CASE name \in DOMAIN local
    <3>1. s = local[name] /\ local' = Put(local, name, t) /\ root' = root
      BY <2>1, <2>4 DEF Replace, GetSymbol, t
    <3>. QED  BY <2>3, <2>4, <3>1 DEF Put, SameName
  <2>5. CASE name \notin DOMAIN local
    <3>1. s = root[name] /\ root' = Put(root, name, t) /\ local' = local
      BY <2>1, <2>5 DEF Replace, GetSymbol, t
    <3>. QED  BY <2>3, <2>5, <3>1 DEF Put, SameName
  <2>. QED  BY <2>4, <2>5
<1>7. CASE Announcing
  <2>1. PICK name, symbol :
          /\ name \in Names
          /\ ~ DeclaredIn(root, name) /\ root' = Put(root, name, symbol) /\ local' = local
    BY <1>7 DEF Announcing
  <2>2. name \notin DOMAIN root
    BY <1>0, <2>1 DEF DeclaredIn
  <2>. QED  BY <2>1, <2>2 DEF Put, SameName
<1>8. CASE Repeating
  <2>1. PICK name \in Names :
          /\ DeclaredIn(root, name) /\ root' = [root EXCEPT ![name].decl = Depth] /\ local' = local
    BY <1>8 DEF Repeating
  <2>2. /\ DOMAIN root' = DOMAIN root /\ \A n \in DOMAIN root : n # name => root'[n] = root[n]
        /\ Moved(root[name], root'[name]) /\ root'[name].def = root[name].def
        /\ root'[name].decl = Depth /\ name \in DOMAIN root
    BY <1>0, <2>1 DEF DeclaredIn, Symbols, Moved
  <2>. QED  BY <1>0, <2>1, <2>2 DEF SameName, Moved
<1>9. CASE Entering
  <2>1. PICK name, parameters, s :
          /\ name \in Names /\ parameters \in Parameters
          /\ EnterFunction(name, s, parameters) /\ Depth < MaxDepth /\ ~ InFunction
          /\ \A i \in DOMAIN parameters : ~ DefinedIn(root, parameters[i].name)
          /\ \/ ~ DeclaredIn(root, name)
             \/ /\ DeclaredIn(root, name)
                /\ s = [Defined(root[name], Depth + 1) EXCEPT !.context = TRUE]
    BY <1>9 DEF Entering
  <2>2. Depth + 1 \in Owners /\ Depth + 1 # Gone
    BY <1>0, <2>1, BoundsAssumption DEF Owners, Gone
  <2>3. root' = Put(root, name, s) /\ local' = ParameterTable(parameters, Depth + 1)
    BY <2>1 DEF EnterFunction
  <2>4. DOMAIN local = {} /\ DOMAIN local' = {parameters[i].name : i \in DOMAIN parameters}
    BY <2>1, <2>3 DEF Emptied, ParameterTable
  <2>5. \A n : /\ SameName(local, local', n)
               /\ n \notin DOMAIN local /\ DefinedIn(root, n) => n \notin DOMAIN local'
    BY <2>1, <2>4 DEF SameName
  <2>6. \A n : SameName(root, root', n)
    <3>1. CASE ~ DeclaredIn(root, name)
      <4>1. name \notin DOMAIN root
        BY <1>0, <3>1 DEF DeclaredIn
      <4>. QED  BY <2>3, <4>1 DEF Put, SameName
    <3>2. CASE /\ DeclaredIn(root, name)
               /\ s = [Defined(root[name], Depth + 1) EXCEPT !.context = TRUE]
      <4>1. root[name] \in Symbols /\ root[name].decl \in Int /\ root[name].decl <= Depth
        BY <1>0, <3>2, SymbolFacts DEF DeclaredIn, Within, Symbol
      <4>2. root[name].decl <= Depth + 1
        BY <1>0, <4>1
      <4>3. /\ s.kind = root[name].kind /\ s.parameters = root[name].parameters
            /\ s.variadic = root[name].variadic /\ s.def = Depth + 1
            /\ s.decl = (IF root[name].decl = Gone THEN Depth + 1 ELSE root[name].decl)
        BY <2>2, <3>2, <4>1, <4>2, EnteredFacts
      <4>4. s.type = root[name].type
        BY <3>2, <4>1 DEF Defined, Symbols
      <4>. QED  BY <2>2, <2>3, <4>3, <4>4 DEF Put, SameName
    <3>. QED  BY <2>1, <3>1, <3>2
  <2>. QED  BY <2>5, <2>6
<1>. QED  BY <1>1, <1>3, <1>4, <1>5, <1>6, <1>7, <1>8, <1>9, StepForms

(* What is expected of an accepted usage.                                    *)
BoundFunction(u) ==
  /\ DeclaredIn(root, u.name) /\ root[u.name].kind = "function"
  /\ root[u.name].variadic \/ Fits(root[u.name].parameters, u.arguments)
BoundObject(u) == IsDefined(u.name) /\ GetSymbol(u.name).kind \in {u.as, "array"}

LEMMA UsageParts ==
  ASSUME NEW u \in Usages
  PROVE  \/ u.as = "none"
         \/ u.as = "function" /\ u # NoUsage
         \/ u.as \in {"variable", "array"} /\ u # NoUsage
  BY DEF Usages, NoUsage

LEMMA BoundParts ==
  ASSUME used \in Usages
  PROVE  UsagesStayBound <=>
           (~ faulty => /\ used.as = "function" => BoundFunction(used)
                        /\ used.as \in {"variable", "array"} => BoundObject(used))
<1>1. CASE used.as = "none"
  BY <1>1 DEF UsagesStayBound
<1>2. CASE used.as = "function"
  BY <1>2 DEF UsagesStayBound, BoundFunction
<1>3. CASE used.as \in {"variable", "array"}
  BY <1>3 DEF UsagesStayBound, BoundObject
<1>. QED  BY <1>1, <1>2, <1>3, UsageParts

LEMMA BoundPartsNext ==
  ASSUME used' \in Usages,
         ~ faulty' => /\ used'.as = "function" => BoundFunction(used)'
                      /\ used'.as \in {"variable", "array"} => BoundObject(used)'
  PROVE  UsagesStayBound'
<1>1. CASE used'.as = "none"
  BY <1>1 DEF UsagesStayBound
<1>2. CASE used'.as = "function"
  BY <1>2 DEF UsagesStayBound, BoundFunction
<1>3. CASE used'.as \in {"variable", "array"}
  BY <1>3 DEF UsagesStayBound, BoundObject
<1>. QED  BY <1>1, <1>2, <1>3, UsageParts

LEMMA UsageStep ==
  ASSUME IInv, UsagesStayBound, Next
  PROVE  UsagesStayBound'
<1>0. TypeOK /\ TypeOK' /\ used \in Usages /\ used' \in Usages
  BY TypeStep DEF IInv, TypeOK
<1>. SUFFICES ASSUME ~ faulty'
              PROVE  /\ used'.as = "function" => BoundFunction(used)'
                     /\ used'.as \in {"variable", "array"} => BoundObject(used)'
  BY <1>0, BoundPartsNext
<1>1. ~ faulty
  BY <1>0, FaultsStay
<1>2. /\ used.as = "function" => BoundFunction(used)
      /\ used.as \in {"variable", "array"} => BoundObject(used)
  BY <1>0, <1>1, BoundParts
<1>3. CASE Stopping
  <2>1. used' = NoUsage
    BY <1>3 DEF Stopping, Stop
  <2>. QED  BY <2>1 DEF NoUsage
<1>4. CASE Using
  <2>1. PICK usage \in Usages :
          /\ used' = usage /\ root' = root /\ local' = local /\ usage # NoUsage
          /\ IF usage.as = "function"
             THEN /\ IsDeclared(usage.name) /\ GetSymbol(usage.name).kind = "function"
                  /\ \/ GetSymbol(usage.name).variadic
                     \/ Fits(GetSymbol(usage.name).parameters, usage.arguments)
             ELSE IsDefined(usage.name) /\ GetSymbol(usage.name).kind \in {usage.as, "array"}
    BY <1>1, <1>4 DEF Using, Record
  <2>2. CASE usage.as = "function"
    <3>1. usage.name \notin DOMAIN local
      BY <1>1, <2>1, <2>2 DEF GetSymbol, IInv, TablesAreLive
    <3>2. BoundFunction(usage)
      BY <2>1, <2>2, <3>1 DEF GetSymbol, IsDeclared, DeclaredIn, BoundFunction
    <3>. QED  BY <2>1, <2>2, <3>2 DEF BoundFunction, DeclaredIn
  <2>3. CASE usage.as # "function"
    BY <2>1, <2>3 DEF BoundObject, IsDefined, DefinedIn, GetSymbol
  <2>. QED  BY <2>2, <2>3
<1>5. CASE ~ Stopping /\ ~ Using
  <2>1. ~ Failing /\ status' = "running"
    BY <1>0, <1>5, StepForms
       DEF Failing, Raise, Opening, Open, CanDeclare, Close, Introducing, Completing, Announcing,
           Repeating, Entering, EnterFunction, EndFunction, Running
  <2>2. IF EndFunction THEN used' \in {used, NoUsage} /\ (used'.as # "function" => used' = NoUsage)
                       ELSE used' = used
    BY <1>0, <1>5, <2>1, StepForms
       DEF Opening, Open, Close, Introducing, Completing, Announcing,
           Repeating, Entering, EnterFunction, EndFunction
  <2>3. /\ \A n : SameName(root, root', n)
        /\ \/ EndFunction
           \/ \A n : /\ SameName(local, local', n)
                     /\ n \notin DOMAIN local /\ DefinedIn(root, n) => n \notin DOMAIN local'
    BY <2>1, NamesKept
  <2>4. CASE used'.as = "function"
    <3>1. used' = used
      BY <2>2, <2>4 DEF NoUsage
    <3>. QED  BY <1>2, <2>3, <2>4, <3>1 DEF BoundFunction, DeclaredIn, SameName
  <2>5. CASE used'.as \in {"variable", "array"}
    <3>1. ~ EndFunction /\ used' = used
      BY <2>2, <2>5 DEF NoUsage
    <3>2. BoundObject(used)
      BY <1>2, <2>5, <3>1
    <3>3. CASE used.name \in DOMAIN local
      BY <2>3, <2>5, <3>1, <3>2, <3>3 DEF BoundObject, IsDefined, DefinedIn, GetSymbol, SameName
    <3>4. CASE used.name \notin DOMAIN local
      <4>1. DefinedIn(root, used.name)
        BY <3>2, <3>4 DEF BoundObject, IsDefined, DefinedIn
      <4>. QED
        BY <2>3, <2>5, <3>1, <3>2, <3>4, <4>1 DEF BoundObject, IsDefined, DefinedIn, GetSymbol, SameName
    <3>. QED  BY <3>3, <3>4
  <2>. QED  BY <2>4, <2>5
<1>. QED  BY <1>3, <1>4, <1>5

(* What was used while the program had no error stays what it was when the   *)
(* usage was accepted, whatever is declared and defined after it: a variable *)
(* or an array stays defined as one, and a call fits its function.           *)
THEOREM UsagesBound == Spec => []UsagesStayBound
<1>1. Init => UsagesStayBound
  BY DEF Init, UsagesStayBound, NoUsage
<1>2. IInv /\ UsagesStayBound /\ [Next]_vars => UsagesStayBound'
  <2>1. UsagesStayBound /\ UNCHANGED vars => UsagesStayBound'
    BY DEF vars, UsagesStayBound, DeclaredIn, IsDefined, DefinedIn, GetSymbol
  <2>. QED  BY <2>1, UsageStep
<1>. QED  BY <1>1, <1>2, Invariant, PTL DEF Spec

-----------------------------------------------------------------------------
(* Definitions that have reached the root context *)

Finished(n) == n \in DOMAIN root /\ root[n].kind # "function" /\ root[n].def = 0

LEMMA SameSymbol ==
  ASSUME NEW s \in Symbols, NEW t \in Symbols, Moved(s, t), s.decl = t.decl, s.def = t.def
  PROVE  s = t
  BY DEF Symbols, Moved

LEMMA FinishedStep ==
  ASSUME IInv, Next, status' = "running", NEW n, Finished(n)
  PROVE  n \in DOMAIN root' /\ root'[n] = root[n]
<1>0. /\ TypeOK /\ Depth \in Nat /\ IsTable(root) /\ Within(root, Depth)
      /\ n \in DOMAIN root /\ root[n] \in Symbols
  BY FrameFacts, TableFacts DEF Finished, IInv, Within
<1>1. root[n].decl = 0 /\ root[n].def = 0 /\ DefinedIn(root, n) /\ DeclaredIn(root, n)
  <2>1. root[n].decl \in Int /\ root[n].decl >= Gone
    BY <1>0, SymbolFacts DEF Symbol
  <2>2. root[n].decl # Gone /\ root[n].decl <= root[n].def /\ root[n].def = 0
    BY <1>0 DEF IInv, VariablesKeepDeclarations, KeepsDeclaration, Finished, Gone
  <2>. QED  BY <1>0, <2>1, <2>2 DEF DefinedIn, DeclaredIn, Gone
<1>2. CASE Failing
  <2>1. PICK level \in {Depth, Depth + 1} :
          (level = Depth => Top \in Groups) /\ root' = Expired(root, level)
    BY <1>2 DEF Failing, Raise
  <2>2. level \in Nat /\ level > 0
    BY <1>0, <2>1, FrameFacts DEF Groups
  <2>3. Expire(0, level) = 0
    BY <2>2 DEF Expire
  <2>4. /\ IsTable(root') /\ n \in DOMAIN root' /\ Moved(root[n], root'[n])
        /\ root'[n].decl = 0 /\ root'[n].def = 0
    <3>1. /\ IsTable(Expired(root, level)) /\ DOMAIN Expired(root, level) = DOMAIN root
          /\ Moved(root[n], Expired(root, level)[n])
          /\ Expired(root, level)[n].decl = Expire(root[n].decl, level)
          /\ Expired(root, level)[n].def = Expire(root[n].def, level)
      BY <1>0, <2>2, ExpiredFacts
    <3>. QED  BY <1>0, <1>1, <2>1, <2>3, <3>1
  <2>. QED  BY <1>0, <1>1, <2>4, SameSymbol DEF IsTable
<1>3. CASE Stopping
  BY <1>3 DEF Stopping, Stop
<1>4. CASE Close \/ EndFunction
  <2>1. Depth > 0 /\ root' = Lowered(root)
    BY <1>0, <1>4, FrameFacts DEF Close, EndFunction
  <2>2. Lower(0) = 0
    BY <2>1 DEF Lower
  <2>3. /\ IsTable(root') /\ n \in DOMAIN root' /\ Moved(root[n], root'[n])
        /\ root'[n].decl = 0 /\ root'[n].def = 0
    BY <1>0, <1>1, <2>1, <2>2, LoweredFacts
  <2>. QED  BY <1>0, <1>1, <2>3, SameSymbol DEF IsTable
<1>5. CASE Introducing \/ Completing
  <2>1. PICK name, symbol : /\ ~ IsDefined(name)
                            /\ root' = root \/ root' = Put(root, name, symbol)
    BY <1>5 DEF Introducing, Completing, Register, Replace
  <2>2. name # n
    BY <1>1, <2>1 DEF IsDefined
  <2>. QED  BY <1>0, <2>1, <2>2 DEF Put
<1>6. CASE Announcing
  BY <1>0, <1>1, <1>6 DEF Announcing, Put
<1>7. CASE Repeating
  BY <1>0, <1>7 DEF Repeating, Finished
<1>8. CASE Entering
  BY <1>0, <1>1, <1>8 DEF Entering, EnterFunction, Put
<1>9. CASE Opening \/ Using
  <2>1. root' = root
    BY <1>9 DEF Opening, Open, Using, Record
  <2>. QED  BY <1>0, <2>1
<1>. QED  BY <1>0, <1>2, <1>3, <1>4, <1>5, <1>6, <1>7, <1>8, <1>9, StepForms

(* Once the statement that defines a variable or an array has reached the    *)
(* root context, no error and no later definition changes its symbol.        *)
THEOREM DefinitionsSurvive == Spec => FinishedDefinitionsSurvive
<1>1. IInv /\ [Next]_vars =>
        [ status' = "running" => \A n \in DOMAIN root :
            root[n].kind # "function" /\ root[n].def = 0
              => n \in DOMAIN root' /\ root'[n] = root[n] ]_vars
  BY FinishedStep DEF Finished
<1>. QED  BY <1>1, Invariant, PTL DEF Spec, FinishedDefinitionsSurvive
=============================================================================

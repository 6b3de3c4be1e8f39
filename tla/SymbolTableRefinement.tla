----------------------- MODULE SymbolTableRefinement -----------------------
(***************************************************************************)
(* The proof that the symbol tables of SymbolTable implement the scopes of *)
(* Scopes: each form of a step of the analysis, told apart in              *)
(* SymbolTableProofs, is a step of Scopes or changes nothing there.        *)
(***************************************************************************)
EXTENDS SymbolTableProofs

-----------------------------------------------------------------------------
(* What a table stands for *)

Meaning(table) ==
  [n \in Names |-> IF n \in DOMAIN table THEN EntityOf(table[n]) ELSE [is |-> "free"]]

LEMMA ScopeMeaning ==
  /\ ~ faulty => ScopeOf(root) = Meaning(root) /\ ScopeOf(local) = Meaning(local)
  /\ ~ faulty' => ScopeOf(root)' = Meaning(root') /\ ScopeOf(local)' = Meaning(local')
  BY DEF ScopeOf, Meaning

LEMMA MeaningPut ==
  ASSUME NEW table, NEW name \in Names, NEW symbol
  PROVE  Meaning(Put(table, name, symbol)) = [Meaning(table) EXCEPT ![name] = EntityOf(symbol)]
  BY DEF Meaning, Put

LEMMA MeaningLowered ==
  ASSUME NEW table, Within(table, Depth), Depth \in Nat, Depth > 0
  PROVE  Meaning(Lowered(table)) = Meaning(table)
<1>1. /\ DOMAIN Lowered(table) = DOMAIN table
      /\ \A n \in DOMAIN table :
           /\ Moved(table[n], Lowered(table)[n])
           /\ Lowered(table)[n].def = Lower(table[n].def)
  BY LoweredFacts DEF Within
<1>2. \A n \in DOMAIN table : Lower(table[n].def) # Gone <=> table[n].def # Gone
  BY SymbolFacts DEF Within, IsTable, Symbol, Lower, Gone
<1>3. \A n \in DOMAIN table : EntityOf(Lowered(table)[n]) = EntityOf(table[n])
  BY <1>1, <1>2 DEF EntityOf, Moved
<1>. QED  BY <1>1, <1>3 DEF Meaning

LEMMA MeaningEmpty == Meaning(EmptyTable) = Promise!Nothing
  BY DEF Meaning, EmptyTable, Promise!Nothing, Promise!Free

(* What Scopes calls a definition sets one field of an entity.               *)
LEMMA DefinedEntities ==
  ASSUME NEW kind, NEW type, NEW parameters
  PROVE  /\ Promise!AsDefined([is |-> "object", kind |-> kind, type |-> type, defined |-> FALSE])
               = [is |-> "object", kind |-> kind, type |-> type, defined |-> TRUE]
         /\ Promise!AsDefined([is |-> "function", parameters |-> parameters, defined |-> FALSE])
               = [is |-> "function", parameters |-> parameters, defined |-> TRUE]
<1>. DEFINE no == FALSE
            yes == TRUE
<1>. HIDE DEF no, yes
<1>1. [[is |-> "object", kind |-> kind, type |-> type, defined |-> no] EXCEPT !.defined = yes]
        = [is |-> "object", kind |-> kind, type |-> type, defined |-> yes]
  OBVIOUS
<1>2. [[is |-> "function", parameters |-> parameters, defined |-> no] EXCEPT !.defined = yes]
        = [is |-> "function", parameters |-> parameters, defined |-> yes]
  OBVIOUS
<1>. QED  BY <1>1, <1>2, Zenon DEF no, yes, Promise!AsDefined

LEMMA MeaningVariable ==
  ASSUME NEW kind \in {"variable", "array"}, NEW type, NEW decl, NEW def
  PROVE  EntityOf(Variable(kind, type, decl, def))
           = IF def = Gone THEN Promise!Object(kind, type)
             ELSE Promise!AsDefined(Promise!Object(kind, type))
<1>1. EntityOf(Variable(kind, type, decl, def))
        = [is |-> "object", kind |-> kind, type |-> type, defined |-> def # Gone]
  BY DEF EntityOf, Variable
<1>2. Promise!AsDefined(Promise!Object(kind, type))
        = [is |-> "object", kind |-> kind, type |-> type, defined |-> TRUE]
  BY DefinedEntities DEF Promise!Object
<1>3. Promise!Object(kind, type)
        = [is |-> "object", kind |-> kind, type |-> type, defined |-> FALSE]
  BY DEF Promise!Object
<1>4. CASE def = Gone
  <2>1. (def # Gone) = FALSE
    BY <1>4
  <2>. QED  BY <1>1, <1>3, <1>4, <2>1
<1>5. CASE def # Gone
  <2>1. (def # Gone) = TRUE
    BY <1>5
  <2>. QED  BY <1>1, <1>2, <1>5, <2>1
<1>. QED  BY <1>4, <1>5

(* The objects that Scopes defines for a list of parameters.                 *)
LEMMA MeaningParameters ==
  ASSUME NEW parameters \in Parameters, NEW owner \in Owners, owner # Gone
  PROVE  Meaning(ParameterTable(parameters, owner)) = Promise!ParameterScope(parameters)
<1>. DEFINE table == ParameterTable(parameters, owner)
<1>1. PICK k \in Nat : parameters \in [1..k -> [name : ParameterNames, type : Types]]
  BY BoundsAssumption DEF Parameters
<1>2. ASSUME NEW n \in Names
      PROVE  Meaning(table)[n] = Promise!ParameterScope(parameters)[n]
  <2>. DEFINE at == {i \in DOMAIN parameters : parameters[i].name = n}
              last == CHOOSE i \in DOMAIN parameters :
                        /\ parameters[i].name = n
                        /\ \A j \in DOMAIN parameters : parameters[j].name = n => j <= i
              latest == CHOOSE i \in at : \A j \in at : j <= i
  <2>1. n \in DOMAIN table <=> at # {}
    BY DEF ParameterTable
  <2>2. CASE at = {}
    BY <2>1, <2>2 DEF Meaning, Promise!ParameterScope, Promise!Free
  <2>3. CASE at # {}
    <3>1. at \subseteq 1..k /\ DOMAIN parameters = 1..k
      BY <1>1
    <3>2. \E i \in at : \A j \in at : j <= i
      BY <2>3, <3>1, Largest
    <3>3. last \in at /\ \A j \in at : j <= last
      BY <3>2
    <3>4. latest \in at /\ \A j \in at : j <= latest
      BY <3>2
    <3>5. last = latest
      BY <3>1, <3>3, <3>4
    <3>6. table[n] = Variable("variable", parameters[last].type, owner, owner)
      BY <2>1, <2>3 DEF ParameterTable
    <3>7. Meaning(table)[n] = EntityOf(table[n])
      BY <2>1, <2>3 DEF Meaning
    <3>8. Promise!ParameterScope(parameters)[n]
            = Promise!AsDefined(Promise!Object("variable", parameters[latest].type))
      BY <2>3 DEF Promise!ParameterScope
    <3>. HIDE DEF table, last, latest
    <3>9. EntityOf(table[n])
            = Promise!AsDefined(Promise!Object("variable", parameters[latest].type))
      BY <3>5, <3>6, MeaningVariable
    <3>. QED  BY <3>7, <3>8, <3>9
  <2>. QED  BY <2>2, <2>3
<1>3. /\ Meaning(table) = [n \in Names |-> Meaning(table)[n]]
      /\ Promise!ParameterScope(parameters)
           = [n \in Names |-> Promise!ParameterScope(parameters)[n]]
  BY DEF Meaning, Promise!ParameterScope
<1>. HIDE DEF table
<1>4. [n \in Names |-> Meaning(table)[n]] = [n \in Names |-> Promise!ParameterScope(parameters)[n]]
  BY <1>2
<1>. QED  BY <1>3, <1>4 DEF table

-----------------------------------------------------------------------------
(* Steps *)

LEMMA FaultyStutters ==
  ASSUME TypeOK, Next, faulty
  PROVE  UNCHANGED Promise!scopes
<1>1. faulty'
  BY FaultsStay
<1>. QED  BY <1>1 DEF Promise!scopes, ScopeOf, Verdict

LEMMA FailingConcludes ==
  ASSUME TypeOK, ~ faulty, Failing
  PROVE  Promise!Conclude("refused")
<1>1. Running /\ faulty' = TRUE /\ status' = status
  BY DEF Failing, Raise
<1>2. Verdict = "open" /\ Verdict' = "refused"
  BY <1>1 DEF Verdict, Running
<1>3. ScopeOf(root)' = Promise!Nothing /\ ScopeOf(local)' = Promise!Nothing
  BY <1>1 DEF ScopeOf, Promise!Nothing, Promise!Free
<1>. QED  BY <1>1, <1>2, <1>3 DEF Promise!Conclude

LEMMA StoppingConcludes ==
  ASSUME TypeOK, ~ faulty, Stopping
  PROVE  \E v \in {"accepted", "refused"} : Promise!Conclude(v)
<1>1. PICK how \in Statuses \ {"running"} :
        /\ Running /\ Stop(how)
        /\ how = "accepted" => ~ faulty /\ frames = <<>>
        /\ how = "rejected" => faulty
  BY DEF Stopping
<1>2. /\ status' = how /\ faulty' = faulty
      /\ root' = EmptyTable /\ local' = EmptyTable /\ frames' = <<>>
  BY <1>1 DEF Stop
<1>. DEFINE v == IF how = "accepted" THEN "accepted" ELSE "refused"
<1>3. Verdict = "open" /\ Verdict' = v /\ v \in {"accepted", "refused"}
  BY <1>1, <1>2 DEF Verdict, Running, Statuses
<1>4. ScopeOf(root)' = Promise!Nothing /\ ScopeOf(local)' = Promise!Nothing
  BY <1>2, ScopeMeaning, MeaningEmpty
<1>5. ~ InFunction' /\ (v = "accepted" => ~ InFunction)
  BY <1>1, <1>2 DEF InFunction, Depth
<1>. HIDE DEF v
<1>. QED  BY <1>3, <1>4, <1>5 DEF Promise!Conclude

(* What the other steps have in common.                                      *)
LEMMA Quietly ==
  ASSUME ~ faulty, faulty' = faulty, Running, status' = status
  PROVE  /\ ScopeOf(root) = Meaning(root) /\ ScopeOf(local) = Meaning(local)
         /\ ScopeOf(root)' = Meaning(root') /\ ScopeOf(local)' = Meaning(local')
         /\ Verdict = "open" /\ Verdict' = "open"
         /\ (~ faulty /\ InFunction) <=> InFunction
         /\ (~ faulty /\ InFunction)' <=> InFunction'
<1>1. ~ faulty'
  OBVIOUS
<1>. QED  BY <1>1, ScopeMeaning DEF Verdict, Running

LEMMA IntroducingIntroduces ==
  ASSUME IInv, ~ faulty, Introducing
  PROVE  \E n \in Names, kind \in {"variable", "array"}, type \in Types :
           \/ Promise!Introduce(n, Promise!Object(kind, type))
           \/ Promise!Introduce(n, Promise!AsDefined(Promise!Object(kind, type)))
<1>1. PICK name \in Names, kind \in {"variable", "array"}, type \in Types, def \in {Gone, Depth} :
        /\ Running /\ ~ IsDeclared(name) /\ ~ IsDefined(name)
        /\ Register(name, Variable(kind, type, Depth, def))
        /\ UNCHANGED <<frames, faulty, status, used>>
  BY DEF Introducing
<1>. DEFINE s == Variable(kind, type, Depth, def)
            e == EntityOf(s)
<1>2. \/ e = Promise!Object(kind, type)
      \/ e = Promise!AsDefined(Promise!Object(kind, type))
  BY MeaningVariable
<1>3. name \notin DOMAIN root /\ name \notin DOMAIN local
  BY <1>1 DEF IsDeclared, DeclaredIn, IInv, TablesAreLive
<1>4. Meaning(root)[name] = Promise!Free /\ Meaning(local)[name] = Promise!Free
  BY <1>3 DEF Meaning, Promise!Free
<1>5. /\ Meaning(Put(root, name, s)) = [Meaning(root) EXCEPT ![name] = e]
      /\ Meaning(Put(local, name, s)) = [Meaning(local) EXCEPT ![name] = e]
  BY MeaningPut
<1>6. InFunction' <=> InFunction
  BY <1>1, SameFrames
<1>7. Register(name, s)
  BY <1>1
<1>. HIDE DEF s, e
<1>8. Promise!Introduce(name, e)
  BY <1>1, <1>4, <1>5, <1>6, <1>7, Quietly DEF Register, Promise!Introduce
<1>. QED  BY <1>2, <1>8

LEMMA CompletingDefines ==
  ASSUME IInv, ~ faulty, Completing
  PROVE  \E n \in Names : Promise!Define(n)
<1>1. PICK name \in Names :
        /\ Running /\ IsDeclared(name) /\ ~ IsDefined(name)
        /\ GetSymbol(name).kind # "function"
        /\ Replace(name, Defined(GetSymbol(name), Depth))
        /\ UNCHANGED <<frames, faulty, status, used>>
  BY DEF Completing
<1>. DEFINE s == GetSymbol(name)
            t == Defined(s, Depth)
<1>2. /\ s \in Symbols /\ s.decl <= Depth /\ s.def = Gone
      /\ Depth \in Owners /\ Depth # Gone
  BY <1>1, FrameFacts, TableFacts
     DEF GetSymbol, IsDeclared, DeclaredIn, IsDefined, DefinedIn, Within, IInv, Gone
<1>3. Moved(s, t) /\ t.def = Depth
  <2>. HIDE DEF s
  <2>. QED  BY <1>2, DefinedFacts
<1>4. /\ EntityOf(s).is = "object" /\ ~ EntityOf(s).defined
      /\ EntityOf(t) = Promise!AsDefined(EntityOf(s))
  <2>1. s.kind # "function"
    BY <1>1
  <2>. HIDE DEF s, t
  <2>2. (s.def # Gone) = FALSE /\ (t.def # Gone) = TRUE
    BY <1>2, <1>3
  <2>3. /\ EntityOf(s) = [is |-> "object", kind |-> s.kind, type |-> s.type, defined |-> FALSE]
        /\ EntityOf(t) = [is |-> "object", kind |-> s.kind, type |-> s.type, defined |-> TRUE]
    BY <1>3, <2>1, <2>2 DEF EntityOf, Moved
  <2>4. EntityOf(t) = Promise!AsDefined(EntityOf(s))
    BY <2>3, DefinedEntities
  <2>5. EntityOf(s).is = "object" /\ ~ EntityOf(s).defined
    BY <2>3
  <2>. QED  BY <2>4, <2>5
<1>5. Replace(name, t)
  BY <1>1
<1>6. InFunction' <=> InFunction
  BY <1>1, SameFrames
<1>7. CASE name \in DOMAIN local
  <2>1. Meaning(local)[name] = EntityOf(s)
    BY <1>7 DEF Meaning, GetSymbol
  <2>2. root' = root /\ Meaning(local') = [Meaning(local) EXCEPT ![name] = EntityOf(t)]
    <3>. HIDE DEF t
    <3>. QED  BY <1>5, <1>7, MeaningPut DEF Replace
  <2>. HIDE DEF s, t
  <2>3. Promise!Define(name)
    BY <1>1, <1>4, <1>6, <2>1, <2>2, Quietly DEF Promise!Define
  <2>. QED  BY <2>3
<1>8. CASE name \notin DOMAIN local
  <2>1. Meaning(root)[name] = EntityOf(s) /\ Meaning(local)[name] = Promise!Free
    BY <1>1, <1>8 DEF Meaning, GetSymbol, IsDeclared, DeclaredIn, Promise!Free
  <2>2. local' = local /\ Meaning(root') = [Meaning(root) EXCEPT ![name] = EntityOf(t)]
    <3>. HIDE DEF t
    <3>. QED  BY <1>5, <1>8, MeaningPut DEF Replace
  <2>. HIDE DEF s, t
  <2>3. Promise!Define(name)
    BY <1>1, <1>4, <1>6, <2>1, <2>2, Quietly DEF Promise!Define
  <2>. QED  BY <2>3
<1>. QED  BY <1>7, <1>8

LEMMA AnnouncingIntroduces ==
  ASSUME IInv, ~ faulty, Announcing
  PROVE  \E n \in Names, parameters \in Parameters : Promise!IntroduceFunction(n, parameters)
<1>1. PICK name \in Names, parameters \in Parameters :
        /\ Running /\ ~ DeclaredIn(root, name)
        /\ root' = Put(root, name, Function(parameters, FALSE, FALSE, Depth, Gone))
        /\ UNCHANGED <<local, frames, faulty, status, used>>
  BY DEF Announcing
<1>. DEFINE s == Function(parameters, FALSE, FALSE, Depth, Gone)
<1>2. name \notin DOMAIN root
  BY <1>1 DEF DeclaredIn, IInv, TablesAreLive
<1>3. Meaning(root)[name] = Promise!Free
  BY <1>2 DEF Meaning, Promise!Free
<1>4. EntityOf(s) = Promise!Routine(parameters)
  BY DEF EntityOf, Function, Promise!Routine
<1>5. Meaning(root') = [Meaning(root) EXCEPT ![name] = EntityOf(s)]
  BY <1>1, MeaningPut
<1>6. InFunction' <=> InFunction
  BY <1>1, SameFrames
<1>. HIDE DEF s
<1>7. Promise!IntroduceFunction(name, parameters)
  BY <1>1, <1>3, <1>4, <1>5, <1>6, Quietly DEF Promise!IntroduceFunction
<1>. QED  BY <1>7

LEMMA EnteringEnters ==
  ASSUME IInv, ~ faulty, Entering
  PROVE  \E n \in Names, parameters \in Parameters : Promise!EnterFunction(n, parameters)
<1>1. PICK name, parameters, s :
        /\ name \in Names /\ parameters \in Parameters
        /\ Running /\ Depth < MaxDepth /\ ~ InFunction /\ EnterFunction(name, s, parameters)
        /\ \A i \in DOMAIN parameters : ~ DefinedIn(root, parameters[i].name)
        /\ ~ DefinedIn(root, name)
        /\ \/ /\ ~ DeclaredIn(root, name)
              /\ s = Function(parameters, FALSE, TRUE, Depth + 1, Depth + 1)
           \/ /\ DeclaredIn(root, name) /\ root[name].kind = "function"
              /\ root[name].parameters = parameters
              /\ s = [Defined(root[name], Depth + 1) EXCEPT !.context = TRUE]
  BY DEF Entering
<1>2. /\ Depth \in Nat /\ Depth + 1 \in Owners /\ Depth + 1 # Gone
      /\ \A n \in DOMAIN root : root[n] \in Symbols /\ root[n].decl \in Int /\ root[n].decl <= Depth + 1
  BY <1>1, FrameFacts, TableFacts, BoundsAssumption DEF IInv, Owners, Gone, Within, Symbol
<1>3. s.kind = "function" /\ s.parameters = parameters /\ s.def # Gone
  <2>1. CASE s = Function(parameters, FALSE, TRUE, Depth + 1, Depth + 1)
    BY <1>2, <2>1 DEF Function
  <2>2. CASE /\ DeclaredIn(root, name) /\ root[name].kind = "function"
             /\ root[name].parameters = parameters
             /\ s = [Defined(root[name], Depth + 1) EXCEPT !.context = TRUE]
    <3>1. root[name] \in Symbols /\ root[name].decl <= Depth + 1
      BY <1>2, <2>2 DEF DeclaredIn
    <3>. QED  BY <1>2, <2>2, <3>1, EnteredFacts
  <2>. QED  BY <1>1, <2>1, <2>2
<1>4. EntityOf(s) = Promise!AsDefined(Promise!Routine(parameters))
  <2>1. (s.def # Gone) = TRUE
    BY <1>3
  <2>2. EntityOf(s) = [is |-> "function", parameters |-> parameters, defined |-> TRUE]
    BY <1>3, <2>1 DEF EntityOf
  <2>. QED  BY <2>2, DefinedEntities DEF Promise!Routine
<1>5. Meaning(root)[name] \in {Promise!Free, Promise!Routine(parameters)}
  <2>1. CASE name \notin DOMAIN root
    BY <1>1, <2>1 DEF Meaning, Promise!Free
  <2>2. CASE name \in DOMAIN root
    <3>1. /\ root[name].decl # Gone /\ root[name].def = Gone
          /\ root[name].kind = "function" /\ root[name].parameters = parameters
      BY <1>1, <2>2 DEF DeclaredIn, DefinedIn, IInv, TablesAreLive
    <3>2. EntityOf(root[name]) = [is |-> "function", parameters |-> parameters, defined |-> FALSE]
      BY <3>1 DEF EntityOf
    <3>. QED  BY <1>1, <2>2, <3>2 DEF Meaning, Promise!Routine
  <2>. QED  BY <2>1, <2>2
<1>6. \A i \in DOMAIN parameters : ~ Promise!IsDefinedAs(Meaning(root)[parameters[i].name])
  <2>. SUFFICES ASSUME NEW i \in DOMAIN parameters
                PROVE  ~ Promise!IsDefinedAs(Meaning(root)[parameters[i].name])
    OBVIOUS
  <2>. DEFINE n == parameters[i].name
  <2>1. n \in Names /\ ~ DefinedIn(root, n)
    BY <1>1, NamesAssumption DEF Parameters
  <2>. HIDE DEF n
  <2>2. ~ Promise!IsDefinedAs(Meaning(root)[n])
    <3>1. CASE n \notin DOMAIN root
      BY <2>1, <3>1 DEF Meaning, Promise!IsDefinedAs, Promise!Free
    <3>2. CASE n \in DOMAIN root
      <4>1. (root[n].def # Gone) = FALSE
        BY <2>1, <3>2 DEF DefinedIn
      <4>2. EntityOf(root[n]).defined = FALSE
        BY <4>1 DEF EntityOf
      <4>. QED  BY <2>1, <3>2, <4>2 DEF Meaning, Promise!IsDefinedAs
    <3>. QED  BY <3>1, <3>2
  <2>. QED  BY <2>2 DEF n
<1>7. /\ Meaning(root') = [Meaning(root) EXCEPT ![name] = EntityOf(s)]
      /\ Meaning(local') = Promise!ParameterScope(parameters)
  <2>1. root' = Put(root, name, s) /\ local' = ParameterTable(parameters, Depth + 1)
    BY <1>1 DEF EnterFunction
  <2>2. Meaning(root') = [Meaning(root) EXCEPT ![name] = EntityOf(s)]
    BY <1>1, <2>1, MeaningPut
  <2>3. Meaning(local') = Promise!ParameterScope(parameters)
    BY <1>1, <1>2, <2>1, MeaningParameters
  <2>. QED  BY <2>2, <2>3
<1>8. InFunction'
  <2>1. "function" \in FrameKinds /\ "function" \in Bodies /\ TypeOK
        /\ frames' = Append(frames, "function")
    BY <1>1 DEF FrameKinds, Bodies, IInv, EnterFunction
  <2>. QED  BY <2>1, InsideFacts
<1>9. faulty' = faulty /\ status' = status
  BY <1>1 DEF EnterFunction
<1>10. Promise!EnterFunction(name, parameters)
  BY <1>1, <1>4, <1>5, <1>6, <1>7, <1>8, <1>9, Quietly DEF Promise!EnterFunction
<1>. QED  BY <1>1, <1>10

LEMMA EndFunctionLeaves ==
  ASSUME IInv, ~ faulty, EndFunction
  PROVE  Promise!LeaveFunction
<1>1. /\ Running /\ Top \in Bodies /\ root' = Lowered(root) /\ local' = EmptyTable
      /\ frames' = SubSeq(frames, 1, Depth - 1) /\ faulty' = faulty /\ status' = status
  BY DEF EndFunction, Bodies
<1>2. Depth \in Nat /\ Depth > 0 /\ frames[Depth] \in Bodies /\ Within(root, Depth)
  BY <1>1, FrameFacts, TableFacts DEF IInv, Bodies
<1>3. InFunction /\ ~ InFunction'
  <2>1. InFunction
    BY <1>2 DEF InFunction, Bodies
  <2>2. TypeOK /\ OneFunction
    BY DEF IInv
  <2>. QED  BY <1>1, <1>2, <2>1, <2>2, InsideFacts
<1>4. Meaning(root') = Meaning(root) /\ Meaning(local') = Promise!Nothing
  BY <1>1, <1>2, MeaningLowered, MeaningEmpty
<1>. QED  BY <1>1, <1>3, <1>4, Quietly DEF Promise!LeaveFunction

LEMMA OthersStutter ==
  ASSUME IInv, ~ faulty, Opening \/ Using \/ Close \/ Repeating
  PROVE  UNCHANGED Promise!scopes
<1>0. /\ TypeOK /\ Depth \in Nat /\ IsTable(root) /\ Within(root, Depth) /\ Within(local, Depth)
  BY FrameFacts, TableFacts DEF IInv, Within
<1>. SUFFICES /\ Running /\ faulty' = faulty /\ status' = status
              /\ Meaning(root') = Meaning(root) /\ Meaning(local') = Meaning(local)
              /\ InFunction' <=> InFunction
  BY Quietly DEF Promise!scopes
<1>1. CASE Opening
  <2>1. PICK kind \in FrameKinds : kind \notin Bodies /\ frames' = Append(frames, kind)
    BY <1>1 DEF Opening, Open, Groups, FrameKinds, Bodies
  <2>2. InFunction' <=> InFunction
    BY <1>0, <2>1, InsideFacts
  <2>. QED  BY <1>1, <2>2 DEF Opening, Open, CanDeclare
<1>2. CASE Using
  <2>1. Running /\ UNCHANGED <<root, local, frames, faulty, status>>
    BY <1>2 DEF Using, Record
  <2>. QED  BY <2>1, SameFrames
<1>3. CASE Close
  <2>1. /\ Running /\ Top \in Groups /\ root' = Lowered(root) /\ local' = Lowered(local)
        /\ frames' = Leave /\ faulty' = faulty /\ status' = status
    BY <1>3 DEF Close, Groups
  <2>2. Depth > 0
    BY <1>0, <2>1, LeaveFacts
  <2>. QED  BY <1>0, <2>1, <2>2, InsideFacts, MeaningLowered
<1>4. CASE Repeating
  <2>1. PICK name \in Names :
          /\ Running /\ DeclaredIn(root, name)
          /\ root' = [root EXCEPT ![name].decl = Depth]
          /\ UNCHANGED <<local, frames, faulty, status, used>>
    BY <1>4 DEF Repeating
  <2>2. /\ DOMAIN root' = DOMAIN root /\ \A n \in DOMAIN root : n # name => root'[n] = root[n]
        /\ Moved(root[name], root'[name]) /\ root'[name].def = root[name].def
        /\ name \in DOMAIN root
    BY <1>0, <2>1 DEF DeclaredIn, IsTable, Symbols, Moved
  <2>3. EntityOf(root'[name]) = EntityOf(root[name])
    BY <2>2 DEF EntityOf, Moved
  <2>4. \A n \in DOMAIN root : EntityOf(root'[n]) = EntityOf(root[n])
    BY <2>2, <2>3
  <2>5. Meaning(root') = Meaning(root)
    BY <2>2, <2>4 DEF Meaning
  <2>. QED  BY <2>1, <2>5, SameFrames
<1>. QED  BY <1>1, <1>2, <1>3, <1>4

LEMMA InitImplements ==
  ASSUME Init
  PROVE  Promise!Init
<1>1. ~ faulty /\ status = "running" /\ ~ InFunction
  BY DEF Init, InFunction, Depth
<1>2. ScopeOf(local) = Promise!Nothing
  BY <1>1, ScopeMeaning, MeaningEmpty DEF Init
<1>3. EntityOf(Function(<<>>, TRUE, FALSE, 0, Gone)) = Promise!Routine(<<>>)
  BY DEF EntityOf, Function, Promise!Routine
<1>4. ScopeOf(root) = [n \in Names |-> IF n \in Prelude THEN Promise!Routine(<<>>) ELSE Promise!Free]
  <2>1. DOMAIN root = Prelude /\ \A n \in Prelude : root[n] = Function(<<>>, TRUE, FALSE, 0, Gone)
    BY DEF Init
  <2>2. Meaning(root)
          = [n \in Names |-> IF n \in Prelude THEN Promise!Routine(<<>>) ELSE Promise!Free]
    BY <1>3, <2>1 DEF Meaning, Promise!Free
  <2>. QED  BY <1>1, <2>2, ScopeMeaning
<1>. QED  BY <1>1, <1>2, <1>4 DEF Promise!Init, Verdict, Running

LEMMA StepImplements ==
  ASSUME IInv, [Next]_vars
  PROVE  [Promise!Next]_(Promise!scopes)
<1>0. TypeOK
  BY DEF IInv
<1>1. CASE UNCHANGED vars
  BY <1>1, SameFrames DEF vars, Promise!scopes, ScopeOf, Verdict, Running
<1>2. CASE Next /\ faulty
  BY <1>0, <1>2, FaultyStutters
<1>3. CASE Next /\ ~ faulty
  <2>1. CASE Failing
    BY <1>0, <1>3, <2>1, FailingConcludes DEF Promise!Next
  <2>2. CASE Stopping
    BY <1>0, <1>3, <2>2, StoppingConcludes DEF Promise!Next
  <2>3. CASE Introducing
    BY <1>3, <2>3, IntroducingIntroduces DEF Promise!Next
  <2>4. CASE Completing
    BY <1>3, <2>4, CompletingDefines DEF Promise!Next
  <2>5. CASE Announcing
    BY <1>3, <2>5, AnnouncingIntroduces DEF Promise!Next
  <2>6. CASE Entering
    BY <1>3, <2>6, EnteringEnters DEF Promise!Next
  <2>7. CASE EndFunction
    BY <1>3, <2>7, EndFunctionLeaves DEF Promise!Next
  <2>8. CASE Opening \/ Using \/ Close \/ Repeating
    BY <1>3, <2>8, OthersStutter
  <2>. QED  BY <1>0, <1>3, <2>1, <2>2, <2>3, <2>4, <2>5, <2>6, <2>7, <2>8, StepForms
<1>. QED  BY <1>1, <1>2, <1>3

(* Until its first error, the analysis of a program keeps to the scopes of   *)
(* Scopes: no visible name is introduced again, no symbol is replaced or     *)
(* forgotten, and each is defined once, as it was declared.                  *)
THEOREM Implementation == Spec => ImplementsScopes
<1>1. Init => Promise!Init
  BY InitImplements
<1>2. IInv /\ [Next]_vars => [Promise!Next]_(Promise!scopes)
  BY StepImplements
<1>. QED  BY <1>1, <1>2, Invariant, PTL DEF Spec, ImplementsScopes, Promise!Spec
=============================================================================

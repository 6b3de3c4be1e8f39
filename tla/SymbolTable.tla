---------------------------- MODULE SymbolTable ----------------------------
(***************************************************************************)
(* The symbol tables that the AST visitor (src/visitors/ASTVisitor*.cpp)   *)
(* fills and consults while it walks a program, and how they come through  *)
(* the semantic errors it reports and recovers from.                       *)
(*                                                                         *)
(* There is one table for the root context and one for the function being  *)
(* visited.  A symbol refers to its declaration and definition by weak     *)
(* pointers: the statements are owned by the list that the visitor is      *)
(* building, and a semantic error drops the list of the innermost group of *)
(* statements being visited.  So a reference is modelled by the depth of   *)
(* the group that owns the statement: 0 once it has reached the context,   *)
(* Gone when there is none or when it has expired.                         *)
(*                                                                         *)
(* Names of types live in the same tables in the code; here a program      *)
(* neither redefines nor reuses them, and a type is its width.             *)
(***************************************************************************)
EXTENDS Integers, Sequences

CONSTANTS
  Names,         \* identifiers of variables, arrays, functions and parameters
  ParameterNames,\* those that parameters may have
  Types,         \* widths of the primary types
  Prelude,       \* functions declared by visitR, taken to be variadic like printf
  MaxParameters, \* bound: parameters of a function and arguments of a call
  MaxDepth       \* bound: groups of statements being visited at once

ASSUME TypesAssumption == Types \subseteq Nat
ASSUME NamesAssumption == Prelude \subseteq Names /\ ParameterNames \subseteq Names
ASSUME BoundsAssumption == MaxParameters \in Nat /\ MaxDepth \in Nat

VARIABLES
  root,    \* mSymbolMap of the root context: a function on the names it has
  local,   \* mSymbolMap of the context of the function being visited
  frames,  \* the groups of statements being visited, outermost first
  faulty,  \* whether errors have been reported (mErrorCount > 0)
  status,  \* how the analysis ended
  used     \* the last usage recorded while none had

vars == <<root, local, frames, faulty, status, used>>

Gone == -1
Owners == Gone .. MaxDepth
Kinds == {"variable", "array", "function"}

\* A declaration or a definition of variables with its names, the instructions
\* of a block or of a statement, and the body of a function.
FrameKinds == {"declaring", "defining", "instructions", "function", "end"}

Parameters == UNION {[1..k -> [name : ParameterNames, type : Types]] : k \in 0..MaxParameters}
Arguments == UNION {[1..k -> Types] : k \in 0..MaxParameters}

Symbols == [kind : Kinds, type : Types \union {0}, parameters : Parameters,
            variadic : BOOLEAN, context : BOOLEAN, decl : Owners, def : Owners]
IsTable(table) ==
  /\ DOMAIN table \subseteq Names
  /\ \A n \in DOMAIN table : table[n] \in Symbols
EmptyTable == [n \in {} |-> 0]

NoUsage == [as |-> "none"]
Usages == {NoUsage} \union [as : {"variable", "array"}, name : Names]
                    \union [as : {"function"}, name : Names, arguments : Arguments]

Variable(kind, type, decl, def) ==
  [kind |-> kind, type |-> type, parameters |-> <<>>, variadic |-> FALSE,
   context |-> FALSE, decl |-> decl, def |-> def]
Function(parameters, variadic, context, decl, def) ==
  [kind |-> "function", type |-> 0, parameters |-> parameters, variadic |-> variadic,
   context |-> context, decl |-> decl, def |-> def]

-----------------------------------------------------------------------------
(* Queries of a table, and of the current one with its parent *)

Put(table, name, symbol) ==
  [n \in DOMAIN table \union {name} |-> IF n = name THEN symbol ELSE table[n]]

DeclaredIn(table, name) == name \in DOMAIN table /\ table[name].decl # Gone
DefinedIn(table, name) == name \in DOMAIN table /\ table[name].def # Gone

IsDeclared(name) == DeclaredIn(local, name) \/ DeclaredIn(root, name)
IsDefined(name) == DefinedIn(local, name) \/ DefinedIn(root, name)

(* getSymbol stops at the first table that has the name, live or not.        *)
GetSymbol(name) == IF name \in DOMAIN local THEN local[name] ELSE root[name]

Depth == Len(frames)
Top == IF frames = <<>> THEN "root" ELSE frames[Depth]
InFunction == \E i \in 1..Depth : frames[i] \in {"function", "end"}

Register(name, symbol) ==
  IF InFunction
  THEN local' = Put(local, name, symbol) /\ UNCHANGED root
  ELSE root' = Put(root, name, symbol) /\ UNCHANGED local

Replace(name, symbol) ==
  IF name \in DOMAIN local
  THEN local' = Put(local, name, symbol) /\ UNCHANGED root
  ELSE root' = Put(root, name, symbol) /\ UNCHANGED local

-----------------------------------------------------------------------------
(* Groups of statements, and errors *)

(* A faulty variant that drops the group around the failed one as well.      *)
ExpireOne(owner, level) == IF owner >= level - 1 THEN Gone ELSE owner

(* The references to the statements of a dropped group expire.               *)
Expire(owner, level) == IF owner >= level THEN Gone ELSE owner
Expired(table, level) ==
  [n \in DOMAIN table |->
    [table[n] EXCEPT !.decl = Expire(@, level), !.def = Expire(@, level)]]

(* A faulty variant that leaves the statements where they are.               *)
LowerNothing(owner) == owner

(* The statements of a finished group move to the list around it.            *)
Lower(owner) == IF owner = Depth THEN owner - 1 ELSE owner
Lowered(table) ==
  [n \in DOMAIN table |-> [table[n] EXCEPT !.decl = Lower(@), !.def = Lower(@)]]

(* The instructions of a function are the last part of its body.             *)
Leave ==
  LET outer == SubSeq(frames, 1, Depth - 1) IN
  IF Top = "instructions" /\ outer # <<>> /\ outer[Depth - 1] = "function"
  THEN [outer EXCEPT ![Depth - 1] = "end"]
  ELSE outer

(* A faulty variant that reports the error without counting it.              *)
RaiseUncounted(level) ==
  /\ UNCHANGED <<faulty, used, status>>
  /\ root' = Expired(root, level)
  /\ local' = Expired(local, level)
  /\ frames' = IF level > Depth THEN frames ELSE Leave

(* A SemanticError caught where the group of this depth is visited.          *)
Raise(level) ==
  /\ faulty' = TRUE
  /\ used' = NoUsage
  /\ root' = Expired(root, level)
  /\ local' = Expired(local, level)
  /\ frames' = IF level > Depth THEN frames ELSE Leave
  /\ UNCHANGED status

(* The analysis ends and its tables go: at the end of the program, by        *)
(* exit(1), by an exception nothing catches or by following a null pointer.  *)
Stop(how) ==
  /\ status' = how
  /\ root' = EmptyTable /\ local' = EmptyTable /\ frames' = <<>> /\ used' = NoUsage
  /\ UNCHANGED faulty

(* The message of the error quotes the line of the statement.                *)
RaiseQuoting(owner, level) ==
  IF owner = Gone THEN Stop("crash") ELSE Raise(level)

(* A mismatch is reported with the symbol under mSymbolMap[name] of the      *)
(* current table, which is null when the name is the parent's.               *)
RaiseMismatch(name, level) ==
  IF InFunction /\ name \notin DOMAIN local THEN Stop("crash") ELSE Raise(level)

Running == status = "running"
CanDeclare == Running /\ Top \in {"root", "function", "instructions"}
CanUse == Running /\ Top \in {"defining", "instructions"}

(* visitStatements, visitDeclarations and visitBlock start a group.          *)
Open(kind) ==
  /\ CanDeclare /\ Depth < MaxDepth
  /\ frames' = Append(frames, kind)
  /\ UNCHANGED <<root, local, faulty, status, used>>

(* The group is finished without an error.                                   *)
Close ==
  /\ Running /\ Top \in {"declaring", "defining", "instructions"}
  /\ root' = Lowered(root) /\ local' = Lowered(local)
  /\ frames' = Leave
  /\ UNCHANGED <<faulty, status, used>>

-----------------------------------------------------------------------------
(* Variables and arrays: the same code twice *)

(* A faulty variant that only looks for declarations of the current table.   *)
AddDeclarationLocally(kind, name, type, level) ==
  IF DeclaredIn(IF InFunction THEN local ELSE root, name)
  THEN RaiseQuoting(GetSymbol(name).decl, level)
  ELSE Register(name, Variable(kind, type, Depth, Gone)) /\ UNCHANGED <<frames, faulty, status, used>>

(* addVariableDeclaration, addArrayDeclaration.                              *)
AddDeclaration(kind, name, type, level) ==
  IF IsDefined(name)
  THEN RaiseQuoting(GetSymbol(name).def, level)
  ELSE IF IsDeclared(name)
  THEN RaiseQuoting(GetSymbol(name).decl, level)
  ELSE Register(name, Variable(kind, type, Depth, Gone)) /\ UNCHANGED <<frames, faulty, status, used>>

(* A faulty variant for which a definition is not a declaration.             *)
DefinedOnly(symbol, owner) == [symbol EXCEPT !.def = owner]

(* Symbol::addDefinition.                                                    *)
Defined(symbol, owner) ==
  [symbol EXCEPT !.def = owner, !.decl = IF @ = Gone THEN owner ELSE @]

(* addVariableDefinition, addArrayDefinition.                                *)
AddDefinition(kind, name, type, level) ==
  IF IsDefined(name)
  THEN RaiseQuoting(GetSymbol(name).def, level)
  ELSE IF IsDeclared(name)
  THEN LET symbol == GetSymbol(name) IN
       IF symbol.kind # kind \/ symbol.type # type
       THEN RaiseMismatch(name, level)
       ELSE /\ Replace(name, Defined(symbol, Depth))
            /\ UNCHANGED <<frames, faulty, status, used>>
  ELSE /\ Register(name, Defined(Variable(kind, type, Gone, Gone), Depth))
       /\ UNCHANGED <<frames, faulty, status, used>>

(* One name of a declaration, or of a definition, of several variables.      *)
AddVariableDeclaration(name, type) ==
  Running /\ Top = "declaring" /\ AddDeclaration("variable", name, type, Depth)
AddVariableDefinition(name, type) ==
  Running /\ Top = "defining" /\ AddDefinition("variable", name, type, Depth)

(* An array has a statement of its own, done or dropped at once.             *)
AddArrayDeclaration(name, type) ==
  CanDeclare /\ AddDeclaration("array", name, type, Depth + 1)
AddArrayDefinition(name, type) ==
  CanDeclare /\ AddDefinition("array", name, type, Depth + 1)

Record(usage) ==
  /\ used' = IF ~ faulty THEN usage ELSE NoUsage
  /\ UNCHANGED <<root, local, frames, faulty, status>>

(* addVariableUsage: the walk to the parent table finds no more, because     *)
(* isDefined has looked there.                                               *)
AddVariableUsage(name) ==
  /\ CanUse
  /\ IF ~ IsDefined(name)
     THEN Raise(Depth)
     ELSE IF GetSymbol(name).kind \notin {"variable", "array"}
     THEN RaiseMismatch(name, Depth)
     ELSE Record([as |-> "variable", name |-> name])

AddArrayAccess(name) ==
  /\ CanUse
  /\ IF ~ IsDefined(name)
     THEN Raise(Depth)
     ELSE IF GetSymbol(name).kind # "array"
     THEN RaiseMismatch(name, Depth)
     ELSE Record([as |-> "array", name |-> name])

-----------------------------------------------------------------------------
(* Functions: declarations and definitions go to the root table *)

(* The same number of parameters, in their order the same names and types;   *)
(* the types returned are never compared.                                    *)
Agrees(symbol, parameters) == symbol.parameters = parameters

(* A faulty variant for which a new declaration hides the previous one.      *)
AddFunctionDeclarationHiding(name, parameters) ==
  /\ CanDeclare
  /\ root' = Put(root, name, Function(parameters, FALSE, FALSE, Depth, Gone))
  /\ UNCHANGED <<local, frames, faulty, status, used>>

(* addFunctionDeclaration.                                                   *)
AddFunctionDeclaration(name, parameters) ==
  /\ CanDeclare
  /\ IF ~ DeclaredIn(root, name)
     THEN /\ root' = Put(root, name, Function(parameters, FALSE, FALSE, Depth, Gone))
          /\ UNCHANGED <<local, frames, faulty, status, used>>
     ELSE IF root[name].kind # "function"
     THEN Raise(Depth + 1)
     ELSE IF ~ Agrees(root[name], parameters)
     THEN Raise(Depth + 1)
     ELSE /\ root' = [root EXCEPT ![name].decl = Depth]
          /\ UNCHANGED <<local, frames, faulty, status, used>>

(* The table of a function starts with its parameters, the last one of a     *)
(* name standing for all.  They are defined by the definition itself.        *)
ParameterTable(parameters, owner) ==
  [n \in {parameters[i].name : i \in DOMAIN parameters} |->
     LET last == CHOOSE i \in DOMAIN parameters :
                   /\ parameters[i].name = n
                   /\ \A j \in DOMAIN parameters : parameters[j].name = n => j <= i
     IN Variable("variable", parameters[last].type, owner, owner)]

EnterFunction(name, symbol, parameters) ==
  /\ root' = Put(root, name, symbol)
  /\ local' = ParameterTable(parameters, Depth + 1)
  /\ frames' = Append(frames, "function")
  /\ UNCHANGED <<faulty, status, used>>

(* visitFunctionDefinition up to the block: addFunctionParameter for each    *)
(* parameter, then addFunctionDefinition.                                    *)
AddFunctionDefinition(name, parameters) ==
  /\ CanDeclare /\ Depth < MaxDepth
  /\ IF InFunction
     THEN Stop("exit")
     ELSE IF \E i \in DOMAIN parameters : DefinedIn(root, parameters[i].name)
     THEN Stop("uncaught")
     ELSE IF DefinedIn(root, name)
     THEN Raise(Depth + 1)
     ELSE IF ~ DeclaredIn(root, name)
     THEN EnterFunction(name, Function(parameters, FALSE, TRUE, Depth + 1, Depth + 1), parameters)
     ELSE IF root[name].kind # "function"
     THEN Raise(Depth + 1)
     ELSE IF root[name].context
     THEN Stop("exit")
     ELSE IF ~ Agrees(root[name], parameters)
     THEN Raise(Depth + 1)
     ELSE EnterFunction(name, [Defined(root[name], Depth + 1) EXCEPT !.context = TRUE],
                        parameters)

(* The body is visited; ContextPusher pops the context of the function.      *)
EndFunction ==
  /\ Running /\ Top \in {"function", "end"}
  /\ root' = Lowered(root)
  /\ local' = EmptyTable
  /\ frames' = SubSeq(frames, 1, Depth - 1)
  /\ used' = IF used.as = "function" THEN used ELSE NoUsage
  /\ UNCHANGED <<faulty, status>>

Fits(parameters, arguments) ==
  /\ Len(parameters) = Len(arguments)
  /\ \A i \in DOMAIN arguments : parameters[i].type >= arguments[i]

AddFunctionCall(name, arguments) ==
  /\ CanUse
  /\ IF ~ IsDeclared(name)
     THEN Raise(Depth)
     ELSE LET symbol == GetSymbol(name) IN
          IF symbol.kind # "function"
          THEN RaiseMismatch(name, Depth)
          ELSE IF ~ symbol.variadic /\ ~ Fits(symbol.parameters, arguments)
          THEN Stop("uncaught")
          ELSE Record([as |-> "function", name |-> name, arguments |-> arguments])

-----------------------------------------------------------------------------

Init ==
  /\ root = [n \in Prelude |-> Function(<<>>, TRUE, FALSE, 0, Gone)]
  /\ local = EmptyTable
  /\ frames = <<>>
  /\ faulty = FALSE
  /\ status = "running"
  /\ used = NoUsage

(* The program is visited; FrontEnd.cpp exits when errors were counted.      *)
Finish ==
  /\ Running /\ frames = <<>>
  /\ Stop(IF faulty THEN "rejected" ELSE "accepted")

Next ==
  \/ \E kind \in {"declaring", "defining", "instructions"} : Open(kind)
  \/ Close
  \/ \E name \in Names, type \in Types : AddVariableDeclaration(name, type)
  \/ \E name \in Names, type \in Types : AddVariableDefinition(name, type)
  \/ \E name \in Names, type \in Types : AddArrayDeclaration(name, type)
  \/ \E name \in Names, type \in Types : AddArrayDefinition(name, type)
  \/ \E name \in Names : AddVariableUsage(name)
  \/ \E name \in Names : AddArrayAccess(name)
  \/ \E name \in Names, parameters \in Parameters : AddFunctionDeclaration(name, parameters)
  \/ \E name \in Names, parameters \in Parameters : AddFunctionDefinition(name, parameters)
  \/ EndFunction
  \/ \E name \in Names, arguments \in Arguments : AddFunctionCall(name, arguments)
  \/ Finish

Spec == Init /\ [][Next]_vars

-----------------------------------------------------------------------------
(* Properties *)

Statuses == {"running", "accepted", "rejected", "exit", "uncaught", "crash"}

(* Tables hold symbols, and every owner is a group that is still open.       *)
TypeOK ==
  /\ IsTable(root) /\ IsTable(local)
  /\ frames \in Seq(FrameKinds) /\ Depth <= MaxDepth
  /\ faulty \in BOOLEAN
  /\ status \in Statuses
  /\ used \in Usages
  /\ \A n \in DOMAIN root : root[n].decl <= Depth /\ root[n].def <= Depth
  /\ \A n \in DOMAIN local : local[n].decl <= Depth /\ local[n].def <= Depth

KeepsDeclaration(symbol) ==
  symbol.kind # "function" /\ symbol.def # Gone
    => symbol.decl # Gone /\ symbol.decl <= symbol.def

(* A defined variable or array is declared, whatever errors have dropped:    *)
(* the statement a symbol was declared by never goes before the one it was   *)
(* defined by (Symbol::addDefinition against the groups of the visitor).     *)
VariablesKeepDeclarations ==
  /\ \A n \in DOMAIN root : KeepsDeclaration(root[n])
  /\ \A n \in DOMAIN local : KeepsDeclaration(local[n])

(* As long as no error has been reported, no table holds a stale symbol that *)
(* would hide the parent's, and a function has a context exactly when it is  *)
(* defined, so that "only declared, but the function context isn't null"     *)
(* (SymbolTable.cpp:384) cannot stop the compiler.                           *)
TablesAreLive ==
  ~ faulty =>
    /\ \A n \in DOMAIN root :
         /\ root[n].decl # Gone
         /\ root[n].kind = "function" => (root[n].context <=> root[n].def # Gone)
    /\ \A n \in DOMAIN local : local[n].decl # Gone /\ local[n].kind # "function"

(* As long as no error has been reported, what was used stays what it was    *)
(* when the usage was accepted: a variable or an array stays defined as one, *)
(* and the arguments of a call still fit the parameters of the function,     *)
(* whatever has been declared and defined since.                             *)
UsagesStayBound ==
  ~ faulty =>
    CASE used.as = "none" -> TRUE
      [] used.as = "function" ->
           /\ DeclaredIn(root, used.name) /\ root[used.name].kind = "function"
           /\ \/ root[used.name].variadic
              \/ Fits(root[used.name].parameters, used.arguments)
      [] OTHER ->
           /\ IsDefined(used.name)
           /\ GetSymbol(used.name).kind \in {used.as, "array"}

(* A variable or an array defined by a statement that has reached the root   *)
(* context stays as it is, whatever errors and definitions follow.           *)
FinishedDefinitionsSurvive ==
  [][ status' = "running" => \A n \in DOMAIN root :
        root[n].kind # "function" /\ root[n].def = 0
          => n \in DOMAIN root' /\ root'[n] = root[n] ]_vars

-----------------------------------------------------------------------------
(* The tables of a program without errors implement the scopes of Scopes *)

EntityOf(symbol) ==
  IF symbol.kind = "function"
  THEN [is |-> "function", parameters |-> symbol.parameters, defined |-> symbol.def # Gone]
  ELSE [is |-> "object", kind |-> symbol.kind, type |-> symbol.type,
        defined |-> symbol.def # Gone]

ScopeOf(table) ==
  [n \in Names |->
     IF ~ faulty /\ n \in DOMAIN table THEN EntityOf(table[n]) ELSE [is |-> "free"]]

Verdict ==
  IF faulty \/ status \in {"exit", "uncaught", "crash"} THEN "refused"
  ELSE IF Running THEN "open" ELSE "accepted"

Promise == INSTANCE Scopes WITH
  global <- ScopeOf(root), inner <- ScopeOf(local),
  inside <- ~ faulty /\ InFunction, verdict <- Verdict

(* Every step of the analysis is one the scopes allow: until the first       *)
(* error, a visible name is never introduced again, a symbol is never        *)
(* replaced or forgotten, and it is defined once, as it was declared.        *)
ImplementsScopes == Promise!Spec

-----------------------------------------------------------------------------
(* A statement of the repository that the tables do not keep *)

(* "semantic error at 30:0: Cannot define the variable'd' which has a        *)
(* previous occurrence as a ArraySymbol" (doc/semantic.md): a mismatch ends  *)
(* in an error report, never in a null pointer.                              *)
MismatchIsReported == status # "crash"
=============================================================================

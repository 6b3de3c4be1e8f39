------------------------------- MODULE Scopes -------------------------------
(***************************************************************************)
(* What the symbol tables promise of a program that has no semantic error: *)
(* a name is introduced once in a scope and never over a name that is      *)
(* visible there, what it stands for never changes, it is defined at most  *)
(* once and never forgotten, and the names of a function end with it.      *)
(* Parameters alone may hide a name, if it is not defined.                 *)
(***************************************************************************)
EXTENDS Integers, Sequences

CONSTANTS
  Names,       \* identifiers
  Types,       \* types of variables and of the elements of arrays
  Parameters,  \* the possible lists of parameters
  Prelude      \* functions that every program may call

VARIABLES
  global,   \* what the names of the program stand for
  inner,    \* what the names of the function being read stand for
  inside,   \* whether a function is being read
  verdict   \* "open", "accepted" or "refused"

scopes == <<global, inner, inside, verdict>>

Free == [is |-> "free"]
Object(kind, type) == [is |-> "object", kind |-> kind, type |-> type, defined |-> FALSE]
Routine(parameters) == [is |-> "function", parameters |-> parameters, defined |-> FALSE]
AsDefined(entity) == [entity EXCEPT !.defined = TRUE]

Nothing == [n \in Names |-> Free]
IsDefinedAs(entity) == entity # Free /\ entity.defined

\* The objects a list of parameters defines: the last one of a name counts.
ParameterScope(parameters) ==
  [n \in Names |->
     LET at == {i \in DOMAIN parameters : parameters[i].name = n} IN
     IF at = {} THEN Free
     ELSE LET last == CHOOSE i \in at : \A j \in at : j <= i
          IN AsDefined(Object("variable", parameters[last].type))]

Init ==
  /\ global = [n \in Names |-> IF n \in Prelude THEN Routine(<<>>) ELSE Free]
  /\ inner = Nothing
  /\ inside = FALSE
  /\ verdict = "open"

(* A variable or an array is introduced where no such name is visible.       *)
Introduce(n, entity) ==
  /\ verdict = "open"
  /\ global[n] = Free /\ inner[n] = Free
  /\ IF inside
     THEN inner' = [inner EXCEPT ![n] = entity] /\ UNCHANGED global
     ELSE global' = [global EXCEPT ![n] = entity] /\ UNCHANGED inner
  /\ UNCHANGED <<inside, verdict>>

(* A declared one is defined, in the scope that has it.                      *)
Define(n) ==
  /\ verdict = "open"
  /\ \/ /\ inner[n].is = "object" /\ ~ inner[n].defined
        /\ inner' = [inner EXCEPT ![n] = AsDefined(@)]
        /\ UNCHANGED global
     \/ /\ inner[n] = Free /\ global[n].is = "object" /\ ~ global[n].defined
        /\ global' = [global EXCEPT ![n] = AsDefined(@)]
        /\ UNCHANGED inner
  /\ UNCHANGED <<inside, verdict>>

IntroduceFunction(n, parameters) ==
  /\ verdict = "open"
  /\ global[n] = Free
  /\ global' = [global EXCEPT ![n] = Routine(parameters)]
  /\ UNCHANGED <<inner, inside, verdict>>

(* A function is defined with the parameters it was introduced with.         *)
EnterFunction(n, parameters) ==
  /\ verdict = "open" /\ ~ inside
  /\ global[n] \in {Free, Routine(parameters)}
  /\ \A i \in DOMAIN parameters : ~ IsDefinedAs(global[parameters[i].name])
  /\ global' = [global EXCEPT ![n] = AsDefined(Routine(parameters))]
  /\ inner' = ParameterScope(parameters)
  /\ inside' = TRUE
  /\ UNCHANGED verdict

LeaveFunction ==
  /\ verdict = "open" /\ inside
  /\ inner' = Nothing /\ inside' = FALSE
  /\ UNCHANGED <<global, verdict>>

(* The program ends, or is found faulty, and the scopes go.                  *)
Conclude(v) ==
  /\ verdict = "open"
  /\ v = "accepted" => ~ inside
  /\ verdict' = v
  /\ global' = Nothing /\ inner' = Nothing /\ inside' = FALSE

Next ==
  \/ \E n \in Names, kind \in {"variable", "array"}, type \in Types :
       Introduce(n, Object(kind, type)) \/ Introduce(n, AsDefined(Object(kind, type)))
  \/ \E n \in Names : Define(n)
  \/ \E n \in Names, parameters \in Parameters :
       IntroduceFunction(n, parameters) \/ EnterFunction(n, parameters)
  \/ LeaveFunction
  \/ \E v \in {"accepted", "refused"} : Conclude(v)

Spec == Init /\ [][Next]_scopes
=============================================================================
